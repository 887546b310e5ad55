--------------------------- MODULE MCDataObjects ---------------------------
(* Every struct and every table, with two trips: the second shows that     *)
(* what came back from the first survives being written again.             *)
EXTENDS DataObjects
=============================================================================
