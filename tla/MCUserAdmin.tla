---------------------------- MODULE MCUserAdmin ----------------------------
(* Instances of UserAdmin for TLC. *)
EXTENDS UserAdmin, TLC

CONSTANTS r1, r2, c1, t1, t2

MCRow(u, r, by) == [id |-> u, role |-> r, createdBy |-> by, suspended |-> FALSE]

\* Two roots.
MCRootUsers == {r1, r2}
MCRoots == [u \in MCRootUsers |-> MCRow(u, "root", None)]

\* A root alone, and an id to create.
MCPairUsers == {r1, c1}
MCPair == [u \in MCPairUsers |-> IF u = r1 THEN MCRow(u, "root", None) ELSE None]

MCThreads == {t1, t2}

Symmetry == Permutations(MCThreads)
=============================================================================
