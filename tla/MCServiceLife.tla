--------------------------- MODULE MCServiceLife ---------------------------
(* Bounds for TLC: two starts are a first one and one after a stop or a      *)
(* crash; the sweep comes after two ticks, and one event fills the queue.    *)
EXTENDS ServiceLife
=============================================================================
