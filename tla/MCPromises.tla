----------------------------- MODULE MCPromises -----------------------------
(* Promises on small sets of processes; a is a caller, b is called. *)
EXTENDS Promises

CONSTANTS a, b
=============================================================================
