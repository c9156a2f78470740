--------------------------- MODULE MCProcessStack ---------------------------
(* ProcessStack with two values a variable may hold. *)
EXTENDS ProcessStack

TwoValues == {0, 1}
=============================================================================
