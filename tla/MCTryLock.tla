----------------------------- MODULE MCTryLock ------------------------------
(* TLC instance of TryLock: five threads compete for one lock. *)
EXTENDS TryLock
=============================================================================
