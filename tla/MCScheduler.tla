---------------------------- MODULE MCScheduler -----------------------------
(* TLC instances of Scheduler.  Two or three cores share a few processes.  *)
(* Messages come in every order, to every process, from the main thread    *)
(* and from the handlers, until MaxMessages have been sent.  MaxRetries is *)
(* 0: every round over the queues may find nothing, so a larger bound adds *)
(* nothing but rounds before the nap.  Wrap is a small power of two, so    *)
(* that the counter wraps below zero as the u32 does.                      *)
EXTENDS Scheduler
=============================================================================
