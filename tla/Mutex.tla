------------------------------- MODULE Mutex --------------------------------
(***************************************************************************)
(* What a lock promises, whatever it is made of: at most one thread is     *)
(* inside, and the lock is handed over only through the outside.           *)
(***************************************************************************)
CONSTANT Threads

VARIABLE inside         \* the threads inside the critical section

Init == inside = {}

Enter(t) ==
  /\ inside = {}
  /\ inside' = {t}

Leave(t) ==
  /\ t \in inside
  /\ inside' = inside \ {t}

Next == \E t \in Threads : Enter(t) \/ Leave(t)

Spec == Init /\ [][Next]_inside

=============================================================================
