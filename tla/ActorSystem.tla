---------------------------- MODULE ActorSystem -----------------------------
(***************************************************************************)
(* What the virtual machine promises to the programs it runs, whatever its *)
(* threads, queues and locks: processes that receive messages, execute     *)
(* them one at a time, in the order they were sent, timers when their time *)
(* has come, and a shutdown that leaves nothing undone.                    *)
(***************************************************************************)
EXTENDS Naturals, Sequences

CONSTANT Procs

VARIABLES
  target,       \* the process of every message sent, in order
  timers,       \* the messages that are timers
  later,        \* the timers that are not yet due
  running,      \* the messages being executed
  executed,     \* the messages executed
  down          \* whether the system has shut down
vars == <<target, timers, later, running, executed, down>>

Ids == 1 .. Len(target)

Init ==
  /\ target = << >>
  /\ timers = {} /\ later = {} /\ running = {} /\ executed = {}
  /\ down = FALSE

(* A message, or a timer, is sent to process p. *)
Send(p) ==
  /\ ~down
  /\ target' = Append(target, p)
  /\ \/ UNCHANGED <<timers, later>>
     \/ timers' = timers \cup {Len(target) + 1} /\ later' = later \cup {Len(target) + 1}
  /\ UNCHANGED <<running, executed, down>>

Expire(m) ==
  /\ m \in later
  /\ later' = later \ {m}
  /\ UNCHANGED <<target, timers, running, executed, down>>

(* The process of m is at rest, m is due, and no earlier message waits;    *)
(* only a timer may overtake or be overtaken.                              *)
Start(m) ==
  /\ m \in Ids \ (executed \cup running \cup later)
  /\ \A k \in running : target[k] # target[m]
  /\ m \notin timers =>
       \A k \in 1 .. m - 1 : target[k] = target[m] => k \in executed \cup timers
  /\ running' = running \cup {m}
  /\ UNCHANGED <<target, timers, later, executed, down>>

Finish(m) ==
  /\ m \in running
  /\ running' = running \ {m}
  /\ executed' = executed \cup {m}
  /\ UNCHANGED <<target, timers, later, down>>

ShutDown ==
  /\ ~down
  /\ executed = Ids
  /\ down' = TRUE
  /\ UNCHANGED <<target, timers, later, running, executed>>

Next ==
  \/ \E p \in Procs : Send(p)
  \/ \E m \in Ids : Expire(m) \/ Start(m) \/ Finish(m)
  \/ ShutDown

Spec == Init /\ [][Next]_vars

=============================================================================
