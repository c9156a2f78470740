------------------------------ MODULE TryLock -------------------------------
(***************************************************************************)
(* AutoTryLock (inc/eople_vm.h): the scoped try-lock that guards every     *)
(* message queue and every process of the virtual machine.  The lock is a  *)
(* counter.  An attempt adds one and has the lock if the counter was zero; *)
(* otherwise it takes its one back.  The two halves of a failed attempt    *)
(* are separate atomic instructions, so a failing thread makes others fail *)
(* for a moment even when nobody has the lock.                             *)
(***************************************************************************)
EXTENDS Integers, FiniteSets

CONSTANT Threads

ASSUME ThreadsAssumption == IsFiniteSet(Threads)

VARIABLES
  try_lock,     \* the atomic counter
  got_lock,     \* the got_lock member of each thread's AutoTryLock object
  pc            \* "out": no object; "backoff": failed, one still added;
                \* "scope": the object exists and is at rest
vars == <<try_lock, got_lock, pc>>

TypeOK ==
  /\ try_lock \in Nat
  /\ got_lock \in [Threads -> BOOLEAN]
  /\ pc \in [Threads -> {"out", "backoff", "scope"}]

Init ==
  /\ try_lock = 0
  /\ got_lock = [t \in Threads |-> FALSE]
  /\ pc = [t \in Threads |-> "out"]

(* fetch_add(1) and got_lock = (old == 0). *)
FetchAddLoose(t) ==                       \* mutant: off by one
  /\ try_lock' = try_lock + 1
  /\ got_lock' = [got_lock EXCEPT ![t] = (try_lock <= 1)]
  /\ pc' = [pc EXCEPT ![t] = IF try_lock <= 1 THEN "scope" ELSE "backoff"]
FetchAdd(t) ==
  /\ try_lock' = try_lock + 1
  /\ got_lock' = [got_lock EXCEPT ![t] = (try_lock = 0)]
  /\ pc' = [pc EXCEPT ![t] = IF try_lock = 0 THEN "scope" ELSE "backoff"]

(* The constructor makes the first attempt. *)
Construct(t) == pc[t] = "out" /\ FetchAdd(t)

(* SendMessage and ExecuteFunctionIncremental call try_again in a loop     *)
(* that runs while they do not have the lock.                              *)
TryAgain(t) == pc[t] = "scope" /\ ~got_lock[t] /\ FetchAdd(t)

(* if( !got_lock ) --try_lock, the second half of a failed attempt. *)
KeepAdded(t) ==                           \* mutant: the one stays added
  /\ pc[t] = "backoff"
  /\ pc' = [pc EXCEPT ![t] = "scope"]
  /\ UNCHANGED <<try_lock, got_lock>>
BackOff(t) ==
  /\ pc[t] = "backoff"
  /\ try_lock' = try_lock - 1
  /\ pc' = [pc EXCEPT ![t] = "scope"]
  /\ UNCHANGED got_lock

(* unlock(): gives the lock back once, however often it is called. *)
ReleaseAlways(t) ==                       \* mutant: also when it is not held
  /\ try_lock' = try_lock - 1
  /\ got_lock' = [got_lock EXCEPT ![t] = FALSE]
Release(t) ==
  /\ try_lock' = IF got_lock[t] THEN try_lock - 1 ELSE try_lock
  /\ got_lock' = [got_lock EXCEPT ![t] = FALSE]

Unlock(t) == pc[t] = "scope" /\ Release(t) /\ UNCHANGED pc

(* The destructor unlocks too, after an explicit unlock() or without one. *)
Destroy(t) ==
  /\ pc[t] = "scope"
  /\ Release(t)
  /\ pc' = [pc EXCEPT ![t] = "out"]

Next == \E t \in Threads :
  \/ Construct(t) \/ TryAgain(t) \/ BackOff(t) \/ Unlock(t) \/ Destroy(t)

Spec == Init /\ [][Next]_vars

-----------------------------------------------------------------------------
Holders == {t \in Threads : got_lock[t]}
Added   == Holders \cup {t \in Threads : pc[t] = "backoff"}

(* No two AutoTryLock objects on one lock say got_lock at the same time,   *)
(* although acquiring, failing and releasing are separate instructions     *)
(* and every object is released by unlock() and again by its destructor.   *)
MutualExclusion == \A s, t \in Threads : got_lock[s] /\ got_lock[t] => s = t

(* The counter is exactly the number of threads with one added: no         *)
(* attempt, retry or double release leaks a unit, which would close the    *)
(* lock for ever (too many) or open it to two threads (too few).           *)
CounterExact == try_lock = Cardinality(Added)

(* AutoTryLock implements a mutex. *)
Abstract == INSTANCE Mutex WITH inside <- Holders
RefinesMutex == Abstract!Spec

=============================================================================
