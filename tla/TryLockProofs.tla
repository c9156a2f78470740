--------------------------- MODULE TryLockProofs ----------------------------
(***************************************************************************)
(* Proofs about AutoTryLock, for every finite set of threads.              *)
(***************************************************************************)
EXTENDS TryLock, FiniteSetTheorems, TLAPS

(* The inductive invariant: the counter is the number of threads with one  *)
(* added, a lock that says got_lock is at rest in its scope, and at most   *)
(* one does.                                                               *)
OnlyInScope == \A t \in Threads : got_lock[t] => pc[t] = "scope"

IInv == TypeOK /\ OnlyInScope /\ CounterExact /\ MutualExclusion

-----------------------------------------------------------------------------
(* The threads that added one are finitely many.                           *)
LEMMA AddedFinite == IsFiniteSet(Added)
<1>1. Added \subseteq Threads
  BY DEF Added, Holders
<1> QED
  BY <1>1, FS_Subset, ThreadsAssumption

LEMMA RemoveType == ASSUME NEW t PROVE Cardinality(Added \ {t}) \in Nat
  BY AddedFinite, FS_RemoveElement, FS_CardinalityType, FS_Subset

(* A failed or successful attempt adds exactly its thread.                 *)
LEMMA FetchAddStep ==
  ASSUME IInv, NEW t \in Threads, pc[t] # "backoff", ~got_lock[t], FetchAdd(t)
  PROVE  IInv'
<1> USE DEF IInv
<1>1. TypeOK'
  BY DEF TypeOK, FetchAdd
<1>2. OnlyInScope'
  BY DEF TypeOK, FetchAdd, OnlyInScope
<1>3. t \notin Added /\ Added' = Added \cup {t}
  BY <1>1 DEF TypeOK, FetchAdd, Added, Holders, OnlyInScope
<1>4. Cardinality(Added \cup {t}) = Cardinality(Added) + 1
  BY <1>3, AddedFinite, FS_AddElement
<1>5. CounterExact'
  BY <1>3, <1>4 DEF CounterExact, FetchAdd
<1>6. MutualExclusion'
  <2>1. CASE try_lock = 0
    <3>1. Added = {}
      BY <2>1, AddedFinite, FS_EmptySet DEF CounterExact
    <3>2. \A s \in Threads : ~got_lock[s]
      BY <3>1 DEF Added, Holders
    <3> QED
      BY <3>2 DEF TypeOK, FetchAdd, MutualExclusion
  <2>2. CASE try_lock # 0
    BY <2>2 DEF TypeOK, FetchAdd, MutualExclusion
  <2> QED
    BY <2>1, <2>2
<1> QED
  BY <1>1, <1>2, <1>5, <1>6

(* Taking the one back after a failed attempt. *)
LEMMA BackOffStep ==
  ASSUME IInv, NEW t \in Threads, BackOff(t)
  PROVE  IInv'
<1> USE DEF IInv
<1>1. t \in Added /\ Added' = Added \ {t}
  BY DEF TypeOK, BackOff, OnlyInScope, Added, Holders
<1>2. Cardinality(Added \ {t}) = Cardinality(Added) - 1
  BY <1>1, AddedFinite, FS_RemoveElement
<1>3. CounterExact'
  BY <1>1, <1>2 DEF CounterExact, BackOff
<1>4. TypeOK'
  BY <1>1, <1>3, RemoveType DEF TypeOK, BackOff, CounterExact
<1>5. OnlyInScope' /\ MutualExclusion'
  BY DEF TypeOK, BackOff, OnlyInScope, MutualExclusion
<1> QED
  BY <1>3, <1>4, <1>5

(* unlock() and the destructor take the one back if the lock was got, and  *)
(* change nothing the second time.                                         *)
LEMMA ReleaseStep ==
  ASSUME IInv, NEW t \in Threads, pc[t] = "scope", Release(t),
         pc' = pc \/ pc' = [pc EXCEPT ![t] = "out"]
  PROVE  IInv'
<1> USE DEF IInv
<1>1. Added' = Added \ {t}
  BY DEF TypeOK, Release, OnlyInScope, Added, Holders
<1>2. CounterExact'
  <2>1. CASE got_lock[t]
    <3>1. t \in Added
      BY <2>1 DEF Added, Holders
    <3>2. Cardinality(Added \ {t}) = Cardinality(Added) - 1
      BY <3>1, AddedFinite, FS_RemoveElement
    <3> QED
      BY <2>1, <1>1, <3>2 DEF CounterExact, Release
  <2>2. CASE ~got_lock[t]
    <3>1. t \notin Added
      BY <2>2 DEF Added, Holders
    <3>2. Added' = Added
      BY <3>1, <1>1
    <3> QED
      BY <2>2, <3>2 DEF CounterExact, Release
  <2> QED
    BY <2>1, <2>2
<1>3. TypeOK'
  BY <1>1, <1>2, RemoveType DEF TypeOK, Release, CounterExact
<1>4. OnlyInScope' /\ MutualExclusion'
  BY DEF TypeOK, Release, OnlyInScope, MutualExclusion
<1> QED
  BY <1>2, <1>3, <1>4

LEMMA InitInv == Init => IInv
<1> SUFFICES ASSUME Init PROVE IInv
  OBVIOUS
<1>1. Added = {}
  BY DEF Init, Added, Holders
<1>2. Cardinality(Added) = 0
  BY <1>1, FS_EmptySet
<1> QED
  BY <1>2 DEF Init, IInv, TypeOK, OnlyInScope, CounterExact, MutualExclusion

LEMMA NextInv == IInv /\ [Next]_vars => IInv'
<1> SUFFICES ASSUME IInv, [Next]_vars PROVE IInv'
  OBVIOUS
<1>1. ASSUME NEW t \in Threads, Construct(t) PROVE IInv'
  <2>1. ~got_lock[t]
    BY <1>1 DEF Construct, IInv, OnlyInScope
  <2> QED
    BY <1>1, <2>1, FetchAddStep DEF Construct
<1>2. ASSUME NEW t \in Threads, TryAgain(t) PROVE IInv'
  BY <1>2, FetchAddStep DEF TryAgain
<1>3. ASSUME NEW t \in Threads, BackOff(t) PROVE IInv'
  BY <1>3, BackOffStep
<1>4. ASSUME NEW t \in Threads, Unlock(t) PROVE IInv'
  BY <1>4, ReleaseStep DEF Unlock
<1>5. ASSUME NEW t \in Threads, Destroy(t) PROVE IInv'
  BY <1>5, ReleaseStep DEF Destroy
<1>6. CASE UNCHANGED vars
  BY <1>6 DEF vars, IInv, TypeOK, OnlyInScope, CounterExact, MutualExclusion, Added, Holders
<1> QED
  BY <1>1, <1>2, <1>3, <1>4, <1>5, <1>6 DEF Next

LEMMA Invariance == Spec => []IInv
<1> QED
  BY InitInv, NextInv, PTL DEF Spec

-----------------------------------------------------------------------------
(* The variables of the lock keep their types. *)
THEOREM TypeCorrect == Spec => []TypeOK
<1>1. IInv => TypeOK
  BY DEF IInv
<1> QED
  BY Invariance, <1>1, PTL

(* At most one thread has the lock, however many compete for it.           *)
THEOREM Safety == Spec => []MutualExclusion
<1>1. IInv => MutualExclusion
  BY DEF IInv
<1> QED
  BY Invariance, <1>1, PTL

(* No attempt, retry or double release leaks a unit of the counter.        *)
THEOREM NoLeak == Spec => []CounterExact
<1>1. IInv => CounterExact
  BY DEF IInv
<1> QED
  BY Invariance, <1>1, PTL

(* Every behaviour of AutoTryLock is, seen through who has the lock, a     *)
(* behaviour of a mutex.                                                   *)
THEOREM Implements == Spec => RefinesMutex
<1>1. Init => Abstract!Init
  BY DEF Init, Abstract!Init, Holders
<1>2. IInv /\ [Next]_vars => [Abstract!Next]_Holders
  <2> SUFFICES ASSUME IInv, [Next]_vars PROVE [Abstract!Next]_Holders
    OBVIOUS
  <2>1. ASSUME NEW t \in Threads, pc[t] # "backoff", ~got_lock[t], FetchAdd(t)
        PROVE  Abstract!Enter(t) \/ Holders' = Holders
    <3>1. CASE try_lock = 0
      <4>1. Added = {}
        BY <3>1, AddedFinite, FS_EmptySet DEF IInv, CounterExact
      <4>2. Holders = {}
        BY <4>1 DEF Added
      <4>3. Holders' = {t}
        BY <2>1, <3>1, <4>2 DEF FetchAdd, Holders, IInv, TypeOK
      <4> QED
        BY <4>2, <4>3 DEF Abstract!Enter
    <3>2. CASE try_lock # 0
      BY <2>1, <3>2 DEF FetchAdd, Holders, IInv, TypeOK
    <3> QED
      BY <3>1, <3>2
  <2>2. ASSUME NEW t \in Threads, Release(t)
        PROVE  Abstract!Leave(t) \/ Holders' = Holders
    BY <2>2 DEF Release, Holders, IInv, TypeOK, Abstract!Leave
  <2>3. ASSUME NEW t \in Threads, Construct(t) PROVE Abstract!Enter(t) \/ Holders' = Holders
    BY <2>1, <2>3 DEF Construct, IInv, OnlyInScope
  <2>4. ASSUME NEW t \in Threads, TryAgain(t) PROVE Abstract!Enter(t) \/ Holders' = Holders
    BY <2>1, <2>4 DEF TryAgain
  <2>5. ASSUME NEW t \in Threads, BackOff(t) PROVE Holders' = Holders
    BY <2>5 DEF BackOff, Holders
  <2>6. ASSUME NEW t \in Threads, Unlock(t) \/ Destroy(t) PROVE Abstract!Leave(t) \/ Holders' = Holders
    BY <2>2, <2>6 DEF Unlock, Destroy
  <2>7. CASE UNCHANGED vars
    BY <2>7 DEF vars, Holders
  <2> QED
    BY <2>3, <2>4, <2>5, <2>6, <2>7 DEF Next, Abstract!Next
<1> QED
  BY <1>1, <1>2, Invariance, PTL DEF Spec, RefinesMutex, Abstract!Spec

=============================================================================
