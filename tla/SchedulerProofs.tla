-------------------------- MODULE SchedulerProofs ---------------------------
(***************************************************************************)
(* Proofs about the scheduler, for every number of cores, processes,       *)
(* messages and timers, every buffer size and every number of retries.     *)
(***************************************************************************)
EXTENDS Scheduler, FiniteSetTheorems, SequenceTheorems, TLAPS

(* A handler runs on a core with a batch, and a core without a batch does  *)
(* not run one.                                                            *)
BatchShape ==
  \A c \in Cores :
    /\ Running(c) => messages[c] # << >>
    /\ pc[c] = "release" => messages[c] = << >>
    /\ Len(messages[c]) <= BufferSize

(* idle_count is the number of cores that are asleep or gone. *)
IdlePcs == {"sleep", "wait", "exited"}
Idle == {c \in Cores : pc[c] \in IdlePcs}
IdleExact == idle_count = Cardinality(Idle)

(* Main and the cores are at their own places. *)
PcShape ==
  /\ pc[Main] \in MainPcs \cup SendPcs
  /\ \A c \in Cores : pc[c] \in CorePcs \cup SendPcs

(* A core holds the lock of the process of every message of its batch. *)
BatchLocked ==
  \A c \in Cores : \A k \in 1 .. Len(messages[c]) :
    process_locks[target[messages[c][k]]] = c

IInv == TypeOK /\ PcShape /\ BatchShape /\ IdleExact /\ BatchLocked

-----------------------------------------------------------------------------
USE DEF queueVars, idleVars, batchVars, historyVars

(* The constants' types, where the steps need them. *)
LEMMA Constants ==
  /\ Main \notin Cores /\ NoOne \notin Cores /\ Threads = Cores \cup {Main}
  /\ IsFiniteSet(Cores)
<1>1. IsFiniteSet(Cores)
  BY FS_Interval, CoreAssumption DEF Cores
<1> QED
  BY <1>1, CoreAssumption DEF Cores, Main, NoOne, Threads

LEMMA Modulo == ASSUME NEW n \in Nat PROVE n % CoreCount \in Queues
  BY CoreAssumption DEF Queues

LEMMA QueueTypes ==
  ASSUME TypeOK
  PROVE  /\ \A c \in Cores : QueueOf(c) \in Queues
         /\ \A p \in Procs : Home(p) \in Queues
<1>1. \A c \in Cores : scan[c] + c \in Nat
  <2>1. scan \in [Cores -> Queues]
    BY DEF TypeOK
  <2> QED
    BY <2>1, CoreAssumption DEF Queues, Cores
<1>2. \A p \in Procs : p \in Nat
  BY ProcAssumption
<1> QED
  BY <1>1, <1>2, Modulo DEF QueueOf, Home

LEMMA HeadTypes ==
  ASSUME NEW S, NEW s \in Seq(S), s # << >>
  PROVE  Head(s) \in S /\ Tail(s) \in Seq(S) /\ Len(s) \in Nat \ {0} /\ Len(Tail(s)) = Len(s) - 1
  OBVIOUS

-----------------------------------------------------------------------------
(* What a step keeps when a thread only goes to another place.             *)
AllPcs == CorePcs \cup SendPcs \cup MainPcs

LEMMA Move ==
  ASSUME IInv, NEW t \in Threads, NEW l, Go(t, l),
         IF t = Main THEN l \in MainPcs \cup SendPcs ELSE l \in CorePcs \cup SendPcs,
         t \in Cores => (pc[t] \in IdlePcs <=> l \in IdlePcs),
         t \in Cores /\ l \in {"run"} \cup SendPcs => messages[t] # << >>,
         t \in Cores /\ l = "release" => messages[t] = << >>,
         messages' = messages, idle_count' = idle_count
  PROVE  pc' \in [Threads -> AllPcs] /\ PcShape' /\ BatchShape' /\ IdleExact'
<1>1. pc \in [Threads -> AllPcs]
  BY DEF IInv, TypeOK, AllPcs
<1>2. pc' = [pc EXCEPT ![t] = l] /\ l \in AllPcs
  BY Constants DEF Go, AllPcs
<1>3. pc' \in [Threads -> AllPcs]
  BY <1>1, <1>2
<1>4. PcShape'
  BY <1>1, <1>2, Constants DEF IInv, PcShape
<1>5. BatchShape'
  BY <1>1, <1>2, Constants DEF IInv, BatchShape, Running
<1>6. Idle' = Idle
  BY <1>1, <1>2, Constants DEF Idle
<1> QED
  BY <1>3, <1>4, <1>5, <1>6 DEF IInv, IdleExact

LEMMA LocksKept ==
  ASSUME IInv, messages' = messages, process_locks' = process_locks, target' = target
  PROVE  BatchLocked'
  BY DEF IInv, BatchLocked

(* The loop over the queues goes on or ends. *)
LEMMA NextQueueMove ==
  ASSUME IInv, NEW c \in Cores, NextQueue(c), pc[c] \notin IdlePcs,
         messages' = messages, idle_count' = idle_count
  PROVE  /\ scan' \in [Cores -> Queues] /\ pc' \in [Threads -> AllPcs]
         /\ PcShape' /\ BatchShape' /\ IdleExact'
<1>1. scan \in [Cores -> Queues]
  BY DEF IInv, TypeOK
<1>2. scan' \in [Cores -> Queues]
  BY <1>1, CoreAssumption DEF NextQueue, Queues
<1>3. PICK l \in {"scan", "end"} : Go(c, l)
  BY DEF NextQueue
<1> QED
  BY <1>2, <1>3, Move, Constants DEF CorePcs, SendPcs, IdlePcs

LEMMA TryQueueHitStep ==
  ASSUME IInv, NEW c \in Cores, NEW i \in Queues, TryQueueHit(c, i)
  PROVE  IInv'
<1>1. pc' \in [Threads -> AllPcs] /\ PcShape' /\ BatchShape' /\ IdleExact'
  BY Move, Constants DEF TryQueueHit, CorePcs, SendPcs, IdlePcs
<1>2. TypeOK'
  BY <1>1 DEF IInv, TypeOK, TryQueueHit, AllPcs, Ids
<1> QED
  BY <1>1, <1>2, LocksKept DEF TryQueueHit, IInv

LEMMA TryQueueMissStep ==
  ASSUME IInv, NEW c \in Cores, TryQueueMiss(c)
  PROVE  IInv'
<1>1. /\ scan' \in [Cores -> Queues] /\ pc' \in [Threads -> AllPcs]
      /\ PcShape' /\ BatchShape' /\ IdleExact'
  BY NextQueueMove DEF TryQueueMiss, IdlePcs
<1>2. TypeOK'
  BY <1>1 DEF IInv, TypeOK, TryQueueMiss, AllPcs, Ids
<1> QED
  BY <1>1, <1>2, LocksKept DEF TryQueueMiss, IInv

LEMMA LeaveQueueStep ==
  ASSUME IInv, NEW c \in Cores, LeaveQueue(c)
  PROVE  IInv'
<1>1. /\ scan' \in [Cores -> Queues] /\ pc' \in [Threads -> AllPcs]
      /\ PcShape' /\ BatchShape' /\ IdleExact'
  BY NextQueueMove DEF LeaveQueue, IdlePcs
<1>2. TypeOK'
  BY <1>1, QueueTypes DEF IInv, TypeOK, LeaveQueue, AllPcs, Ids
<1> QED
  BY <1>1, <1>2, LocksKept DEF LeaveQueue, IInv

(* A core takes a lock that was free, which no batch depends on. *)
LEMMA LockProcessStep ==
  ASSUME IInv, NEW c \in Cores, LockProcess(c)
  PROVE  IInv'
<1> DEFINE i == QueueOf(c)
           p == target[Head(queues[i])]
<1>1. pc' \in [Threads -> AllPcs] /\ PcShape' /\ BatchShape' /\ IdleExact'
  BY Move, Constants DEF LockProcess, CorePcs, SendPcs, IdlePcs
<1>2. i \in Queues
  BY QueueTypes DEF IInv
<1>3. Head(queues[i]) \in Ids
  BY <1>2 DEF LockProcess, IInv, TypeOK
<1>4. p \in Procs
  BY <1>3 DEF IInv, TypeOK, Ids
<1>5. TypeOK'
  BY <1>1, <1>4 DEF IInv, TypeOK, LockProcess, AllPcs, Ids
<1>6. BatchLocked'
  <2>1. process_locks[p] = NoOne /\ process_locks' = [process_locks EXCEPT ![p] = c]
        /\ messages' = messages /\ target' = target
    BY DEF LockProcess, Locked
  <2>2. process_locks \in [Procs -> Cores \cup {NoOne}]
    BY DEF IInv, TypeOK
  <2>3. \A q \in Procs : process_locks[q] \in Cores => process_locks'[q] = process_locks[q]
    BY <2>1, <2>2, Constants
  <2>4. \A d \in Cores : \A k \in 1 .. Len(messages[d]) : target[messages[d][k]] \in Procs
    <3>1. messages \in [Cores -> Seq(Ids)] /\ target \in Seq(Procs)
      BY DEF IInv, TypeOK
    <3> QED
      BY <3>1 DEF Ids
  <2> QED
    BY <2>1, <2>3, <2>4 DEF IInv, BatchLocked
<1> QED
  BY <1>1, <1>5, <1>6 DEF IInv

LEMMA AppendAt ==
  ASSUME NEW S, NEW s \in Seq(S), NEW m \in S, NEW k \in 1 .. Len(Append(s, m))
  PROVE  \/ k = Len(s) + 1 /\ Append(s, m)[k] = m
         \/ k \in 1 .. Len(s) /\ Append(s, m)[k] = s[k]
  OBVIOUS

(* A core adds to its batch a message of the process it has locked. *)
LEMMA PopStep ==
  ASSUME IInv, NEW c \in Cores, Pop(c)
  PROVE  IInv'
<1> DEFINE i == QueueOf(c)
           m == Head(queues[i])
<1>1. i \in Queues
  BY QueueTypes DEF IInv
<1>2. Head(queues[i]) \in Ids /\ Tail(queues[i]) \in Seq(Ids)
  BY <1>1, HeadTypes DEF Pop, MayPop, IInv, TypeOK
<1>3. queues' \in [Queues -> Seq(Ids)]
  BY <1>1, <1>2 DEF IInv, TypeOK, Pop
<1>4. messages \in [Cores -> Seq(Ids)] /\ future_messages \in [Cores -> Seq(Ids)]
  BY DEF IInv, TypeOK
<1>5. \/ messages' = messages
      \/ messages' = [messages EXCEPT ![c] = Append(@, m)]
  BY DEF Pop
<1>6. Append(messages[c], m) \in Seq(Ids) /\ Append(future_messages[c], m) \in Seq(Ids)
  BY <1>2, <1>4
<1>7. messages' \in [Cores -> Seq(Ids)] /\ future_messages' \in [Cores -> Seq(Ids)]
  BY <1>4, <1>6 DEF Pop
<1>8. TypeOK'
  BY <1>3, <1>7 DEF IInv, TypeOK, Pop, Ids
<1>9. PcShape' /\ IdleExact'
  BY DEF IInv, Pop, PcShape, IdleExact, Idle
<1>10. BatchShape'
  <2>1. Len(messages[c]) < BufferSize /\ pc[c] = "grab" /\ pc' = pc
    BY DEF Pop, MayPop
  <2>2. \A d \in Cores : d # c => messages'[d] = messages[d]
    BY <1>4, <1>5
  <2>3. Len(messages'[c]) <= BufferSize
    BY <1>2, <1>4, <1>5, <2>1, BoundAssumption
  <2> QED
    BY <2>1, <2>2, <2>3 DEF IInv, BatchShape, Running, SendPcs
<1>11. BatchLocked'
  <2>1. process_locks[target[m]] = c /\ process_locks' = process_locks /\ target' = target
    BY DEF Pop, MayPop
  <2>2. CASE messages' = messages
    BY <2>1, <2>2 DEF IInv, BatchLocked
  <2>3. CASE messages' = [messages EXCEPT ![c] = Append(@, m)]
    <3>1. ASSUME NEW d \in Cores, NEW k \in 1 .. Len(messages'[d])
          PROVE  process_locks[target[messages'[d][k]]] = d
      <4>1. CASE d # c
        BY <1>4, <2>3, <3>1, <4>1 DEF IInv, BatchLocked
      <4>2. CASE d = c
        <5>1. messages'[c] = Append(messages[c], m)
          BY <1>4, <2>3
        <5>2. \/ k = Len(messages[c]) + 1 /\ messages'[c][k] = m
              \/ k \in 1 .. Len(messages[c]) /\ messages'[c][k] = messages[c][k]
          <6>1. messages[c] \in Seq(Ids) /\ m \in Ids
            BY <1>2, <1>4
          <6>2. k \in 1 .. Len(Append(messages[c], m))
            BY <3>1, <4>2, <5>1
          <6> QED
            BY <6>1, <6>2, <5>1, AppendAt
        <5> QED
          BY <2>1, <4>2, <5>2 DEF IInv, BatchLocked
      <4> QED
        BY <4>1, <4>2
    <3> QED
      BY <2>1, <3>1 DEF BatchLocked
  <2> QED
    BY <1>5, <2>2, <2>3
<1> QED
  BY <1>8, <1>9, <1>10, <1>11 DEF IInv

LEMMA TriesTypes ==
  ASSUME TypeOK, NEW c \in Cores
  PROVE  /\ \A n \in 0 .. MaxRetries + 1 :
              [tries EXCEPT ![c] = n] \in [Cores -> 0 .. MaxRetries + 1]
         /\ 0 \in 0 .. MaxRetries + 1 /\ 1 \in 0 .. MaxRetries + 1
<1>1. tries \in [Cores -> 0 .. MaxRetries + 1]
  BY DEF TypeOK
<1> QED
  BY <1>1, BoundAssumption

(* Unsigned arithmetic keeps the counter in its range. *)
LEMMA CounterTypes ==
  ASSUME TypeOK
  PROVE  /\ Plus(1) \in 0 .. Wrap - 1
         /\ \A n \in 0 .. BufferSize : Minus(n) \in 0 .. Wrap - 1
<1>1. message_count \in 0 .. Wrap - 1
  BY DEF TypeOK
<1> QED
  BY <1>1, BoundAssumption, CoreAssumption DEF Plus, Minus

LEMMA CommitStep ==
  ASSUME IInv, NEW c \in Cores, Commit(c)
  PROVE  IInv'
<1>1. QueueOf(c) \in Queues
  BY QueueTypes DEF IInv
<1>2. messages[c] \in Seq(Ids) /\ Len(messages[c]) <= BufferSize
  BY DEF IInv, TypeOK, BatchShape
<1>3. Settled(c) \in 0 .. BufferSize
  BY <1>2, BoundAssumption DEF Settled
<1>4. message_count' \in 0 .. Wrap - 1
  BY <1>3, CounterTypes DEF IInv, Commit
<1>5. queues' \in [Queues -> Seq(Ids)] /\ future_messages' \in [Cores -> Seq(Ids)]
  BY <1>1 DEF IInv, TypeOK, Commit, PushBack
<1>6. pc' \in [Threads -> AllPcs] /\ PcShape' /\ BatchShape' /\ IdleExact'
  <2>1. pc[c] = "grab" /\ messages' = messages /\ idle_count' = idle_count
    BY DEF Commit
  <2>2. CASE messages[c] = << >>
    <3>1. Go(c, "release")
      BY <2>2 DEF Commit
    <3> QED
      BY <2>1, <2>2, <3>1, Move, Constants DEF CorePcs, SendPcs, IdlePcs
  <2>3. CASE messages[c] # << >>
    <3>1. Go(c, "batch")
      BY <2>3 DEF Commit
    <3> QED
      BY <2>1, <3>1, Move, Constants DEF CorePcs, SendPcs, IdlePcs
  <2> QED
    BY <2>2, <2>3
<1>7. TypeOK'
  BY <1>1, <1>4, <1>5, <1>6 DEF IInv, TypeOK, Commit, AllPcs, Ids
<1> QED
  BY <1>6, <1>7, LocksKept DEF Commit, IInv

LEMMA BeginStep ==
  ASSUME IInv, NEW c \in Cores, Begin(c)
  PROVE  IInv'
<1>1. pc' \in [Threads -> AllPcs] /\ PcShape' /\ BatchShape' /\ IdleExact'
  BY Move, Constants DEF Begin, CorePcs, SendPcs, IdlePcs
<1>2. TypeOK'
  BY <1>1 DEF IInv, TypeOK, Begin, AllPcs, Ids
<1> QED
  BY <1>1, <1>2, LocksKept DEF Begin, IInv

(* The batch gets shorter from its head. *)
LEMMA FinishStep ==
  ASSUME IInv, NEW c \in Cores, Finish(c)
  PROVE  IInv'
<1>1. messages \in [Cores -> Seq(Ids)] /\ messages[c] # << >> /\ pc[c] = "run"
  BY DEF IInv, TypeOK, BatchShape, Running, Finish
<1>2. Head(messages[c]) \in Ids /\ Tail(messages[c]) \in Seq(Ids)
      /\ Len(messages[c]) \in Nat \ {0} /\ Len(Tail(messages[c])) = Len(messages[c]) - 1
  BY <1>1, HeadTypes
<1>3. messages' = [messages EXCEPT ![c] = Tail(@)] /\ messages'[c] = Tail(messages[c])
      /\ messages' \in [Cores -> Seq(Ids)]
  BY <1>1, <1>2 DEF Finish
<1>4. pc' = [pc EXCEPT ![c] = "batch"] /\ pc \in [Threads -> AllPcs] /\ c \in Threads
  BY Constants DEF Finish, Go, IInv, TypeOK, AllPcs
<1>5. pc' \in [Threads -> AllPcs]
  BY <1>4 DEF AllPcs, CorePcs
<1>6. TypeOK'
  BY <1>2, <1>3, <1>5 DEF IInv, TypeOK, Finish, AllPcs, Ids
<1>7. PcShape'
  BY <1>4, Constants DEF IInv, PcShape, CorePcs
<1>8. BatchShape'
  <2>1. \A d \in Cores : d # c => messages'[d] = messages[d] /\ pc'[d] = pc[d]
    BY <1>1, <1>3, <1>4, Constants
  <2>2. Len(messages'[c]) <= BufferSize /\ pc'[c] = "batch"
    BY <1>1, <1>2, <1>3, <1>4, BoundAssumption DEF IInv, BatchShape
  <2> QED
    BY <2>1, <2>2 DEF IInv, BatchShape, Running, SendPcs
<1>9. IdleExact'
  <2>1. Idle' = Idle
    BY <1>1, <1>4, Constants DEF Idle, IdlePcs
  <2> QED
    BY <2>1 DEF IInv, IdleExact, Finish
<1>10. BatchLocked'
  <2>1. \A k \in 1 .. Len(messages'[c]) :
          k + 1 \in 1 .. Len(messages[c]) /\ messages'[c][k] = messages[c][k + 1]
    BY <1>1, <1>2, <1>3
  <2>2. \A d \in Cores : d # c => messages'[d] = messages[d]
    BY <1>1, <1>3
  <2>3. process_locks' = process_locks /\ target' = target
    BY DEF Finish
  <2> QED
    BY <2>1, <2>2, <2>3 DEF IInv, BatchLocked
<1> QED
  BY <1>6, <1>7, <1>8, <1>9, <1>10 DEF IInv

(* A core that has no batch left gives up its own lock, and only that.     *)
LEMMA UnlockKeeps ==
  ASSUME IInv, NEW c \in Cores, messages[c] = << >>,
         process_locks' = Unlocked(c), messages' = messages, target' = target
  PROVE  BatchLocked' /\ process_locks' \in [Procs -> Cores \cup {NoOne}]
<1>1. process_locks \in [Procs -> Cores \cup {NoOne}] /\ messages \in [Cores -> Seq(Ids)]
      /\ target \in Seq(Procs)
  BY DEF IInv, TypeOK
<1>2. process_locks' \in [Procs -> Cores \cup {NoOne}]
  BY <1>1 DEF Unlocked
<1>3. \A p \in Procs : process_locks[p] # c => process_locks'[p] = process_locks[p]
  BY <1>1 DEF Unlocked
<1>4. \A d \in Cores : \A k \in 1 .. Len(messages[d]) :
        target[messages[d][k]] \in Procs /\ d # c
  BY <1>1 DEF Ids
<1> QED
  BY <1>2, <1>3, <1>4 DEF IInv, BatchLocked

LEMMA ReleaseStep ==
  ASSUME IInv, NEW c \in Cores, Release(c)
  PROVE  IInv'
<1>1. pc' \in [Threads -> AllPcs] /\ PcShape' /\ BatchShape' /\ IdleExact'
  BY Move, Constants DEF Release, CorePcs, SendPcs, IdlePcs
<1>2. BatchLocked' /\ process_locks' \in [Procs -> Cores \cup {NoOne}]
  BY UnlockKeeps DEF Release
<1>3. TypeOK'
  BY <1>1, <1>2 DEF IInv, TypeOK, Release, AllPcs, Ids
<1> QED
  BY <1>1, <1>2, <1>3 DEF IInv

LEMMA ReleaseEmptyStep ==
  ASSUME IInv, NEW c \in Cores, ReleaseEmpty(c)
  PROVE  IInv'
<1>1. /\ scan' \in [Cores -> Queues] /\ pc' \in [Threads -> AllPcs]
      /\ PcShape' /\ BatchShape' /\ IdleExact'
  BY NextQueueMove DEF ReleaseEmpty, IdlePcs
<1>2. messages[c] = << >>
  BY DEF ReleaseEmpty, IInv, BatchShape
<1>3. BatchLocked' /\ process_locks' \in [Procs -> Cores \cup {NoOne}]
  BY <1>2, UnlockKeeps DEF ReleaseEmpty
<1>4. TypeOK'
  BY <1>1, <1>3 DEF IInv, TypeOK, ReleaseEmpty, AllPcs, Ids
<1> QED
  BY <1>1, <1>3, <1>4 DEF IInv

LEMMA UncountStep ==
  ASSUME IInv, NEW c \in Cores, Uncount(c)
  PROVE  IInv'
<1>1. /\ scan' \in [Cores -> Queues] /\ pc' \in [Threads -> AllPcs]
      /\ PcShape' /\ BatchShape' /\ IdleExact'
  BY NextQueueMove DEF Uncount, IdlePcs
<1>2. message_count' \in 0 .. Wrap - 1
  BY CounterTypes, BoundAssumption DEF Uncount, IInv
<1>3. tries' \in [Cores -> 0 .. MaxRetries + 1]
  BY TriesTypes DEF Uncount, IInv
<1>4. TypeOK'
  BY <1>1, <1>2, <1>3 DEF IInv, TypeOK, Uncount, AllPcs, Ids
<1> QED
  BY <1>1, <1>4, LocksKept DEF Uncount, IInv

LEMMA EndScanStep ==
  ASSUME IInv, NEW c \in Cores, EndScan(c)
  PROVE  IInv'
<1>1. PICK l \in {"scan", "nap"} : Go(c, l)
  BY DEF EndScan
<1>2. pc' \in [Threads -> AllPcs] /\ PcShape' /\ BatchShape' /\ IdleExact'
  BY <1>1, Move, Constants DEF EndScan, CorePcs, SendPcs, IdlePcs
<1>3. tries' \in [Cores -> 0 .. MaxRetries + 1]
  <2>1. tries \in [Cores -> 0 .. MaxRetries + 1]
    BY DEF IInv, TypeOK
  <2> QED
    BY <2>1, BoundAssumption DEF EndScan
<1>4. TypeOK'
  BY <1>2, <1>3 DEF IInv, TypeOK, EndScan, AllPcs, Ids
<1> QED
  BY <1>2, <1>4, LocksKept DEF EndScan, IInv

LEMMA NapStep ==
  ASSUME IInv, NEW c \in Cores, Nap(c)
  PROVE  IInv'
<1>1. PICK l \in {"scan", "recheck"} : Go(c, l)
  BY DEF Nap, Again
<1>2. pc' \in [Threads -> AllPcs] /\ PcShape' /\ BatchShape' /\ IdleExact'
  BY <1>1, Move, Constants DEF Nap, CorePcs, SendPcs, IdlePcs
<1>3. tries' \in [Cores -> 0 .. MaxRetries + 1]
  BY TriesTypes DEF Nap, Again, IInv, TypeOK
<1>4. TypeOK'
  BY <1>2, <1>3 DEF IInv, TypeOK, Nap, AllPcs, Ids
<1> QED
  BY <1>2, <1>4, LocksKept DEF Nap, IInv

LEMMA ChangeMindStep ==
  ASSUME IInv, NEW c \in Cores, ChangeMind(c)
  PROVE  IInv'
<1>1. pc' \in [Threads -> AllPcs] /\ PcShape' /\ BatchShape' /\ IdleExact'
  BY Move, Constants DEF ChangeMind, Again, CorePcs, SendPcs, IdlePcs
<1>2. tries' \in [Cores -> 0 .. MaxRetries + 1]
  BY TriesTypes DEF ChangeMind, Again, IInv
<1>3. TypeOK'
  BY <1>1, <1>2 DEF IInv, TypeOK, ChangeMind, AllPcs, Ids
<1> QED
  BY <1>1, <1>3, LocksKept DEF ChangeMind, IInv

(* A core that becomes idle is counted, a core that wakes is not.          *)
LEMMA FallIdle ==
  ASSUME IInv, NEW c \in Cores, NEW l \in IdlePcs, Go(c, l), pc[c] = "recheck",
         MaySleep, idle_count' = idle_count + 1, messages' = messages
  PROVE  /\ pc' \in [Threads -> AllPcs] /\ idle_count' \in 0 .. CoreCount
         /\ PcShape' /\ BatchShape' /\ IdleExact'
<1>1. pc \in [Threads -> AllPcs] /\ c \in Threads
  BY Constants DEF IInv, TypeOK, AllPcs
<1>2. pc' = [pc EXCEPT ![c] = l] /\ l \in CorePcs
  BY DEF Go, IdlePcs, CorePcs
<1>3. idle_count' \in 0 .. CoreCount
  BY CoreAssumption, BoundAssumption DEF IInv, TypeOK, MaySleep, Awake
<1>4. Idle' = Idle \cup {c} /\ c \notin Idle
  BY <1>1, <1>2, Constants DEF Idle, IdlePcs
<1>5. IsFiniteSet(Idle)
  BY Constants, FS_Subset DEF Idle
<1>6. IdleExact'
  BY <1>4, <1>5, FS_AddElement DEF IInv, IdleExact
<1>7. pc' \in [Threads -> AllPcs] /\ PcShape' /\ BatchShape'
  BY <1>1, <1>2, Constants DEF IInv, PcShape, BatchShape, Running, AllPcs, SendPcs, IdlePcs
<1> QED
  BY <1>3, <1>6, <1>7

LEMMA GoHomeStep ==
  ASSUME IInv, NEW c \in Cores, GoHome(c)
  PROVE  IInv'
<1>1. /\ pc' \in [Threads -> AllPcs] /\ idle_count' \in 0 .. CoreCount
      /\ PcShape' /\ BatchShape' /\ IdleExact'
  BY FallIdle DEF GoHome, IdlePcs
<1>2. TypeOK'
  BY <1>1 DEF IInv, TypeOK, GoHome, WakeEveryone, AllPcs, Ids
<1> QED
  BY <1>1, <1>2, LocksKept DEF GoHome, IInv

LEMMA FallAsleepStep ==
  ASSUME IInv, NEW c \in Cores, FallAsleep(c)
  PROVE  IInv'
<1>1. /\ pc' \in [Threads -> AllPcs] /\ idle_count' \in 0 .. CoreCount
      /\ PcShape' /\ BatchShape' /\ IdleExact'
  BY FallIdle DEF FallAsleep, IdlePcs
<1>2. TypeOK'
  BY <1>1 DEF IInv, TypeOK, FallAsleep, AllPcs, Ids
<1> QED
  BY <1>1, <1>2, LocksKept DEF FallAsleep, IInv

LEMMA WaitStep ==
  ASSUME IInv, NEW c \in Cores, Wait(c)
  PROVE  IInv'
<1>1. pc' \in [Threads -> AllPcs] /\ PcShape' /\ BatchShape' /\ IdleExact'
  BY Move, Constants DEF Wait, CorePcs, SendPcs, IdlePcs
<1>2. TypeOK'
  BY <1>1 DEF IInv, TypeOK, Wait, AllPcs, Ids
<1> QED
  BY <1>1, <1>2, LocksKept DEF Wait, IInv

(* Since a waiting core is counted, idle_count does not go below zero; and *)
(* no core leaves through the condition after the wait.                    *)
LEMMA WakeStep ==
  ASSUME IInv, NEW c \in Cores, Wake(c)
  PROVE  IInv'
<1>1. pc \in [Threads -> AllPcs] /\ c \in Threads
  BY Constants DEF IInv, TypeOK, AllPcs
<1>2. ~(MaySleep /\ idle_count = CoreCount)
  BY CoreAssumption, BoundAssumption DEF IInv, TypeOK, MaySleep, Awake
<1>3. idle_count' = idle_count - 1 /\ Again(c)
  BY <1>2 DEF Wake
<1>4. pc' = [pc EXCEPT ![c] = "scan"] /\ pc[c] = "wait"
  BY <1>3 DEF Again, Go, Wake
<1>5. Idle' = Idle \ {c} /\ c \in Idle
  BY <1>1, <1>4, Constants DEF Idle, IdlePcs
<1>6. IsFiniteSet(Idle)
  BY Constants, FS_Subset DEF Idle
<1>7. IdleExact'
  BY <1>3, <1>5, <1>6, FS_RemoveElement DEF IInv, IdleExact
<1>8. Cardinality(Idle') \in Nat
  BY <1>5, <1>6, FS_RemoveElement, FS_CardinalityType
<1>9. idle_count' \in 0 .. CoreCount
  BY <1>3, <1>7, <1>8, CoreAssumption DEF IdleExact, IInv, TypeOK
<1>10. pc' \in [Threads -> AllPcs] /\ PcShape' /\ BatchShape'
  BY <1>1, <1>4, Constants
     DEF IInv, PcShape, BatchShape, Running, AllPcs, SendPcs, CorePcs, Wake
<1>11. tries' \in [Cores -> 0 .. MaxRetries + 1]
  BY <1>3, TriesTypes DEF Again, IInv
<1>12. TypeOK'
  BY <1>9, <1>10, <1>11 DEF IInv, TypeOK, Wake, AllPcs, Ids
<1> QED
  BY <1>7, <1>10, <1>12, LocksKept DEF Wake, IInv

-----------------------------------------------------------------------------
(* Sending. *)

LEMMA StartSendStep ==
  ASSUME IInv, NEW t \in Threads, NEW p \in Procs, NEW b \in BOOLEAN, StartSend(t, p, b)
  PROVE  IInv'
<1>1. t \in Cores => pc[t] = "run"
  BY DEF StartSend, IInv, PcShape, CorePcs, SendPcs
<1>2. t \in Cores => messages[t] # << >>
  BY <1>1 DEF IInv, BatchShape, Running
<1>3. Go(t, "push") /\ messages' = messages /\ idle_count' = idle_count
  BY DEF StartSend
<1>4. pc' \in [Threads -> AllPcs] /\ PcShape' /\ BatchShape' /\ IdleExact'
  BY <1>1, <1>2, <1>3, Move, Constants DEF CorePcs, SendPcs, IdlePcs
<1>5. sending' \in [Threads -> [process : Procs, timer : BOOLEAN]]
  BY DEF StartSend, IInv, TypeOK
<1>6. TypeOK'
  BY <1>4, <1>5 DEF IInv, TypeOK, StartSend, AllPcs, Ids
<1> QED
  BY <1>4, <1>6, LocksKept DEF StartSend, IInv

(* A sender that is a core has a batch. *)
LEMMA SenderHasBatch ==
  ASSUME IInv, NEW t \in Cores, pc[t] \in SendPcs
  PROVE  messages[t] # << >>
  BY DEF IInv, BatchShape, Running

LEMMA PushStep ==
  ASSUME IInv, NEW t \in Threads, Push(t)
  PROVE  IInv'
<1> DEFINE p == sending[t].process
<1>1. p \in Procs /\ Home(p) \in Queues
  BY QueueTypes DEF IInv, TypeOK
<1>2. Len(target') = Len(target) + 1 /\ target' \in Seq(Procs)
      /\ \A k \in Ids : target'[k] = target[k]
  BY <1>1 DEF IInv, TypeOK, Push, Ids
<1>3. Ids \subseteq Ids' /\ Len(target) + 1 \in Ids'
  BY <1>2 DEF IInv, TypeOK, Ids
<1>4. Seq(Ids) \subseteq Seq(Ids')
  BY <1>3, SeqMonotonic
<1>5. queues' \in [Queues -> Seq(Ids')]
  BY <1>1, <1>3, <1>4 DEF IInv, TypeOK, Push
<1>6. messages' \in [Cores -> Seq(Ids')] /\ future_messages' \in [Cores -> Seq(Ids')]
  BY <1>4 DEF IInv, TypeOK, Push
<1>7. timers' \subseteq Ids' /\ later' \subseteq timers' /\ executed' \subseteq Ids'
      /\ current_time' \in [Cores -> SUBSET Ids']
  BY <1>3 DEF IInv, TypeOK, Push
<1>8. pc' \in [Threads -> AllPcs] /\ PcShape' /\ BatchShape' /\ IdleExact'
  <2>1. Go(t, "count") /\ pc[t] = "push" /\ messages' = messages /\ idle_count' = idle_count
    BY DEF Push
  <2> QED
    BY <2>1, Move, SenderHasBatch, Constants DEF CorePcs, SendPcs, IdlePcs
<1>9. TypeOK'
  BY <1>2, <1>5, <1>6, <1>7, <1>8 DEF IInv, TypeOK, Push, AllPcs
<1>10. BatchLocked'
  <2>1. messages \in [Cores -> Seq(Ids)] /\ messages' = messages
        /\ process_locks' = process_locks
    BY DEF IInv, TypeOK, Push
  <2> QED
    BY <1>2, <2>1 DEF IInv, BatchLocked
<1> QED
  BY <1>8, <1>9, <1>10 DEF IInv

LEMMA CountStep ==
  ASSUME IInv, NEW t \in Threads, Count(t)
  PROVE  IInv'
<1>1. Go(t, "notify") /\ pc[t] = "count" /\ messages' = messages /\ idle_count' = idle_count
  BY DEF Count
<1>2. pc' \in [Threads -> AllPcs] /\ PcShape' /\ BatchShape' /\ IdleExact'
  BY <1>1, Move, SenderHasBatch, Constants DEF CorePcs, SendPcs, IdlePcs
<1>3. message_count' \in 0 .. Wrap - 1
  BY CounterTypes DEF Count, IInv
<1>4. TypeOK'
  BY <1>2, <1>3 DEF IInv, TypeOK, Count, AllPcs, Ids
<1> QED
  BY <1>2, <1>4, LocksKept DEF Count, IInv

LEMMA NotifyStep ==
  ASSUME IInv, NEW t \in Threads, Notify(t)
  PROVE  IInv'
<1>1. pc[t] = "notify" /\ messages' = messages /\ idle_count' = idle_count
      /\ Go(t, IF t = Main THEN "main" ELSE "run")
  BY DEF Notify
<1>2. pc' \in [Threads -> AllPcs] /\ PcShape' /\ BatchShape' /\ IdleExact'
  <2>1. CASE t = Main
    BY <1>1, <2>1, Move, Constants DEF MainPcs, SendPcs
  <2>2. CASE t # Main
    BY <1>1, <2>2, Move, SenderHasBatch, Constants DEF CorePcs, SendPcs, IdlePcs
  <2> QED
    BY <2>1, <2>2
<1>3. sending' \in [Threads -> [process : Procs, timer : BOOLEAN]]
  <2>1. Nothing \in [process : Procs, timer : BOOLEAN]
    BY ProcAssumption DEF Nothing
  <2> QED
    BY <2>1 DEF Notify, IInv, TypeOK
<1>4. waiters' \subseteq Cores
  BY DEF Notify, IInv, TypeOK
<1>5. TypeOK'
  BY <1>2, <1>3, <1>4 DEF IInv, TypeOK, Notify, AllPcs, Ids
<1> QED
  BY <1>2, <1>5, LocksKept DEF Notify, IInv

-----------------------------------------------------------------------------
(* Shutdown. *)

LEMMA ShutdownStep ==
  ASSUME IInv, Shutdown
  PROVE  IInv'
<1>1. /\ messages' = messages /\ idle_count' = idle_count /\ process_locks' = process_locks
      /\ target' = target
  BY DEF Shutdown, StoreReady, NotifyAll, Join
<1>2. PICK l \in {"stored", "join", "done"} : Go(Main, l)
  BY DEF Shutdown, StoreReady, NotifyAll, Join
<1>3. pc' \in [Threads -> AllPcs] /\ PcShape' /\ BatchShape' /\ IdleExact'
  BY <1>1, <1>2, Move, Constants DEF MainPcs
<1>4. ready_to_exit' \in {0, 1} /\ waiters' \subseteq Cores
  BY DEF IInv, TypeOK, Shutdown, StoreReady, NotifyAll, WakeEveryone, Join
<1>5. TypeOK'
  BY <1>1, <1>3, <1>4 DEF IInv, TypeOK, Shutdown, StoreReady, NotifyAll, Join, AllPcs, Ids
<1> QED
  BY <1>1, <1>3, <1>5, LocksKept DEF IInv

(* The steps that move no thread. *)
LEMMA StillStep ==
  ASSUME IInv,
         \/ \E c \in Cores : SpuriousWakeup(c)
         \/ \E m \in later : Expire(m)
         \/ UNCHANGED vars
  PROVE  IInv'
<1>1. TypeOK'
  BY DEF IInv, TypeOK, SpuriousWakeup, Expire, vars, Ids
<1>2. /\ pc' = pc /\ messages' = messages /\ idle_count' = idle_count
      /\ process_locks' = process_locks /\ target' = target
  BY DEF SpuriousWakeup, Expire, vars
<1>3. PcShape' /\ BatchShape' /\ IdleExact' /\ BatchLocked'
  BY <1>2 DEF IInv, PcShape, BatchShape, Running, IdleExact, Idle, BatchLocked
<1> QED
  BY <1>1, <1>3 DEF IInv

-----------------------------------------------------------------------------
LEMMA InitInv == Init => IInv
<1> SUFFICES ASSUME Init PROVE IInv
  OBVIOUS
<1>1. Ids = {} /\ Idle = {}
  BY Constants DEF Init, Ids, Idle, IdlePcs
<1>2. TypeOK
  <2>1. pc \in [Threads -> CorePcs \cup SendPcs \cup MainPcs]
    BY DEF Init, CorePcs, MainPcs
  <2>2. scan \in [Cores -> Queues] /\ tries \in [Cores -> 0 .. MaxRetries + 1]
    BY CoreAssumption, BoundAssumption DEF Init, Queues
  <2>3. /\ queues \in [Queues -> Seq(Ids)] /\ messages \in [Cores -> Seq(Ids)]
        /\ future_messages \in [Cores -> Seq(Ids)] /\ target \in Seq(Procs)
    BY DEF Init
  <2>4. message_count \in 0 .. Wrap - 1 /\ idle_count \in 0 .. CoreCount
    BY CoreAssumption, BoundAssumption DEF Init
  <2>5. sending \in [Threads -> [process : Procs, timer : BOOLEAN]]
    BY ProcAssumption DEF Init, Nothing
  <2> QED
    BY <2>1, <2>2, <2>3, <2>4, <2>5 DEF Init, TypeOK
<1>3. PcShape
  BY Constants DEF Init, PcShape, CorePcs, MainPcs
<1>4. BatchShape /\ BatchLocked
  BY Constants, BoundAssumption DEF Init, BatchShape, BatchLocked, Running, SendPcs
<1>5. IdleExact
  BY <1>1, FS_EmptySet DEF Init, IdleExact
<1> QED
  BY <1>2, <1>3, <1>4, <1>5 DEF IInv

LEMMA NextInv == IInv /\ [Next]_vars => IInv'
<1> SUFFICES ASSUME IInv, [Next]_vars PROVE IInv'
  OBVIOUS
<1>1. ASSUME NEW c \in Cores, CoreStep(c) PROVE IInv'
  BY <1>1, TryQueueHitStep, TryQueueMissStep, LeaveQueueStep, LockProcessStep, PopStep,
     CommitStep, BeginStep, FinishStep, ReleaseStep, ReleaseEmptyStep, UncountStep,
     EndScanStep, NapStep, ChangeMindStep, GoHomeStep, FallAsleepStep, WaitStep, WakeStep
     DEF CoreStep
<1>2. ASSUME NEW t \in Threads, SendMessage(t) PROVE IInv'
  BY <1>2, PushStep, CountStep, NotifyStep DEF SendMessage
<1>3. ASSUME NEW t \in Threads, NEW p \in Procs, NEW b \in BOOLEAN, StartSend(t, p, b)
      PROVE  IInv'
  BY <1>3, StartSendStep
<1>4. CASE Shutdown
  BY <1>4, ShutdownStep
<1> QED
  BY <1>1, <1>2, <1>3, <1>4, StillStep DEF Next

LEMMA Invariance == Spec => []IInv
<1> QED
  BY InitInv, NextInv, PTL DEF Spec

(* The counters stay in their ranges: idle_count does not leave            *)
(* 0..core_count, and no batch is longer than the messages array.          *)
THEOREM TypeCorrect == Spec => []TypeOK
<1>1. IInv => TypeOK
  BY DEF IInv
<1> QED
  BY Invariance, <1>1, PTL

(* However many cores and queues there are, a handler runs only under the  *)
(* lock of its process, and no two cores run one process at a time.        *)
THEOREM Exclusion == Spec => []Exclusive
<1>1. IInv => Exclusive
  <2> SUFFICES ASSUME IInv PROVE Exclusive
    OBVIOUS
  <2>1. ASSUME NEW c \in Cores, Running(c)
        PROVE  process_locks[target[Head(messages[c])]] = c
    <3>1. messages[c] # << >> /\ messages[c] \in Seq(Ids)
      BY <2>1 DEF IInv, BatchShape, TypeOK
    <3>2. 1 \in 1 .. Len(messages[c]) /\ Head(messages[c]) = messages[c][1]
      BY <3>1
    <3> QED
      BY <3>2 DEF IInv, BatchLocked
  <2> QED
    BY <2>1 DEF Exclusive
<1> QED
  BY Invariance, <1>1, PTL
=============================================================================
