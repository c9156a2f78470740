--------------------------- MODULE CountingProofs ---------------------------
(***************************************************************************)
(* Proofs about the scheduler: message_count counts the messages exactly,  *)
(* enough cores are awake for them, and a core goes home only when none is *)
(* left.                                                                   *)
(***************************************************************************)
EXTENDS QueueProofs

(* A core has a batch only while it fills it or works on it. *)
EmptyElsewhere ==
  \A c \in Cores : pc[c] \notin {"grab", "batch", "run"} \cup SendPcs => messages[c] = << >>

SendBound == Len(target) + Cardinality(Sending) <= MaxMessages

(* Shutdown has set ready_to_exit. *)
ReadyShape == ready_to_exit = 1 <=> pc[Main] \in {"stored", "join", "done"}

(* A core that waits has been in the critical section before. *)
SleepShape ==
  /\ \A c \in waiters : pc[c] = "wait"
  /\ \A c \in Cores : pc[c] = "sleep" <=> idle_lock = c

Shape == EmptyElsewhere /\ SendBound /\ ReadyShape /\ SleepShape

-----------------------------------------------------------------------------
USE DEF queueVars, idleVars, batchVars, historyVars

LEMMA PcTypes ==
  ASSUME TypeOK
  PROVE  pc \in [Threads -> AllPcs] /\ Cores \subseteq Threads /\ Main \in Threads /\ Main \notin Cores
  BY Constants DEF TypeOK, AllPcs

(* The places between which a core goes. *)
LEMMA CorePlaces ==
  ASSUME IInv, NEW c \in Cores, CoreStep(c)
  PROVE  /\ pc[c] \in CorePcs /\ target' = target /\ ready_to_exit' = ready_to_exit
         /\ \E l \in CorePcs : pc' = [pc EXCEPT ![c] = l]
<1>1. pc \in [Threads -> AllPcs] /\ c \in Threads
  BY PcTypes DEF IInv
<1>2. CASE Pop(c)
  <2>1. pc' = [pc EXCEPT ![c] = "grab"] /\ pc[c] = "grab" /\ target' = target
        /\ ready_to_exit' = ready_to_exit
    BY <1>1, <1>2 DEF Pop
  <2> QED
    BY <2>1 DEF CorePcs
<1>3. CASE TryQueueMiss(c) \/ LeaveQueue(c) \/ ReleaseEmpty(c) \/ Uncount(c)
  BY <1>3 DEF TryQueueMiss, LeaveQueue, ReleaseEmpty, Uncount, NextQueue, Go, CorePcs
<1>4. CASE (\E i \in Queues : TryQueueHit(c, i)) \/ LockProcess(c) \/ Commit(c) \/ Begin(c)
  BY <1>4 DEF TryQueueHit, LockProcess, Commit, Begin, Go, CorePcs
<1>5. CASE Finish(c) \/ Release(c) \/ EndScan(c) \/ Nap(c) \/ ChangeMind(c)
  BY <1>5 DEF Finish, Release, EndScan, Nap, ChangeMind, Again, Go, CorePcs
<1>6. CASE GoHome(c) \/ FallAsleep(c) \/ Wait(c) \/ Wake(c)
  BY <1>6 DEF GoHome, FallAsleep, Wait, Wake, Again, Go, CorePcs
<1> QED
  BY <1>2, <1>3, <1>4, <1>5, <1>6 DEF CoreStep

LEMMA SendingKept ==
  ASSUME TypeOK, NEW t \in Threads, pc[t] # "push", NEW l, l # "push", pc' = [pc EXCEPT ![t] = l]
  PROVE  Sending' = Sending
  BY PcTypes DEF Sending

LEMMA SendingFinite ==
  IsFiniteSet(Threads) /\ IsFiniteSet(Sending) /\ Cardinality(Sending) \in Nat
<1>1. IsFiniteSet(Threads)
  BY Constants, FS_AddElement
<1>2. IsFiniteSet(Sending)
  BY <1>1, FS_Subset DEF Sending
<1> QED
  BY <1>1, <1>2, FS_CardinalityType

LEMMA SendBoundNext == IInv /\ SendBound /\ [Next]_vars => SendBound'
<1> SUFFICES ASSUME IInv, SendBound, [Next]_vars PROVE SendBound'
  OBVIOUS
<1>1. TypeOK /\ Len(target) \in Nat /\ MaxMessages \in Nat
  BY BoundAssumption, LenProperties DEF IInv, TypeOK
<1>2. ASSUME Sending' = Sending, target' = target PROVE SendBound'
  BY <1>2 DEF SendBound
<1>3. ASSUME NEW c \in Cores, CoreStep(c) PROVE SendBound'
  <2>1. PICK l \in CorePcs : pc' = [pc EXCEPT ![c] = l]
    BY <1>3, CorePlaces
  <2>2. pc[c] # "push" /\ l # "push" /\ target' = target
    BY <1>3, CorePlaces DEF CorePcs
  <2> QED
    BY <1>1, <1>2, <2>1, <2>2, SendingKept, PcTypes
<1>4. ASSUME NEW t \in Threads, Push(t) PROVE SendBound'
  <2>1. Sending' = Sending \ {t} /\ t \in Sending
    BY <1>1, <1>4, PcTypes DEF Push, Sending, Go
  <2>2. Cardinality(Sending') = Cardinality(Sending) - 1
    BY <2>1, SendingFinite, FS_RemoveElement
  <2>3. Len(target') = Len(target) + 1
    BY <1>1, <1>4 DEF Push, TypeOK
  <2> QED
    BY <1>1, <2>2, <2>3, SendingFinite DEF SendBound
<1>5. ASSUME NEW t \in Threads, Count(t) \/ Notify(t) PROVE SendBound'
  <2>1. /\ pc[t] # "push" /\ target' = target
        /\ \E l : l # "push" /\ pc' = [pc EXCEPT ![t] = l]
    BY <1>5 DEF Count, Notify, Go
  <2> QED
    BY <1>1, <1>2, <2>1, SendingKept
<1>6. ASSUME NEW t \in Threads, NEW p \in Procs, NEW b \in BOOLEAN, StartSend(t, p, b)
      PROVE  SendBound'
  <2>1. Sending' = Sending \cup {t} /\ t \notin Sending
    BY <1>1, <1>6, PcTypes DEF StartSend, Sending, Go
  <2>2. Cardinality(Sending') = Cardinality(Sending) + 1
    BY <2>1, SendingFinite, FS_AddElement
  <2>3. Len(target) + Cardinality(Sending) < MaxMessages /\ target' = target
    BY <1>6 DEF StartSend
  <2> QED
    BY <1>1, <2>2, <2>3, SendingFinite DEF SendBound
<1>7. CASE Shutdown
  <2>1. /\ pc[Main] # "push" /\ target' = target
        /\ \E l : l # "push" /\ pc' = [pc EXCEPT ![Main] = l]
    BY <1>7 DEF Shutdown, StoreReady, NotifyAll, Join, Go
  <2> QED
    BY <1>1, <1>2, <2>1, SendingKept, PcTypes
<1>8. CASE (\E c \in Cores : SpuriousWakeup(c)) \/ (\E m \in later : Expire(m)) \/ UNCHANGED vars
  <2>1. Sending' = Sending /\ target' = target
    BY <1>8 DEF SpuriousWakeup, Expire, vars, Sending
  <2> QED
    BY <1>2, <2>1
<1> QED
  BY <1>3, <1>4, <1>5, <1>6, <1>7, <1>8 DEF Next, SendMessage

LEMMA ReadyNext == IInv /\ ReadyShape /\ [Next]_vars => ReadyShape'
<1> SUFFICES ASSUME IInv, ReadyShape, [Next]_vars PROVE ReadyShape'
  OBVIOUS
<1>1. TypeOK
  BY DEF IInv
<1>2. ASSUME NEW c \in Cores, CoreStep(c) PROVE ReadyShape'
  <2>1. pc'[Main] = pc[Main] /\ ready_to_exit' = ready_to_exit
    BY <1>1, <1>2, CorePlaces, PcTypes
  <2> QED
    BY <2>1 DEF ReadyShape
<1>3. ASSUME NEW t \in Threads, SendMessage(t) PROVE ReadyShape'
  BY <1>1, <1>3, PcTypes DEF SendMessage, Push, Count, Notify, Go, ReadyShape
<1>4. ASSUME NEW t \in Threads, NEW p \in Procs, NEW b \in BOOLEAN, StartSend(t, p, b)
      PROVE  ReadyShape'
  BY <1>1, <1>4, PcTypes DEF StartSend, Go, ReadyShape
<1>5. CASE Shutdown
  BY <1>1, <1>5, PcTypes DEF Shutdown, StoreReady, NotifyAll, Join, Go, ReadyShape
<1>6. CASE (\E c \in Cores : SpuriousWakeup(c)) \/ (\E m \in later : Expire(m)) \/ UNCHANGED vars
  BY <1>6 DEF SpuriousWakeup, Expire, vars, ReadyShape
<1> QED
  BY <1>2, <1>3, <1>4, <1>5, <1>6 DEF Next

(* A thread goes elsewhere, and no batch changes. *)
LEMMA EmptyKept ==
  ASSUME TypeOK, EmptyElsewhere, NEW t \in Threads, NEW l, pc' = [pc EXCEPT ![t] = l],
         messages' = messages,
         t \in Cores /\ l \notin {"grab", "batch", "run"} \cup SendPcs => messages[t] = << >>
  PROVE  EmptyElsewhere'
  BY PcTypes DEF EmptyElsewhere

LEMMA EmptyNext == IInv /\ EmptyElsewhere /\ [Next]_vars => EmptyElsewhere'
<1> SUFFICES ASSUME IInv, EmptyElsewhere, [Next]_vars PROVE EmptyElsewhere'
  OBVIOUS
<1>1. TypeOK
  BY DEF IInv
<1>2. ASSUME NEW c \in Cores, CoreStep(c) PROVE EmptyElsewhere'
  <2>1. PICK l : pc' = [pc EXCEPT ![c] = l]
    BY <1>2, CorePlaces
  <2>2. c \in Threads
    BY <1>1, PcTypes
  <2>3. CASE Pop(c)
    <3>1. pc' = pc /\ pc[c] = "grab" /\ \A d \in Cores : d # c => messages'[d] = messages[d]
      BY <1>1, <2>3 DEF Pop, TypeOK
    <3> QED
      BY <3>1 DEF EmptyElsewhere
  <2>4. CASE Finish(c)
    <3>1. /\ pc' = [pc EXCEPT ![c] = "batch"]
          /\ \A d \in Cores : d # c => messages'[d] = messages[d]
      BY <1>1, <2>4 DEF Finish, TypeOK, Go
    <3> QED
      BY <1>1, <3>1, PcTypes DEF EmptyElsewhere
  <2>5. CASE TryQueueMiss(c) \/ LeaveQueue(c) \/ Uncount(c) \/ EndScan(c) \/ Nap(c)
    <3>1. messages' = messages /\ messages[c] = << >>
      BY <2>5 DEF TryQueueMiss, LeaveQueue, Uncount, EndScan, Nap, EmptyElsewhere, SendPcs
    <3> QED
      BY <1>1, <2>1, <2>2, <3>1, EmptyKept
  <2>6. CASE (\E i \in Queues : TryQueueHit(c, i)) \/ LockProcess(c) \/ ChangeMind(c) \/ GoHome(c)
    <3>1. messages' = messages /\ messages[c] = << >>
      BY <2>6 DEF TryQueueHit, LockProcess, ChangeMind, GoHome, EmptyElsewhere, SendPcs
    <3> QED
      BY <1>1, <2>1, <2>2, <3>1, EmptyKept
  <2>7. CASE FallAsleep(c) \/ Wait(c) \/ Wake(c) \/ Release(c) \/ ReleaseEmpty(c)
    <3>1. messages' = messages /\ messages[c] = << >>
      BY <2>7 DEF FallAsleep, Wait, Wake, Release, ReleaseEmpty, EmptyElsewhere, SendPcs
    <3> QED
      BY <1>1, <2>1, <2>2, <3>1, EmptyKept
  <2>8. CASE Commit(c) \/ Begin(c)
    <3>1. messages' = messages
      BY <2>8 DEF Commit, Begin
    <3>2. \/ messages[c] = << >>
          \/ pc' = [pc EXCEPT ![c] = "batch"]
          \/ pc' = [pc EXCEPT ![c] = "run"]
      BY <2>8 DEF Commit, Begin, Go
    <3> QED
      BY <1>1, <2>1, <2>2, <3>1, <3>2, EmptyKept
  <2> QED
    BY <1>2, <2>3, <2>4, <2>5, <2>6, <2>7, <2>8 DEF CoreStep
<1>3. ASSUME NEW t \in Threads, SendMessage(t) PROVE EmptyElsewhere'
  <2>1. /\ messages' = messages
        /\ \E l : pc' = [pc EXCEPT ![t] = l] /\ (t \in Cores => l \in {"run"} \cup SendPcs)
    BY <1>3, PcTypes, <1>1 DEF SendMessage, Push, Count, Notify, Go, SendPcs
  <2> QED
    BY <1>1, <2>1, EmptyKept
<1>4. ASSUME NEW t \in Threads, NEW p \in Procs, NEW b \in BOOLEAN, StartSend(t, p, b)
      PROVE  EmptyElsewhere'
  <2>1. messages' = messages /\ pc' = [pc EXCEPT ![t] = "push"]
    BY <1>4 DEF StartSend, Go
  <2> QED
    BY <1>1, <2>1, EmptyKept DEF SendPcs
<1>5. CASE Shutdown
  <2>1. messages' = messages /\ \E l : pc' = [pc EXCEPT ![Main] = l]
    BY <1>5 DEF Shutdown, StoreReady, NotifyAll, Join, Go
  <2> QED
    BY <1>1, <2>1, EmptyKept, PcTypes
<1>6. CASE (\E c \in Cores : SpuriousWakeup(c)) \/ (\E m \in later : Expire(m)) \/ UNCHANGED vars
  BY <1>6 DEF SpuriousWakeup, Expire, vars, EmptyElsewhere
<1> QED
  BY <1>2, <1>3, <1>4, <1>5, <1>6 DEF Next

(* A thread goes from a place to another, neither of them in the wait. *)
LEMMA SleepKept ==
  ASSUME TypeOK, SleepShape, NEW t \in Threads, NEW l, pc' = [pc EXCEPT ![t] = l],
         pc[t] \notin {"sleep", "wait"}, l \notin {"sleep", "wait"},
         idle_lock' = idle_lock, waiters' \subseteq waiters
  PROVE  SleepShape'
<1>1. waiters \subseteq Cores
  BY DEF TypeOK
<1> QED
  BY <1>1, PcTypes DEF SleepShape

LEMMA SleepNext == IInv /\ SleepShape /\ [Next]_vars => SleepShape'
<1> SUFFICES ASSUME IInv, SleepShape, [Next]_vars PROVE SleepShape'
  OBVIOUS
<1>1. TypeOK
  BY DEF IInv
<1>2. waiters \subseteq Cores /\ NoOne \notin Cores
  BY <1>1, Constants DEF TypeOK
<1>3. ASSUME NEW c \in Cores, CoreStep(c) PROVE SleepShape'
  <2>1. PICK l : pc' = [pc EXCEPT ![c] = l]
    BY <1>3, CorePlaces
  <2>2. c \in Threads
    BY <1>1, PcTypes
  <2>3. CASE FallAsleep(c)
    <3>1. /\ pc[c] = "recheck" /\ pc' = [pc EXCEPT ![c] = "sleep"] /\ waiters' = waiters
          /\ idle_lock = NoOne /\ idle_lock' = c
      BY <2>3 DEF FallAsleep, Go
    <3> QED
      BY <1>1, <1>2, <3>1, PcTypes DEF SleepShape
  <2>4. CASE Wait(c)
    <3>1. /\ pc[c] = "sleep" /\ pc' = [pc EXCEPT ![c] = "wait"] /\ waiters' = waiters \cup {c}
          /\ idle_lock' = NoOne
      BY <2>4 DEF Wait, Go
    <3> QED
      BY <1>1, <1>2, <3>1, PcTypes DEF SleepShape
  <2>5. CASE Wake(c)
    <3>1. /\ pc[c] = "wait" /\ c \notin waiters /\ waiters' = waiters /\ idle_lock' = idle_lock
          /\ \/ pc' = [pc EXCEPT ![c] = "exited"]
             \/ pc' = [pc EXCEPT ![c] = "scan"]
      BY <2>5 DEF Wake, Again, Go
    <3> QED
      BY <1>1, <1>2, <3>1, PcTypes DEF SleepShape
  <2>6. CASE TryQueueMiss(c) \/ LeaveQueue(c) \/ Uncount(c) \/ EndScan(c) \/ Nap(c)
    <3>1. /\ idle_lock' = idle_lock /\ waiters' = waiters /\ pc[c] \notin {"sleep", "wait"}
          /\ \E k : k \notin {"sleep", "wait"} /\ pc' = [pc EXCEPT ![c] = k]
      BY <2>6 DEF TryQueueMiss, LeaveQueue, Uncount, EndScan, Nap, NextQueue, Again, Go
    <3> QED
      BY <1>1, <2>2, <3>1, SleepKept
  <2>7. CASE (\E i \in Queues : TryQueueHit(c, i)) \/ LockProcess(c) \/ ChangeMind(c) \/ GoHome(c)
    <3>1. /\ idle_lock' = idle_lock /\ waiters' \subseteq waiters /\ pc[c] \notin {"sleep", "wait"}
          /\ \E k : k \notin {"sleep", "wait"} /\ pc' = [pc EXCEPT ![c] = k]
      BY <2>7 DEF TryQueueHit, LockProcess, ChangeMind, GoHome, WakeEveryone, Again, Go
    <3> QED
      BY <1>1, <2>2, <3>1, SleepKept
  <2>8. CASE Commit(c) \/ Begin(c) \/ Finish(c) \/ Release(c) \/ ReleaseEmpty(c)
    <3>1. /\ idle_lock' = idle_lock /\ waiters' = waiters /\ pc[c] \notin {"sleep", "wait"}
          /\ \E k : k \notin {"sleep", "wait"} /\ pc' = [pc EXCEPT ![c] = k]
      BY <2>8 DEF Commit, Begin, Finish, Release, ReleaseEmpty, NextQueue, Go
    <3> QED
      BY <1>1, <2>2, <3>1, SleepKept
  <2>9. CASE Pop(c)
    BY <2>9 DEF Pop, SleepShape
  <2> QED
    BY <1>3, <2>3, <2>4, <2>5, <2>6, <2>7, <2>8, <2>9 DEF CoreStep
<1>4. ASSUME NEW t \in Threads, SendMessage(t) PROVE SleepShape'
  <2>1. /\ idle_lock' = idle_lock /\ waiters' \subseteq waiters /\ pc[t] \notin {"sleep", "wait"}
        /\ \E k : k \notin {"sleep", "wait"} /\ pc' = [pc EXCEPT ![t] = k]
    BY <1>4 DEF SendMessage, Push, Count, Notify, Go
  <2> QED
    BY <1>1, <2>1, SleepKept
<1>5. ASSUME NEW t \in Threads, NEW p \in Procs, NEW b \in BOOLEAN, StartSend(t, p, b)
      PROVE  SleepShape'
  <2>1. /\ idle_lock' = idle_lock /\ waiters' = waiters /\ pc[t] \notin {"sleep", "wait"}
        /\ pc' = [pc EXCEPT ![t] = "push"]
    BY <1>5 DEF StartSend, Go
  <2> QED
    BY <1>1, <2>1, SleepKept
<1>6. CASE Shutdown
  <2>1. /\ idle_lock' = idle_lock /\ waiters' \subseteq waiters /\ pc[Main] \notin {"sleep", "wait"}
        /\ \E k : k \notin {"sleep", "wait"} /\ pc' = [pc EXCEPT ![Main] = k]
    BY <1>6 DEF Shutdown, StoreReady, NotifyAll, Join, Go, WakeEveryone
  <2> QED
    BY <1>1, <2>1, SleepKept, PcTypes
<1>7. CASE (\E c \in Cores : SpuriousWakeup(c)) \/ (\E m \in later : Expire(m)) \/ UNCHANGED vars
  BY <1>7 DEF SpuriousWakeup, Expire, vars, SleepShape
<1> QED
  BY <1>3, <1>4, <1>5, <1>6, <1>7 DEF Next

LEMMA ShapeInit == Init => Shape
<1> SUFFICES ASSUME Init PROVE Shape
  OBVIOUS
<1>1. EmptyElsewhere /\ ReadyShape /\ SleepShape
  BY Constants DEF Init, EmptyElsewhere, ReadyShape, SleepShape
<1>2. Sending = {} /\ Len(target) = 0
  BY DEF Init, Sending
<1>3. Cardinality(Sending) = 0
  BY <1>2, FS_EmptySet
<1> QED
  BY <1>1, <1>2, <1>3, BoundAssumption DEF Shape, SendBound

LEMMA AlwaysShape == Spec => []Shape
<1> QED
  BY Invariance, ShapeInit, SendBoundNext, ReadyNext, EmptyNext, SleepNext, PTL DEF Spec, Shape

-----------------------------------------------------------------------------
(* The sets that message_count counts. *)
LEMMA PendingIs ==
  ASSUME TypeOK, NEW m
  PROVE  m \in Pending <=>
           \/ \E i \in Queues : m \in Elements(queues[i])
           \/ \E c \in Cores : /\ pc[c] = "grab"
                             /\ m \in Elements(messages[c]) \cup Elements(future_messages[c])
  BY Belong DEF Pending

LEMMA PendingIsNext ==
  ASSUME TypeOK', NEW m
  PROVE  m \in Pending' <=>
           \/ \E i \in Queues : m \in Elements(queues'[i])
           \/ \E c \in Cores : /\ pc'[c] = "grab"
                             /\ m \in Elements(messages'[c]) \cup Elements(future_messages'[c])
<1>1. /\ \A i \in Queues : queues'[i] \in Seq(Ids')
      /\ \A c \in Cores : messages'[c] \in Seq(Ids') /\ future_messages'[c] \in Seq(Ids')
  BY DEF TypeOK
<1>2. /\ \A i \in Queues : Elements(queues'[i]) \subseteq Ids'
      /\ \A c \in Cores : /\ Elements(messages'[c]) \subseteq Ids'
                          /\ Elements(future_messages'[c]) \subseteq Ids'
  BY <1>1, ElementsOf
<1>3. m \in Pending' <=>
        /\ m \in Ids'
        /\ \/ \E i \in Queues : m \in Elements(queues'[i])
           \/ \E c \in Cores : /\ pc'[c] = "grab"
                               /\ m \in Elements(messages'[c]) \cup Elements(future_messages'[c])
  BY DEF Pending, Elements
<1> QED
  BY <1>2, <1>3

(* Two boxes have nothing in common. *)
LEMMA Apart ==
  ASSUME TypeOK, Placed
  PROVE  /\ \A c \in Cores, i \in Queues : Elements(messages[c]) \cap Elements(queues[i]) = {}
         /\ \A c, d \in Cores : Elements(messages[c]) \cap Elements(future_messages[d]) = {}
         /\ \A c, d \in Cores : c # d => Elements(messages[c]) \cap Elements(messages[d]) = {}
<1>1. Distinct(boxes) /\ DOMAIN boxes = Boxes
  BY BoxesTyped DEF Placed
<1>2. ASSUME NEW b \in Boxes, NEW e \in Boxes, b # e, NEW m,
             m \in Elements(boxes[b]), m \in Elements(boxes[e])
      PROVE  FALSE
  BY <1>1, <1>2, InElements, DistinctAt
<1> QED
  BY <1>2, BoxesAre, BoxNumbers

LEMMA FirstNumbers ==
  ASSUME NEW n \in Nat
  PROVE  IsFiniteSet(1 .. n) /\ Cardinality(1 .. n) = n
<1>1. PICK v : v = Cardinality(1 .. n)
  OBVIOUS
<1>2. 1 \in Int /\ n \in Int
  OBVIOUS
<1>3. IsFiniteSet(1 .. n) /\ v = IF 1 > n THEN 0 ELSE n - 1 + 1
  BY <1>1, <1>2, FS_Interval, Zenon
<1> QED
  BY <1>1, <1>3

LEMMA ElementsCount ==
  ASSUME NEW S, NEW s \in Seq(S),
         \A k, l \in 1 .. Len(s) : s[k] = s[l] => k = l
  PROVE  Len(s) \in Nat /\ IsFiniteSet(Elements(s)) /\ Cardinality(Elements(s)) = Len(s)
<1>1. Len(s) \in Nat /\ IsFiniteSet(1 .. Len(s)) /\ Cardinality(1 .. Len(s)) = Len(s)
  <2>1. Len(s) \in Nat
    BY LenProperties
  <2> QED
    BY <2>1, FirstNumbers
<1>2. PICK f : f = [k \in 1 .. Len(s) |-> s[k]]
  OBVIOUS
<1>3. f \in [1 .. Len(s) -> Elements(s)]
  BY <1>2, InElements
<1>4. f \in Bijection(1 .. Len(s), Elements(s))
  <2>1. IsInjective(f)
    BY <1>2 DEF IsInjective
  <2>2. \A x \in Elements(s) : \E k \in 1 .. Len(s) : f[k] = x
    BY <1>2, InElements
  <2> QED
    BY <1>3, <2>1, <2>2 DEF Bijection, Injection, Surjection
<1>5. ExistsBijection(1 .. Len(s), Elements(s))
  BY <1>4 DEF ExistsBijection
<1> QED
  BY <1>1, <1>5, FS_Bijection

(* What message_count is, modulo its width. *)
Owed == Cardinality(Pending) + Cardinality(Busy) - Cardinality(Uncounted)

LEMMA Counted ==
  ASSUME TypeOK, SendBound
  PROVE  /\ IsFiniteSet(Pending) /\ Cardinality(Pending) \in 0 .. MaxMessages
         /\ IsFiniteSet(Busy) /\ Cardinality(Busy) \in 0 .. CoreCount
         /\ IsFiniteSet(Uncounted) /\ Cardinality(Uncounted) \in 0 .. CoreCount + 1
         /\ Pending \subseteq Ids
<1>1. Pending \subseteq Ids
  BY Belong, PendingIs
<1>2. /\ target \in Seq(Procs) /\ Len(target) \in Nat /\ Cardinality(Sending) \in Nat
      /\ MaxMessages \in Nat /\ CoreCount \in Nat /\ CoreCount >= 2
  BY SendingFinite, LenProperties, BoundAssumption, CoreAssumption DEF TypeOK
<1>3. IsFiniteSet(Ids) /\ Cardinality(Ids) = Len(target) /\ Len(target) <= MaxMessages
  BY <1>2, FirstNumbers DEF Ids, SendBound
<1>4. IsFiniteSet(Pending) /\ Cardinality(Pending) \in 0 .. MaxMessages
  <2>1. IsFiniteSet(Pending) /\ Cardinality(Pending) <= Len(target)
    BY <1>1, <1>3, FS_Subset
  <2>2. Cardinality(Pending) \in Nat
    BY <2>1, FS_CardinalityType
  <2> QED
    BY <1>2, <1>3, <2>1, <2>2
<1>5. IsFiniteSet(Cores) /\ Cardinality(Cores) = CoreCount
  BY <1>2, FirstNumbers DEF Cores
<1>6. IsFiniteSet(Busy) /\ Cardinality(Busy) \in 0 .. CoreCount
  <2>1. IsFiniteSet(Busy) /\ Cardinality(Busy) <= CoreCount
    BY <1>5, FS_Subset DEF Busy
  <2>2. Cardinality(Busy) \in Nat
    BY <2>1, FS_CardinalityType
  <2> QED
    BY <1>2, <2>1, <2>2
<1>7. IsFiniteSet(Threads) /\ Cardinality(Threads) = CoreCount + 1
  BY <1>5, Constants, FS_AddElement
<1>8. IsFiniteSet(Uncounted) /\ Cardinality(Uncounted) \in 0 .. CoreCount + 1
  <2>1. IsFiniteSet(Uncounted) /\ Cardinality(Uncounted) <= CoreCount + 1
    BY <1>7, FS_Subset DEF Uncounted
  <2>2. Cardinality(Uncounted) \in Nat
    BY <2>1, FS_CardinalityType
  <2> QED
    BY <1>2, <2>1, <2>2
<1> QED
  BY <1>1, <1>4, <1>6, <1>8

Bounded ==
  /\ Owed \in Int /\ Owed < Wrap /\ 0 <= Owed + Wrap /\ CoreCount < Owed + Wrap
  /\ message_count \in 0 .. Wrap - 1

LEMMA OwedRange ==
  ASSUME NEW n \in Nat, NEW k \in Nat, NEW w \in Nat, NEW m \in Nat \ {0}, k >= 2, w > n + m + 2 * k,
         NEW p \in 0 .. n, NEW b \in 0 .. k, NEW u \in 0 .. k + 1
  PROVE  /\ p + b - u \in Int /\ p + b - u < w
         /\ 0 <= p + b - u + w /\ k < p + b - u + w
  OBVIOUS

LEMMA OwedBounds == TypeOK /\ SendBound => Bounded
<1> SUFFICES ASSUME TypeOK, SendBound PROVE Bounded
  OBVIOUS
<1>1. /\ MaxMessages \in Nat /\ CoreCount \in Nat /\ CoreCount >= 2 /\ BufferSize \in Nat \ {0}
      /\ Wrap \in Nat /\ Wrap > MaxMessages + BufferSize + 2 * CoreCount
  BY BoundAssumption, CoreAssumption
<1>2. PICK p, b, u : p = Cardinality(Pending) /\ b = Cardinality(Busy) /\ u = Cardinality(Uncounted)
  OBVIOUS
<1>3. p \in 0 .. MaxMessages /\ b \in 0 .. CoreCount /\ u \in 0 .. CoreCount + 1
  BY <1>2, Counted
<1>4. PICK o : o = p + b - u
  OBVIOUS
<1>5. o \in Int /\ o < Wrap /\ 0 <= o + Wrap /\ CoreCount < o + Wrap
  BY <1>1, <1>3, <1>4, OwedRange
<1>6. Owed = o
  BY <1>2, <1>4 DEF Owed
<1> QED
  BY <1>5, <1>6 DEF TypeOK, Bounded

(* message_count follows what is owed. *)
LEMMA Settle ==
  ASSUME NEW n \in Int, NEW n1 \in Int, NEW k \in Nat, NEW v \in Nat, NEW w \in Nat,
         n1 = n - k, 0 <= n1 + w, v = IF n < 0 THEN n + w ELSE n
  PROVE  (IF v >= k THEN v - k ELSE v - k + w) = IF n1 < 0 THEN n1 + w ELSE n1
  OBVIOUS

LEMMA Settle1 ==
  ASSUME NEW n \in Int, NEW n1 \in Int, NEW v \in Nat, NEW w \in Nat,
         n1 = n + 1, n1 < w, v = IF n < 0 THEN n + w ELSE n
  PROVE  (IF v + 1 < w THEN v + 1 ELSE v + 1 - w) = IF n1 < 0 THEN n1 + w ELSE n1
  OBVIOUS

LEMMA OwedNext ==
  ASSUME TypeOK, SendBound, TypeOK', SendBound', CountExact
  PROVE  /\ Owed' = Owed /\ message_count' = message_count => CountExact'
         /\ \A k \in Nat : Owed' = Owed - k /\ message_count' = Minus(k) => CountExact'
         /\ Owed' = Owed + 1 /\ message_count' = Plus(1) => CountExact'
<1>1. /\ Owed \in Int /\ Owed' \in Int /\ Owed' < Wrap /\ 0 <= Owed' + Wrap /\ Wrap \in Nat
      /\ message_count \in Nat
  <2>1. Bounded /\ Wrap \in Nat
    BY OwedBounds, BoundAssumption
  <2>2. Bounded'
    BY OwedBounds, PTL
  <2>3. Owed \in Int /\ message_count \in Nat
    BY <2>1 DEF Bounded
  <2>4. Owed' \in Int /\ Owed' < Wrap /\ 0 <= Owed' + Wrap
    BY <2>2 DEF Bounded
  <2> QED
    BY <2>1, <2>3, <2>4
<1>2. message_count = IF Owed < 0 THEN Owed + Wrap ELSE Owed
  BY DEF CountExact, Owed
<1>3. CountExact' <=> message_count' = IF Owed' < 0 THEN Owed' + Wrap ELSE Owed'
  BY DEF CountExact, Owed
<1>4. ASSUME NEW k \in Nat, Owed' = Owed - k, message_count' = Minus(k) PROVE CountExact'
  BY <1>1, <1>2, <1>3, <1>4, Settle DEF Minus
<1>5. ASSUME Owed' = Owed + 1, message_count' = Plus(1) PROVE CountExact'
  BY <1>1, <1>2, <1>3, <1>5, Settle1 DEF Plus
<1> QED
  BY <1>2, <1>3, <1>4, <1>5

-----------------------------------------------------------------------------
(* The steps that change what is owed, and all the others.                 *)
Unmoved ==
  /\ Pending' = Pending /\ Busy' = Busy /\ Uncounted' = Uncounted
  /\ message_count' = message_count

LEMMA FutureEmpty ==
  ASSUME FifoInv, NEW c \in Cores, pc[c] # "grab"
  PROVE  Elements(future_messages[c]) = {}
  BY DEF FifoInv, AtHome

LEMMA NothingIn == Elements(<< >>) = {}
  BY InElements, EmptySeq

LEMMA UnmovedMove ==
  ASSUME TypeOK, TypeOK', EmptyElsewhere, FifoInv, NEW t \in Threads, NEW l,
         pc' = [pc EXCEPT ![t] = l], pc[t] \notin {"grab", "count"}, l # "count",
         pc[t] \in {"batch", "run", "uncount"} \cup SendPcs
           <=> l \in {"batch", "run", "uncount"} \cup SendPcs,
         UNCHANGED <<queues, messages, future_messages, message_count>>
  PROVE  Unmoved
<1>1. Busy' = Busy /\ Uncounted' = Uncounted
  BY PcTypes DEF Busy, Uncounted
<1>2. ASSUME NEW c \in Cores, c # t PROVE pc'[c] = pc[c]
  BY <1>2, PcTypes
<1>3. ASSUME t \in Cores, pc'[t] = "grab"
      PROVE  Elements(messages[t]) = {} /\ Elements(future_messages[t]) = {}
  <2>1. l = "grab"
    BY <1>3, PcTypes
  <2>2. messages[t] = << >>
    BY <1>3, <2>1 DEF EmptyElsewhere, SendPcs
  <2> QED
    BY <1>3, <2>2, NothingIn, FutureEmpty
<1>4. ASSUME NEW m PROVE m \in Pending' <=> m \in Pending
  BY <1>2, <1>3, PendingIs, PendingIsNext
<1> QED
  BY <1>1, <1>4 DEF Unmoved

LEMMA UnmovedPop ==
  ASSUME IInv, IInv', NEW c \in Cores, Pop(c)
  PROVE  Unmoved
<1>1. TypeOK /\ TypeOK'
  BY DEF IInv
<1>2. pc' = pc /\ message_count' = message_count /\ pc[c] = "grab"
  BY DEF Pop
<1>3. Busy' = Busy /\ Uncounted' = Uncounted
  BY <1>2 DEF Busy, Uncounted
<1>4. PICK i \in Queues : i = QueueOf(c)
  BY <1>1, QueueTypes
<1>5. PICK h : h = Head(queues[i])
  OBVIOUS
<1>6. /\ queues[i] # << >>
      /\ queues'[i] = Tail(queues[i]) /\ \A j \in Queues \ {i} : queues'[j] = queues[j]
      /\ \A d \in Cores \ {c} : /\ messages'[d] = messages[d]
                                /\ future_messages'[d] = future_messages[d]
      /\ \/ /\ messages'[c] = Append(messages[c], h) /\ future_messages'[c] = future_messages[c]
         \/ /\ future_messages'[c] = Append(future_messages[c], h) /\ messages'[c] = messages[c]
  BY <1>1, <1>4, <1>5 DEF TypeOK, Pop, MayPop
<1>7. h \in Ids /\ queues[i] \in Seq(Ids) /\ messages[c] \in Seq(Ids) /\ future_messages[c] \in Seq(Ids)
  BY <1>1, <1>5, <1>6, Belong, HeadAt
<1>8. Elements(queues[i]) = {h} \cup Elements(queues'[i])
  BY <1>5, <1>6, <1>7, ElementsOfTail
<1>9. Elements(messages'[c]) \cup Elements(future_messages'[c])
        = Elements(messages[c]) \cup Elements(future_messages[c]) \cup {h}
  <2>1. /\ Elements(Append(messages[c], h)) = Elements(messages[c]) \cup {h}
        /\ Elements(Append(future_messages[c], h)) = Elements(future_messages[c]) \cup {h}
    BY <1>7, ElementsOfAppend
  <2>2. CASE messages'[c] = Append(messages[c], h) /\ future_messages'[c] = future_messages[c]
    BY <2>1, <2>2
  <2>3. CASE future_messages'[c] = Append(future_messages[c], h) /\ messages'[c] = messages[c]
    BY <2>1, <2>3
  <2> QED
    BY <1>6, <2>2, <2>3
<1>10. ASSUME NEW m, m \in Pending PROVE m \in Pending'
  <2>1. CASE m = h
    BY <1>1, <1>2, <1>9, <2>1, PendingIsNext
  <2>2. CASE \E j \in Queues : m \in Elements(queues[j])
    BY <1>1, <1>6, <1>8, <2>1, <2>2, PendingIsNext
  <2>3. CASE \E d \in Cores : /\ pc[d] = "grab"
                              /\ m \in Elements(messages[d]) \cup Elements(future_messages[d])
    BY <1>1, <1>2, <1>6, <1>9, <2>3, PendingIsNext
  <2> QED
    BY <1>1, <1>10, <2>2, <2>3, PendingIs
<1>11. ASSUME NEW m, m \in Pending' PROVE m \in Pending
  <2>1. CASE m = h
    BY <1>1, <1>8, <2>1, PendingIs
  <2>2. CASE \E j \in Queues : m \in Elements(queues'[j])
    BY <1>1, <1>6, <1>8, <2>2, PendingIs
  <2>3. CASE \E d \in Cores : /\ pc[d] = "grab"
                              /\ m \in Elements(messages'[d]) \cup Elements(future_messages'[d])
    BY <1>1, <1>2, <1>6, <1>9, <2>1, <2>3, PendingIs
  <2> QED
    BY <1>1, <1>2, <1>11, <2>2, <2>3, PendingIsNext
<1> QED
  BY <1>2, <1>3, <1>10, <1>11 DEF Unmoved

LEMMA UnmovedFinish ==
  ASSUME IInv, IInv', NEW c \in Cores, Finish(c)
  PROVE  Unmoved
<1>1. TypeOK /\ TypeOK'
  BY DEF IInv
<1>2. /\ pc[c] = "run" /\ pc' = [pc EXCEPT ![c] = "batch"] /\ message_count' = message_count
      /\ queues' = queues /\ future_messages' = future_messages
      /\ \A d \in Cores \ {c} : messages'[d] = messages[d]
  BY <1>1 DEF Finish, Go, TypeOK
<1>3. Busy' = Busy /\ Uncounted' = Uncounted
  BY <1>1, <1>2, PcTypes DEF Busy, Uncounted, SendPcs
<1>4. pc'[c] # "grab" /\ \A d \in Cores \ {c} : pc'[d] = pc[d]
  BY <1>1, <1>2, PcTypes
<1>5. ASSUME NEW m PROVE m \in Pending' <=> m \in Pending
  BY <1>1, <1>2, <1>4, PendingIs, PendingIsNext
<1> QED
  BY <1>2, <1>3, <1>5 DEF Unmoved

LEMMA NotifyUnmoved ==
  ASSUME IInv, IInv', EmptyElsewhere, FifoInv, NEW t \in Threads, Notify(t)
  PROVE  Unmoved
<1>1. TypeOK /\ TypeOK'
  BY DEF IInv
<1>2. /\ UNCHANGED <<queues, messages, future_messages, message_count>>
      /\ pc[t] = "notify" /\ pc' = [pc EXCEPT ![t] = IF t = Main THEN "main" ELSE "run"]
  BY DEF Notify, Go
<1>3. CASE t \in Cores
  BY <1>1, <1>2, <1>3, UnmovedMove, PcTypes DEF SendPcs
<1>4. CASE t = Main
  <2>1. Busy' = Busy /\ Uncounted' = Uncounted /\ \A c \in Cores : pc'[c] = pc[c]
    BY <1>1, <1>2, <1>4, PcTypes DEF Busy, Uncounted
  <2>2. ASSUME NEW m PROVE m \in Pending' <=> m \in Pending
    BY <1>1, <1>2, <2>1, PendingIs, PendingIsNext
  <2> QED
    BY <1>2, <2>1, <2>2 DEF Unmoved
<1> QED
  BY <1>3, <1>4, Constants

LEMMA Changes ==
  ASSUME IInv, IInv', EmptyElsewhere, FifoInv, [Next]_vars
  PROVE  \/ \E c \in Cores : Commit(c) \/ Uncount(c)
         \/ \E t \in Threads : Push(t) \/ Count(t)
         \/ Unmoved
<1>1. TypeOK /\ TypeOK'
  BY DEF IInv
<1>2. ASSUME NEW c \in Cores, CoreStep(c) PROVE Commit(c) \/ Uncount(c) \/ Unmoved
  <2>1. c \in Threads
    BY <1>1, PcTypes
  <2>2. CASE TryQueueMiss(c) \/ LeaveQueue(c) \/ ReleaseEmpty(c)
    <3>1. /\ UNCHANGED <<queues, messages, future_messages, message_count>>
          /\ pc[c] \in {"scan", "queue", "release"}
          /\ \E l \in {"scan", "end"} : pc' = [pc EXCEPT ![c] = l]
      BY <2>2 DEF TryQueueMiss, LeaveQueue, ReleaseEmpty, NextQueue, Go
    <3> QED
      BY <1>1, <2>1, <3>1, UnmovedMove DEF SendPcs
  <2>3. CASE (\E i \in Queues : TryQueueHit(c, i)) \/ LockProcess(c)
    <3>1. /\ UNCHANGED <<queues, messages, future_messages, message_count>>
          /\ pc[c] \in {"scan", "queue"}
          /\ \E l \in {"queue", "grab"} : pc' = [pc EXCEPT ![c] = l]
      BY <2>3 DEF TryQueueHit, LockProcess, Go
    <3> QED
      BY <1>1, <2>1, <3>1, UnmovedMove DEF SendPcs
  <2>4. CASE Begin(c) \/ Release(c)
    <3>1. /\ UNCHANGED <<queues, messages, future_messages, message_count>>
          /\ pc[c] = "batch"
          /\ \E l \in {"run", "uncount"} : pc' = [pc EXCEPT ![c] = l]
      BY <2>4 DEF Begin, Release, Go
    <3> QED
      BY <1>1, <2>1, <3>1, UnmovedMove DEF SendPcs
  <2>5. CASE EndScan(c) \/ Nap(c) \/ ChangeMind(c) \/ GoHome(c) \/ FallAsleep(c) \/ Wait(c) \/ Wake(c)
    <3>1. /\ UNCHANGED <<queues, messages, future_messages, message_count>>
          /\ pc[c] \in {"end", "nap", "recheck", "sleep", "wait"}
          /\ \E l \in {"scan", "nap", "recheck", "sleep", "wait", "exited"} : pc' = [pc EXCEPT ![c] = l]
      BY <2>5 DEF EndScan, Nap, ChangeMind, GoHome, FallAsleep, Wait, Wake, Again, Go
    <3> QED
      BY <1>1, <2>1, <3>1, UnmovedMove DEF SendPcs
  <2> QED
    BY <1>2, <2>2, <2>3, <2>4, <2>5, UnmovedPop, UnmovedFinish DEF CoreStep
<1>3. ASSUME NEW t \in Threads, Notify(t) PROVE Unmoved
  BY <1>3, NotifyUnmoved
<1>4. ASSUME NEW t \in Threads, NEW p \in Procs, NEW b \in BOOLEAN, StartSend(t, p, b)
      PROVE  Unmoved
  <2>1. /\ UNCHANGED <<queues, messages, future_messages, message_count>>
        /\ pc[t] \in {"run", "main"} /\ pc' = [pc EXCEPT ![t] = "push"]
    BY <1>4 DEF StartSend, Go
  <2>2. CASE pc[t] = "run"
    BY <1>1, <2>1, <2>2, UnmovedMove DEF SendPcs
  <2>3. CASE pc[t] = "main"
    <3>1. t = Main
      BY <1>1, <2>3, Constants DEF IInv, PcShape, CorePcs, SendPcs
    <3>2. Busy' = Busy /\ Uncounted' = Uncounted /\ \A c \in Cores : pc'[c] = pc[c]
      BY <1>1, <2>1, <3>1, PcTypes DEF Busy, Uncounted
    <3>3. ASSUME NEW m PROVE m \in Pending' <=> m \in Pending
      BY <1>1, <2>1, <3>2, PendingIs, PendingIsNext
    <3> QED
      BY <2>1, <3>2, <3>3 DEF Unmoved
  <2> QED
    BY <2>1, <2>2, <2>3
<1>5. CASE Shutdown
  <2>1. /\ UNCHANGED <<queues, messages, future_messages, message_count>>
        /\ pc[Main] \in {"main", "stored", "join"}
        /\ \E l \in {"stored", "join", "done"} : pc' = [pc EXCEPT ![Main] = l]
    BY <1>5 DEF Shutdown, StoreReady, NotifyAll, Join, Go
  <2> QED
    BY <1>1, <2>1, UnmovedMove, PcTypes DEF SendPcs
<1>6. CASE (\E c \in Cores : SpuriousWakeup(c)) \/ (\E m \in later : Expire(m)) \/ UNCHANGED vars
  <2>1. UNCHANGED <<queues, messages, future_messages, message_count, target, pc>>
    BY <1>6 DEF SpuriousWakeup, Expire, vars
  <2> QED
    BY <2>1 DEF Unmoved, Pending, Busy, Uncounted, Ids, Elements
<1> QED
  BY <1>2, <1>3, <1>4, <1>5, <1>6 DEF Next, SendMessage

-----------------------------------------------------------------------------
LEMMA CommitOwes ==
  ASSUME IInv, IInv', Placed, SendBound, NEW c \in Cores, Commit(c)
  PROVE  /\ Settled(c) \in Nat /\ Owed' = Owed - Settled(c) /\ message_count' = Minus(Settled(c))
         /\ Pending' \subseteq Pending /\ Uncounted' = Uncounted
         /\ Busy' = IF messages[c] = << >> THEN Busy ELSE Busy \cup {c}
<1>1. TypeOK /\ TypeOK'
  BY DEF IInv
<1>2. PICK i \in Queues : i = QueueOf(c)
  BY <1>1, QueueTypes
<1>3. PICK f : f = future_messages[c]
  OBVIOUS
<1>4. PICK e : e = Elements(messages[c])
  OBVIOUS
<1>5. /\ pc[c] = "grab" /\ pc' = [pc EXCEPT ![c] = IF messages[c] = << >> THEN "release" ELSE "batch"]
      /\ message_count' = Minus(Settled(c)) /\ messages' = messages
      /\ queues'[i] = queues[i] \o f /\ \A j \in Queues \ {i} : queues'[j] = queues[j]
      /\ \A d \in Cores \ {c} : future_messages'[d] = future_messages[d]
  BY <1>1, <1>2, <1>3 DEF Commit, PushBack, Go, TypeOK
<1>6. f \in Seq(Ids) /\ queues[i] \in Seq(Ids) /\ messages[c] \in Seq(Ids)
  BY <1>1, <1>3, Belong
<1>7. Elements(queues'[i]) = Elements(queues[i]) \cup Elements(f)
  BY <1>5, <1>6, ElementsOfConcat
<1>8. pc'[c] # "grab" /\ \A d \in Cores \ {c} : pc'[d] = pc[d]
  BY <1>1, <1>5, PcTypes
<1>9. /\ \A j \in Queues : e \cap Elements(queues[j]) = {}
      /\ \A d \in Cores : e \cap Elements(future_messages[d]) = {}
      /\ \A d \in Cores \ {c} : e \cap Elements(messages[d]) = {}
  BY <1>1, <1>4, Apart
<1>10. ASSUME NEW m, m \in Pending, m \notin e PROVE m \in Pending'
  <2>1. CASE \E j \in Queues : m \in Elements(queues[j])
    BY <1>1, <1>5, <1>7, <2>1, PendingIsNext
  <2>2. CASE \E d \in Cores : /\ pc[d] = "grab"
                              /\ m \in Elements(messages[d]) \cup Elements(future_messages[d])
    <3>1. PICK d \in Cores : /\ pc[d] = "grab"
                             /\ m \in Elements(messages[d]) \cup Elements(future_messages[d])
      BY <2>2
    <3>2. CASE d = c
      BY <1>1, <1>3, <1>4, <1>7, <1>10, <3>1, <3>2, PendingIsNext
    <3>3. CASE d # c
      BY <1>1, <1>5, <1>8, <3>1, <3>3, PendingIsNext
    <3> QED
      BY <3>2, <3>3
  <2> QED
    BY <1>1, <1>10, <2>1, <2>2, PendingIs
<1>11. ASSUME NEW m, m \in Pending' PROVE m \in Pending /\ m \notin e
  <2>1. CASE m \in Elements(f)
    BY <1>1, <1>3, <1>5, <1>9, <2>1, PendingIs
  <2>2. CASE \E j \in Queues : m \in Elements(queues'[j])
    <3>1. m \in Elements(f) \/ \E j \in Queues : m \in Elements(queues[j])
      BY <1>5, <1>7, <2>2
    <3> QED
      BY <1>1, <1>9, <2>1, <3>1, PendingIs
  <2>3. CASE \E d \in Cores : /\ pc'[d] = "grab"
                              /\ m \in Elements(messages'[d]) \cup Elements(future_messages'[d])
    <3>1. PICK d \in Cores : /\ pc'[d] = "grab"
                             /\ m \in Elements(messages'[d]) \cup Elements(future_messages'[d])
      BY <2>3
    <3>2. /\ d # c /\ pc[d] = "grab"
          /\ m \in Elements(messages[d]) \cup Elements(future_messages[d])
      BY <1>5, <1>8, <3>1
    <3> QED
      BY <1>1, <1>9, <3>2, PendingIs
  <2> QED
    BY <1>1, <1>11, <2>2, <2>3, PendingIsNext
<1>12. Pending' = Pending \ e /\ Pending \cap e = e
  <2>1. e \subseteq Pending
    BY <1>1, <1>4, <1>5, PendingIs
  <2> QED
    BY <1>10, <1>11, <2>1
<1>13. Len(messages[c]) \in Nat /\ Cardinality(e) = Len(messages[c])
  <2>1. \A k, l \in 1 .. Len(messages[c]) : messages[c][k] = messages[c][l] => k = l
    <3>1. Distinct(boxes) /\ DOMAIN boxes = Boxes /\ BatchBox(c) \in Boxes
          /\ boxes[BatchBox(c)] = messages[c]
      BY <1>1, BoxesTyped, BoxNumbers, BoxesAre DEF Placed
    <3> QED
      BY <3>1, DistinctAt
  <2> QED
    BY <1>4, <1>6, <2>1, ElementsCount
<1>14. /\ IsFiniteSet(Pending) /\ Cardinality(Pending) \in Nat
       /\ IsFiniteSet(Busy) /\ Cardinality(Busy) \in Nat /\ Cardinality(Uncounted) \in Nat
  BY <1>1, Counted
<1>15. Cardinality(Pending') = Cardinality(Pending) - Len(messages[c])
  <2>1. Cardinality(Pending \ e) = Cardinality(Pending) - Cardinality(Pending \cap e)
    BY <1>14, FS_Difference
  <2> QED
    BY <1>12, <1>13, <2>1
<1>16. Uncounted' = Uncounted
  BY <1>1, <1>5, PcTypes DEF Uncounted
<1>17. c \notin Busy
  BY <1>5 DEF Busy, SendPcs
<1>18. CASE messages[c] = << >>
  <2>1. Busy' = Busy
    BY <1>1, <1>5, <1>18, PcTypes DEF Busy, SendPcs
  <2>2. Settled(c) = 0 /\ Len(messages[c]) = 0
    BY <1>18 DEF Settled
  <2>3. Owed' = Owed - 0
    BY <1>13, <1>14, <1>15, <1>16, <2>1, <2>2 DEF Owed
  <2> QED
    BY <1>5, <1>12, <1>16, <1>18, <2>1, <2>2, <2>3
<1>19. CASE messages[c] # << >>
  <2>1. Busy' = Busy \cup {c}
    BY <1>1, <1>5, <1>19, PcTypes DEF Busy, SendPcs
  <2>2. Cardinality(Busy') = Cardinality(Busy) + 1
    BY <1>14, <1>17, <2>1, FS_AddElement
  <2>3. Settled(c) = Len(messages[c]) - 1 /\ Len(messages[c]) # 0
    BY <1>6, <1>19, EmptySeq DEF Settled
  <2>4. PICK n \in Nat : n = Len(messages[c])
    BY <1>13
  <2>5. Settled(c) = n - 1 /\ n # 0
    BY <2>3, <2>4
  <2>6. Owed' = Owed - (n - 1)
    BY <1>14, <1>15, <1>16, <2>2, <2>4 DEF Owed
  <2>7. Settled(c) \in Nat /\ Owed' = Owed - Settled(c)
    BY <2>5, <2>6
  <2> QED
    BY <1>5, <1>12, <1>16, <1>19, <2>1, <2>7
<1> QED
  BY <1>18, <1>19

LEMMA UncountOwes ==
  ASSUME IInv, IInv', SendBound, EmptyElsewhere, NEW c \in Cores, Uncount(c)
  PROVE  /\ Owed' = Owed - 1 /\ message_count' = Minus(1)
         /\ Pending' = Pending /\ Uncounted' = Uncounted /\ Busy' = Busy \ {c} /\ c \in Busy
<1>1. TypeOK /\ TypeOK'
  BY DEF IInv
<1>2. /\ UNCHANGED <<queues, messages, future_messages>> /\ message_count' = Minus(1)
      /\ pc[c] = "uncount" /\ \E l \in {"scan", "end"} : pc' = [pc EXCEPT ![c] = l]
  BY DEF Uncount, NextQueue, Go
<1>3. Uncounted' = Uncounted /\ Busy' = Busy \ {c} /\ c \in Busy
  BY <1>1, <1>2, PcTypes DEF Uncounted, Busy, SendPcs
<1>4. \A d \in Cores : pc'[d] = "grab" <=> pc[d] = "grab"
  BY <1>1, <1>2, PcTypes
<1>5. Pending' = Pending
  <2>1. ASSUME NEW m PROVE m \in Pending' <=> m \in Pending
    BY <1>1, <1>2, <1>4, PendingIs, PendingIsNext
  <2> QED
    BY <2>1
<1>6. IsFiniteSet(Busy) /\ Cardinality(Busy) \in Nat /\ Cardinality(Pending) \in Nat
      /\ Cardinality(Uncounted) \in Nat
  BY <1>1, Counted
<1>7. Cardinality(Busy') = Cardinality(Busy) - 1
  BY <1>3, <1>6, FS_RemoveElement
<1> QED
  BY <1>2, <1>3, <1>5, <1>6, <1>7 DEF Owed

LEMMA PushOwes ==
  ASSUME IInv, IInv', SendBound, NEW t \in Threads, Push(t)
  PROVE  /\ Owed' = Owed /\ message_count' = message_count /\ Busy' = Busy
         /\ Cardinality(Pending') = Cardinality(Pending) + 1
         /\ Uncounted' = Uncounted \cup {t} /\ t \notin Uncounted
<1>1. TypeOK /\ TypeOK'
  BY DEF IInv
<1>2. PICK n : n = Len(target) + 1
  OBVIOUS
<1>3. PICK i \in Queues : i = Home(sending[t].process)
  BY <1>1, QueueTypes DEF TypeOK
<1>4. /\ queues'[i] = Append(queues[i], n) /\ \A j \in Queues \ {i} : queues'[j] = queues[j]
      /\ UNCHANGED <<messages, future_messages, message_count>>
      /\ pc[t] = "push" /\ pc' = [pc EXCEPT ![t] = "count"]
  BY <1>1, <1>2, <1>3 DEF Push, Go, TypeOK
<1>5. n \in Nat /\ n \notin Ids /\ Ids' = Ids \cup {n}
  BY <1>2, NewId
<1>6. Elements(queues'[i]) = Elements(queues[i]) \cup {n}
  <2>1. queues[i] \in Seq(Ids)
    BY <1>1, Belong
  <2>2. queues[i] \in Seq(Ids \cup {n}) /\ n \in Ids \cup {n}
    BY <2>1, SeqMonotonic
  <2> QED
    BY <1>4, <2>2, ElementsOfAppend
<1>7. \A d \in Cores : pc'[d] = "grab" <=> pc[d] = "grab"
  BY <1>1, <1>4, PcTypes
<1>9. Pending' = Pending \cup {n}
  <2>1. ASSUME NEW m PROVE m \in Pending' <=> (m \in Pending \/ m = n)
    <3>1. (\E j \in Queues : m \in Elements(queues'[j]))
            <=> (m = n \/ \E j \in Queues : m \in Elements(queues[j]))
      BY <1>4, <1>6
    <3> QED
      BY <1>1, <1>4, <1>7, <3>1, PendingIs, PendingIsNext
  <2> QED
    BY <2>1
<1>10. /\ IsFiniteSet(Pending) /\ Cardinality(Pending) \in Nat /\ Pending \subseteq Ids
       /\ IsFiniteSet(Uncounted) /\ Cardinality(Uncounted) \in Nat /\ Cardinality(Busy) \in Nat
  BY <1>1, Counted
<1>11. Cardinality(Pending') = Cardinality(Pending) + 1
  BY <1>5, <1>9, <1>10, FS_AddElement
<1>12. Uncounted' = Uncounted \cup {t} /\ t \notin Uncounted
  BY <1>1, <1>4, PcTypes DEF Uncounted
<1>13. Cardinality(Uncounted') = Cardinality(Uncounted) + 1
  BY <1>10, <1>12, FS_AddElement
<1>14. Busy' = Busy
  BY <1>1, <1>4, PcTypes DEF Busy, SendPcs
<1> QED
  BY <1>4, <1>10, <1>11, <1>12, <1>13, <1>14 DEF Owed

LEMMA CountOwes ==
  ASSUME IInv, IInv', SendBound, NEW t \in Threads, Count(t)
  PROVE  /\ Owed' = Owed + 1 /\ message_count' = Plus(1) /\ Pending' = Pending /\ Busy' = Busy
         /\ Uncounted' = Uncounted \ {t}
<1>1. TypeOK /\ TypeOK'
  BY DEF IInv
<1>2. /\ UNCHANGED <<queues, messages, future_messages>> /\ message_count' = Plus(1)
      /\ pc[t] = "count" /\ pc' = [pc EXCEPT ![t] = "notify"]
  BY DEF Count, Go
<1>3. Uncounted' = Uncounted \ {t} /\ t \in Uncounted /\ Busy' = Busy
  BY <1>1, <1>2, PcTypes DEF Uncounted, Busy, SendPcs
<1>4. \A d \in Cores : pc'[d] = "grab" <=> pc[d] = "grab"
  BY <1>1, <1>2, PcTypes
<1>5. Pending' = Pending
  <2>1. ASSUME NEW m PROVE m \in Pending' <=> m \in Pending
    BY <1>1, <1>2, <1>4, PendingIs, PendingIsNext
  <2> QED
    BY <2>1
<1>6. IsFiniteSet(Uncounted) /\ Cardinality(Busy) \in Nat /\ Cardinality(Pending) \in Nat
      /\ Cardinality(Uncounted) \in Nat
  BY <1>1, Counted
<1>7. Cardinality(Uncounted') = Cardinality(Uncounted) - 1
  BY <1>3, <1>6, FS_RemoveElement
<1> QED
  BY <1>2, <1>3, <1>5, <1>6, <1>7 DEF Owed

LEMMA CountNext ==
  IInv /\ IInv' /\ Placed /\ FifoInv /\ Shape /\ Shape' /\ CountExact /\ [Next]_vars => CountExact'
<1> SUFFICES ASSUME IInv, IInv', Placed, FifoInv, Shape, Shape', CountExact, [Next]_vars
             PROVE  CountExact'
  OBVIOUS
<1>1. TypeOK /\ TypeOK' /\ SendBound /\ SendBound' /\ EmptyElsewhere
  BY DEF IInv, Shape
<1>2. ASSUME NEW c \in Cores, Commit(c) PROVE CountExact'
  <2>1. Settled(c) \in Nat /\ Owed' = Owed - Settled(c) /\ message_count' = Minus(Settled(c))
    BY <1>1, <1>2, CommitOwes
  <2> QED
    BY <1>1, <2>1, OwedNext
<1>3. ASSUME NEW c \in Cores, Uncount(c) PROVE CountExact'
  <2>1. 1 \in Nat /\ Owed' = Owed - 1 /\ message_count' = Minus(1)
    BY <1>1, <1>3, UncountOwes
  <2> QED
    BY <1>1, <2>1, OwedNext
<1>4. ASSUME NEW t \in Threads, Push(t) PROVE CountExact'
  BY <1>1, <1>4, PushOwes, OwedNext
<1>5. ASSUME NEW t \in Threads, Count(t) PROVE CountExact'
  BY <1>1, <1>5, CountOwes, OwedNext
<1>6. CASE Unmoved
  <2>1. Owed' = Owed /\ message_count' = message_count
    BY <1>6 DEF Unmoved, Owed
  <2> QED
    BY <1>1, <2>1, OwedNext
<1> QED
  BY <1>1, <1>2, <1>3, <1>4, <1>5, <1>6, Changes

LEMMA CountInit == Init => CountExact
<1> SUFFICES ASSUME Init PROVE CountExact
  OBVIOUS
<1>1. Ids = {}
  BY DEF Init, Ids
<1>2. Pending = {} /\ Busy = {} /\ Uncounted = {}
  BY <1>1, Constants DEF Init, Pending, Busy, Uncounted, SendPcs
<1>3. Cardinality(Pending) = 0 /\ Cardinality(Busy) = 0 /\ Cardinality(Uncounted) = 0
  BY <1>2, FS_EmptySet
<1> QED
  BY <1>3 DEF Init, CountExact

LEMMA AlwaysCounted == Spec => [](IInv /\ Placed /\ FifoInv /\ Shape /\ CountExact)
<1> QED
  BY AlwaysPlaced, AlwaysFifo, AlwaysShape, CountInit, CountNext, PTL DEF Spec

(* However senders, batches and cores interleave, message_count, which     *)
(* SendMessage raises after the push and CoreMain lowers in two parts, is  *)
(* the number of messages waiting plus one for every core at work, less    *)
(* the messages not counted yet, in the arithmetic of its 32 bits.         *)
THEOREM ExactCount == Spec => []CountExact
<1> QED
  BY AlwaysCounted, PTL

-----------------------------------------------------------------------------
(* The end: once a core has gone home there is nothing left to do.         *)
Down == (\E c \in Cores : pc[c] = "exited") => executed = Ids /\ Busy = {} /\ ready_to_exit = 1

LEMMA Unexecuted ==
  ASSUME TypeOK, Placed
  PROVE  /\ \A i \in Queues : Elements(queues[i]) \subseteq Ids \ executed
         /\ \A c \in Cores : Elements(messages[c]) \subseteq Ids \ executed
         /\ \A c \in Cores : Elements(future_messages[c]) \subseteq Ids \ executed
<1>1. DOMAIN boxes = Boxes /\ Contents(boxes) = Ids \ executed
  BY BoxesTyped DEF Placed
<1>2. \A b \in Boxes : Elements(boxes[b]) \subseteq Ids \ executed
  BY <1>1 DEF Contents
<1> QED
  BY <1>2, BoxNumbers, BoxesAre

LEMMA Quiescent ==
  IInv /\ Placed /\ Shape /\ CountExact /\ executed = Ids /\ Busy = {} /\ ready_to_exit = 1
    => /\ Pending = {} /\ \A c \in Cores : messages[c] = << >>
       /\ \A t \in Threads : pc[t] \notin {"run", "main"} \cup SendPcs
       /\ message_count = 0
<1> SUFFICES ASSUME IInv, Placed, Shape, CountExact, executed = Ids, Busy = {}, ready_to_exit = 1
             PROVE  /\ Pending = {} /\ \A c \in Cores : messages[c] = << >>
                    /\ \A t \in Threads : pc[t] \notin {"run", "main"} \cup SendPcs
                    /\ message_count = 0
  OBVIOUS
<1>1. TypeOK
  BY DEF IInv
<1>2. /\ \A i \in Queues : Elements(queues[i]) = {}
      /\ \A c \in Cores : Elements(messages[c]) = {} /\ Elements(future_messages[c]) = {}
  BY <1>1, Unexecuted
<1>3. Pending = {}
  BY <1>1, <1>2, PendingIs
<1>4. \A c \in Cores : messages[c] = << >>
  BY <1>1, <1>2, Belong, ElementsOf, SMTT(30)
<1>5. ASSUME NEW t \in Threads PROVE pc[t] \notin {"run", "main"} \cup SendPcs
  <2>1. CASE t \in Cores
    BY <2>1 DEF Busy, IInv, PcShape, CorePcs, SendPcs
  <2>2. CASE t = Main
    BY <2>2 DEF Shape, ReadyShape, SendPcs
  <2> QED
    BY <2>1, <2>2, Constants
<1>6. Uncounted = {}
  BY <1>5 DEF Uncounted, SendPcs
<1>7. Cardinality(Pending) = 0 /\ Cardinality(Busy) = 0 /\ Cardinality(Uncounted) = 0
  BY <1>3, <1>6, FS_EmptySet
<1> QED
  BY <1>3, <1>4, <1>5, <1>7 DEF CountExact

(* Which steps send a core home. *)
LEMMA Exits ==
  ASSUME IInv, [Next]_vars, NEW c \in Cores, pc[c] # "exited", pc'[c] = "exited"
  PROVE  GoHome(c)
<1>1. TypeOK /\ pc \in [Threads -> AllPcs] /\ Cores \subseteq Threads /\ Main \notin Cores
  BY PcTypes DEF IInv
<1>2. ASSUME NEW d \in Cores, CoreStep(d) PROVE GoHome(c)
  <2>1. d = c
    BY <1>1, <1>2, CorePlaces
  <2>2. CASE TryQueueMiss(c) \/ LeaveQueue(c) \/ ReleaseEmpty(c) \/ Uncount(c)
    BY <1>1, <2>2 DEF TryQueueMiss, LeaveQueue, ReleaseEmpty, Uncount, NextQueue, Go
  <2>3. CASE (\E i \in Queues : TryQueueHit(c, i)) \/ LockProcess(c) \/ Pop(c) \/ Commit(c) \/ Begin(c)
    BY <1>1, <2>3 DEF TryQueueHit, LockProcess, Pop, Commit, Begin, Go
  <2>4. CASE Finish(c) \/ Release(c) \/ EndScan(c) \/ Nap(c) \/ ChangeMind(c)
    BY <1>1, <2>4 DEF Finish, Release, EndScan, Nap, ChangeMind, Again, Go
  <2>5. CASE FallAsleep(c) \/ Wait(c)
    BY <1>1, <2>5 DEF FallAsleep, Wait, Go
  <2>6. CASE Wake(c)
    <3>1. MaySleep /\ idle_count = CoreCount
      BY <1>1, <2>6 DEF Wake, Again, Go
    <3>2. message_count \in 0 .. Wrap - 1 /\ Wrap \in Nat
      BY <1>1, BoundAssumption DEF TypeOK
    <3> QED
      BY <3>1, <3>2, CoreAssumption DEF MaySleep, Awake
  <2> QED
    BY <1>2, <2>1, <2>2, <2>3, <2>4, <2>5, <2>6 DEF CoreStep
<1>3. ASSUME NEW t \in Threads, SendMessage(t) PROVE FALSE
  BY <1>1, <1>3 DEF SendMessage, Push, Count, Notify, Go
<1>4. ASSUME NEW t \in Threads, NEW p \in Procs, NEW b \in BOOLEAN, StartSend(t, p, b) PROVE FALSE
  BY <1>1, <1>4 DEF StartSend, Go
<1>5. CASE Shutdown
  BY <1>1, <1>5 DEF Shutdown, StoreReady, NotifyAll, Join, Go
<1>6. CASE (\E d \in Cores : SpuriousWakeup(d)) \/ (\E m \in later : Expire(m)) \/ UNCHANGED vars
  BY <1>6 DEF SpuriousWakeup, Expire, vars
<1> QED
  BY <1>2, <1>3, <1>4, <1>5, <1>6 DEF Next

(* The last core that becomes idle sees a message_count of 0. *)
LEMMA LastOne ==
  ASSUME IInv, Placed, FifoInv, Shape, CountExact, NEW c \in Cores, GoHome(c)
  PROVE  executed = Ids /\ Busy = {} /\ ready_to_exit = 1
<1>1. TypeOK
  BY DEF IInv
<1>2. /\ pc[c] = "recheck" /\ idle_count + 1 = CoreCount /\ ready_to_exit = 1
      /\ message_count < CoreCount - idle_count
  BY DEF GoHome, MaySleep, Awake
<1>3. CoreCount \in Nat /\ idle_count \in Nat /\ message_count \in Nat /\ Wrap \in Nat
  BY <1>1, CoreAssumption, BoundAssumption DEF TypeOK
<1>4. message_count = 0
  BY <1>2, <1>3
<1>5. Idle = Cores \ {c}
  <2>1. IsFiniteSet(Cores) /\ Cardinality(Cores) = CoreCount
    BY <1>3, FirstNumbers DEF Cores
  <2>2. IsFiniteSet(Cores \ {c}) /\ Cardinality(Cores \ {c}) = CoreCount - 1
    BY <2>1, FS_RemoveElement
  <2>3. Idle \subseteq Cores \ {c}
    BY <1>2 DEF Idle, IdlePcs
  <2>4. Cardinality(Idle) = idle_count
    BY DEF IInv, IdleExact
  <2>5. Cardinality(Cores \ {c}) = Cardinality(Idle)
    BY <1>2, <1>3, <2>2, <2>4
  <2> QED
    BY <2>2, <2>3, <2>5, FS_Subset
<1>6. \A d \in Cores : pc[d] \in {"recheck", "sleep", "wait", "exited"}
  BY <1>2, <1>5 DEF Idle, IdlePcs
<1>7. Busy = {}
  BY <1>6 DEF Busy, SendPcs
<1>8. Uncounted = {}
  <2>1. pc[Main] # "count"
    BY <1>2 DEF Shape, ReadyShape
  <2> QED
    BY <1>6, <2>1, Constants DEF Uncounted
<1>9. Cardinality(Busy) = 0 /\ Cardinality(Uncounted) = 0
  BY <1>7, <1>8, FS_EmptySet
<1>10. IsFiniteSet(Pending) /\ Cardinality(Pending) \in Nat
  BY <1>1, Counted DEF Shape
<1>11. Cardinality(Pending) = 0
  BY <1>3, <1>4, <1>9, <1>10 DEF CountExact
<1>12. Pending = {}
  BY <1>10, <1>11, FS_EmptySet
<1>13. ASSUME NEW m \in Ids, m \notin executed PROVE FALSE
  <2>1. \A d \in Cores : Elements(messages[d]) = {}
    BY <1>6, NothingIn DEF Shape, EmptyElsewhere, SendPcs
  <2>2. \A d \in Cores : Elements(future_messages[d]) = {}
    BY <1>6, FutureEmpty
  <2>3. PICK i \in Queues : m \in Elements(queues[i])
    BY <1>1, <1>13, <2>1, <2>2, Somewhere
  <2> QED
    BY <1>1, <1>12, <2>3, PendingIs
<1> QED
  BY <1>1, <1>2, <1>7, <1>13 DEF TypeOK

LEMMA ReadyStays == ASSUME IInv, [Next]_vars, ready_to_exit = 1 PROVE ready_to_exit' = 1
<1>1. ASSUME NEW c \in Cores, CoreStep(c) PROVE ready_to_exit' = 1
  BY <1>1, CorePlaces
<1>2. ASSUME NEW t \in Threads, SendMessage(t) PROVE ready_to_exit' = 1
  BY <1>2 DEF SendMessage, Push, Count, Notify
<1>3. ASSUME NEW t \in Threads, NEW p \in Procs, NEW b \in BOOLEAN, StartSend(t, p, b)
      PROVE  ready_to_exit' = 1
  BY <1>3 DEF StartSend
<1>4. CASE Shutdown
  BY <1>4 DEF Shutdown, StoreReady, NotifyAll, Join
<1>5. CASE (\E d \in Cores : SpuriousWakeup(d)) \/ (\E m \in later : Expire(m)) \/ UNCHANGED vars
  BY <1>5 DEF SpuriousWakeup, Expire, vars
<1> QED
  BY <1>1, <1>2, <1>3, <1>4, <1>5 DEF Next

LEMMA DownNext ==
  IInv /\ IInv' /\ Placed /\ FifoInv /\ Shape /\ CountExact /\ Down /\ [Next]_vars => Down'
<1> SUFFICES ASSUME IInv, IInv', Placed, FifoInv, Shape, CountExact, Down, [Next]_vars,
                    NEW c \in Cores, pc'[c] = "exited"
             PROVE  executed' = Ids' /\ Busy' = {} /\ ready_to_exit' = 1
  BY DEF Down
<1>1. executed = Ids /\ Busy = {} /\ ready_to_exit = 1
  <2>1. CASE pc[c] = "exited"
    BY <2>1 DEF Down
  <2>2. CASE pc[c] # "exited"
    BY <2>2, Exits, LastOne
  <2> QED
    BY <2>1, <2>2
<1>2. /\ \A d \in Cores : messages[d] = << >>
      /\ \A t \in Threads : pc[t] \notin {"run", "main"} \cup SendPcs
  BY <1>1, Quiescent
<1>3. Cores \subseteq Threads
  BY Constants
<1>4. executed' = executed /\ Ids' = Ids
  <2>1. \A d \in Cores : ~Finish(d)
    BY <1>2, <1>3 DEF Finish
  <2>2. \A t \in Threads : ~Push(t)
    BY <1>2 DEF Push, SendPcs
  <2>3. executed' = executed /\ target' = target
    BY <2>1, <2>2, Movers DEF Pop, Commit, Quiet
  <2> QED
    BY <2>3 DEF Ids
<1>5. Busy' = {}
  <2>1. ASSUME NEW d \in Cores, Commit(d) PROVE Busy' = {}
    BY <1>1, <1>2, <2>1, CommitOwes DEF Shape
  <2>2. ASSUME NEW d \in Cores, Uncount(d) PROVE FALSE
    BY <1>1, <2>2, UncountOwes DEF Shape
  <2>3. ASSUME NEW t \in Threads, Push(t) \/ Count(t) PROVE FALSE
    BY <1>2, <2>3 DEF Push, Count, SendPcs
  <2>4. CASE Unmoved
    BY <1>1, <2>4 DEF Unmoved
  <2> QED
    BY <2>1, <2>2, <2>3, <2>4, Changes DEF Shape
<1> QED
  BY <1>1, <1>4, <1>5, ReadyStays

LEMMA DownInit == Init => Down
  BY Constants DEF Init, Down

LEMMA AlwaysDown == Spec => []Down
<1> QED
  BY AlwaysCounted, DownInit, DownNext, Invariance, PTL DEF Spec

(* A core returns from CoreMain only when every message, timers included,  *)
(* has been executed, and message_count is 0 then: Shutdown, which joins   *)
(* the cores, never cuts off a message.                                    *)
THEOREM NothingLeft == Spec => []Drained
<1>1. IInv /\ Placed /\ Shape /\ CountExact /\ Down => Drained
  BY Quiescent DEF Down, Drained
<1> QED
  BY AlwaysCounted, AlwaysDown, <1>1, PTL

-----------------------------------------------------------------------------
(* The sleep rule.                                                         *)
Senders == {t \in Threads : pc[t] \in {"count", "notify"}}
Load == Cardinality(Pending) + Cardinality(Busy)

(* A sender that has pushed its message stands for a core that it is about *)
(* to wake.                                                                *)
Awoken == AwakeCores = Cores \/ Cardinality(AwakeCores) + Cardinality(Senders) >= Load

LEMMA Numbers ==
  ASSUME TypeOK, SendBound
  PROVE  /\ IsFiniteSet(AwakeCores) /\ Cardinality(AwakeCores) \in Nat
         /\ IsFiniteSet(Senders) /\ Cardinality(Senders) \in Nat /\ Load \in Nat
         /\ Cardinality(Uncounted) \in Nat
<1>1. IsFiniteSet(AwakeCores)
  BY Constants, FS_Subset DEF AwakeCores
<1>2. IsFiniteSet(Senders)
  BY SendingFinite, FS_Subset DEF Senders
<1>3. Cardinality(Pending) \in Nat /\ Cardinality(Busy) \in Nat /\ Cardinality(Uncounted) \in Nat
  BY Counted
<1> QED
  BY <1>1, <1>2, <1>3, FS_CardinalityType DEF Load

LEMMA NumbersNext ==
  ASSUME TypeOK', SendBound'
  PROVE  /\ IsFiniteSet(AwakeCores') /\ Cardinality(AwakeCores') \in Nat
         /\ IsFiniteSet(Senders') /\ Cardinality(Senders') \in Nat
<1>1. AwakeCores' \subseteq Cores /\ Senders' \subseteq Threads
  BY DEF AwakeCores, Senders
<1>2. IsFiniteSet(AwakeCores') /\ IsFiniteSet(Senders')
  BY <1>1, Constants, SendingFinite, FS_Subset
<1> QED
  BY <1>2, FS_CardinalityType

LoadIs == Load \in Nat /\ Cardinality(Uncounted) \in Nat /\ Owed = Load - Cardinality(Uncounted)
NoLoad == Load = 0

LEMMA OwedIs == TypeOK /\ SendBound => LoadIs
<1> SUFFICES ASSUME TypeOK, SendBound PROVE LoadIs
  OBVIOUS
<1>1. PICK p, b, u : p = Cardinality(Pending) /\ b = Cardinality(Busy) /\ u = Cardinality(Uncounted)
  OBVIOUS
<1>2. p \in Nat /\ b \in Nat /\ u \in Nat
  BY <1>1, Counted
<1>3. Load = p + b /\ Owed = p + b - u
  BY <1>1 DEF Load, Owed
<1> QED
  BY <1>1, <1>2, <1>3 DEF LoadIs

(* Awake, the number the code compares with, does not exceed the cores     *)
(* that are awake.                                                         *)
LEMMA AwakeBound ==
  ASSUME IInv, SleepShape
  PROVE  Awake \in Nat /\ Awake <= CoreCount /\ Awake <= Cardinality(AwakeCores)
<1>1. TypeOK /\ idle_count = Cardinality(Idle)
  BY DEF IInv, IdleExact
<1>2. CoreCount \in Nat /\ idle_count \in 0 .. CoreCount
  BY <1>1, CoreAssumption DEF TypeOK
<1>3. IsFiniteSet(Cores) /\ Cardinality(Cores) = CoreCount
  BY <1>2, FirstNumbers DEF Cores
<1>4. Cores \cap Idle = Idle
  BY DEF Idle
<1>5. IsFiniteSet(Cores \ Idle) /\ Cardinality(Cores \ Idle) = CoreCount - idle_count
  <2>1. IsFiniteSet(Cores \ Idle) /\ Cardinality(Cores \ Idle) = Cardinality(Cores) - Cardinality(Cores \cap Idle)
    BY <1>3, FS_Difference
  <2> QED
    BY <1>1, <1>3, <1>4, <2>1
<1>6. Cores \ Idle \subseteq AwakeCores
  BY DEF Idle, IdlePcs, AwakeCores, SleepShape
<1>7. IsFiniteSet(AwakeCores)
  BY <1>3, FS_Subset DEF AwakeCores
<1>8. Cardinality(Cores \ Idle) <= Cardinality(AwakeCores)
  BY <1>6, <1>7, FS_Subset
<1> QED
  BY <1>2, <1>5, <1>8 DEF Awake

(* When message_count is not above Awake, it is not a wrapped number.      *)
LEMMA NotBelowZero ==
  ASSUME IInv, Shape, CountExact, message_count <= Awake
  PROVE  message_count = Load - Cardinality(Uncounted)
<1>1. TypeOK /\ SendBound /\ SleepShape
  BY DEF IInv, Shape
<1>2. Bounded /\ Awake \in Nat /\ Awake <= CoreCount /\ CoreCount \in Nat
  BY <1>1, OwedBounds, AwakeBound, CoreAssumption
<1>3. Owed = Load - Cardinality(Uncounted)
  BY <1>1, OwedIs DEF LoadIs
<1>4. message_count = IF Owed < 0 THEN Owed + Wrap ELSE Owed
  BY DEF CountExact, Owed
<1>5. Owed \in Int /\ Wrap \in Nat /\ CoreCount < Owed + Wrap
  BY <1>2, BoundAssumption DEF Bounded
<1>6. message_count = Owed
  BY <1>2, <1>4, <1>5
<1> QED
  BY <1>3, <1>6

LEMMA FallAsleepAwoken ==
  ASSUME IInv, IInv', Shape, Shape', FifoInv, CountExact, NEW c \in Cores, FallAsleep(c)
  PROVE  Awoken'
<1>1. TypeOK /\ TypeOK' /\ SendBound /\ SleepShape /\ SendBound'
  BY DEF IInv, Shape
<1>2. /\ pc[c] = "recheck" /\ pc' = [pc EXCEPT ![c] = "sleep"] /\ message_count < Awake
      /\ waiters' = waiters /\ UNCHANGED <<queues, messages, future_messages, message_count>>
  BY DEF FallAsleep, MaySleep, Go
<1>3. AwakeCores' = AwakeCores \ {c} /\ c \in AwakeCores /\ Senders' = Senders
  BY <1>1, <1>2, PcTypes DEF AwakeCores, Senders, SleepShape
<1>4. Load' = Load
  <2>1. Unmoved
    BY <1>1, <1>2, PcTypes, UnmovedMove DEF SendPcs, Shape
  <2> QED
    BY <2>1 DEF Unmoved, Load
<1>5. /\ IsFiniteSet(AwakeCores) /\ Cardinality(AwakeCores) \in Nat /\ Load \in Nat
      /\ IsFiniteSet(Senders) /\ Cardinality(Senders) \in Nat /\ Cardinality(Uncounted) \in Nat
  BY <1>1, Numbers
<1>6. Cardinality(AwakeCores') = Cardinality(AwakeCores) - 1
  BY <1>3, <1>5, FS_RemoveElement
<1>7. Cardinality(Uncounted) <= Cardinality(Senders)
  <2>1. Uncounted \subseteq Senders
    BY DEF Uncounted, Senders
  <2> QED
    BY <1>5, <2>1, FS_Subset
<1>8. Awake \in Nat /\ Awake <= Cardinality(AwakeCores) /\ message_count \in Nat
  BY <1>1, AwakeBound, BoundAssumption DEF TypeOK
<1>9. message_count = Load - Cardinality(Uncounted)
  BY <1>2, <1>8, NotBelowZero
<1>10. Cardinality(AwakeCores') + Cardinality(Senders) >= Load
  BY <1>2, <1>5, <1>6, <1>7, <1>8, <1>9
<1> QED
  BY <1>3, <1>4, <1>10 DEF Awoken

LEMMA NotifyAwoken ==
  ASSUME IInv, IInv', Placed, FifoInv, Shape, Shape', CountExact, Down, Awoken,
         NEW t \in Threads, Notify(t)
  PROVE  Awoken'
<1>1. TypeOK /\ TypeOK' /\ SendBound /\ SleepShape /\ SendBound'
  BY DEF IInv, Shape
<1>2. /\ pc[t] = "notify" /\ pc' = [pc EXCEPT ![t] = IF t = Main THEN "main" ELSE "run"]
      /\ idle_lock = NoOne
      /\ IF message_count > Awake /\ waiters # {}
         THEN \E w \in waiters : waiters' = waiters \ {w}
         ELSE waiters' = waiters
  BY DEF Notify, MustWake, Go
<1>3. Senders' = Senders \ {t} /\ t \in Senders
  BY <1>1, <1>2, PcTypes DEF Senders
<1>4. \A c \in Cores : pc'[c] \in {"sleep", "exited"} <=> pc[c] \in {"sleep", "exited"}
  BY <1>1, <1>2, PcTypes
<1>5. Load' = Load
  <2>1. Unmoved
    BY <1>1, NotifyUnmoved DEF Shape
  <2> QED
    BY <2>1 DEF Unmoved, Load
<1>6. /\ IsFiniteSet(AwakeCores) /\ Cardinality(AwakeCores) \in Nat /\ Load \in Nat
      /\ IsFiniteSet(Senders) /\ Cardinality(Senders) \in Nat /\ Cardinality(Uncounted) \in Nat
  BY <1>1, Numbers
<1>7. Cardinality(Senders') = Cardinality(Senders) - 1
  BY <1>3, <1>6, FS_RemoveElement
<1>8. Awake \in Nat /\ Awake <= Cardinality(AwakeCores) /\ message_count \in Nat
  BY <1>1, AwakeBound, BoundAssumption DEF TypeOK
<1>9. CASE message_count > Awake /\ waiters # {}
  <2>1. PICK w \in waiters : waiters' = waiters \ {w}
    BY <1>2, <1>9
  <2>2. w \in Cores /\ pc[w] = "wait" /\ w \notin AwakeCores
    BY <1>1, <2>1 DEF TypeOK, SleepShape, AwakeCores
  <2>3. AwakeCores' = AwakeCores \cup {w}
    BY <1>4, <2>1, <2>2 DEF AwakeCores
  <2>4. Cardinality(AwakeCores') = Cardinality(AwakeCores) + 1
    BY <1>6, <2>2, <2>3, FS_AddElement
  <2>5. Cardinality(AwakeCores) + Cardinality(Senders) >= Load
    BY <2>2 DEF Awoken
  <2>6. Cardinality(AwakeCores') + Cardinality(Senders') >= Load
    BY <1>6, <1>7, <2>4, <2>5
  <2> QED
    BY <1>5, <2>6 DEF Awoken
<1>10. CASE message_count > Awake /\ waiters = {}
  <2>1. \A c \in Cores : pc[c] # "sleep"
    BY <1>1, <1>2, Constants DEF SleepShape
  <2>2. \A c \in Cores : pc[c] # "exited"
    <3>1. ~(executed = Ids /\ Busy = {} /\ ready_to_exit = 1)
      BY <1>2, Quiescent DEF SendPcs
    <3> QED
      BY <3>1 DEF Down
  <2>3. AwakeCores' = Cores
    BY <1>2, <1>4, <1>10, <2>1, <2>2 DEF AwakeCores
  <2> QED
    BY <2>3 DEF Awoken
<1>11. CASE ~(message_count > Awake)
  <2>1. message_count <= Awake
    BY <1>8, <1>11
  <2>2. message_count = Load - Cardinality(Uncounted)
    BY <2>1, NotBelowZero
  <2>3. AwakeCores' = AwakeCores
    BY <1>2, <1>4, <1>11 DEF AwakeCores
  <2>4. Cardinality(Uncounted) <= Cardinality(Senders')
    <3>1. Uncounted \subseteq Senders'
      BY <1>2, <1>3 DEF Uncounted, Senders
    <3>2. IsFiniteSet(Senders')
      BY <1>1, NumbersNext
    <3> QED
      BY <3>1, <3>2, FS_Subset
  <2>5. Cardinality(Senders') \in Nat
    BY <1>1, NumbersNext
  <2>6. Cardinality(AwakeCores') + Cardinality(Senders') >= Load
    BY <1>6, <1>8, <2>1, <2>2, <2>3, <2>4, <2>5
  <2> QED
    BY <1>5, <2>6 DEF Awoken
<1> QED
  BY <1>9, <1>10, <1>11

(* A core that has gone home does nothing. *)
LEMMA AtWork == ASSUME NEW c \in Cores, CoreStep(c) PROVE pc[c] # "exited"
<1>1. CASE TryQueueMiss(c) \/ LeaveQueue(c) \/ ReleaseEmpty(c) \/ Uncount(c)
  BY <1>1 DEF TryQueueMiss, LeaveQueue, ReleaseEmpty, Uncount
<1>2. CASE (\E i \in Queues : TryQueueHit(c, i)) \/ LockProcess(c) \/ Pop(c) \/ Commit(c) \/ Begin(c)
  BY <1>2 DEF TryQueueHit, LockProcess, Pop, Commit, Begin
<1>3. CASE Finish(c) \/ Release(c) \/ EndScan(c) \/ Nap(c) \/ ChangeMind(c)
  BY <1>3 DEF Finish, Release, EndScan, Nap, ChangeMind
<1>4. CASE GoHome(c) \/ FallAsleep(c) \/ Wait(c) \/ Wake(c)
  BY <1>4 DEF GoHome, FallAsleep, Wait, Wake
<1> QED
  BY <1>1, <1>2, <1>3, <1>4 DEF CoreStep

(* No other step sends a core to sleep or takes a sender away. *)
LEMMA OthersAwake ==
  ASSUME IInv, Shape, [Next]_vars,
         \A c \in Cores : ~FallAsleep(c) /\ ~GoHome(c), \A t \in Threads : ~Notify(t)
  PROVE  AwakeCores \subseteq AwakeCores' /\ Senders \subseteq Senders'
<1>1. TypeOK /\ pc \in [Threads -> AllPcs] /\ Cores \subseteq Threads /\ Main \in Threads /\ Main \notin Cores
  BY PcTypes DEF IInv
<1>2. ASSUME NEW t \in Threads, NEW l, l \notin {"sleep", "exited"}, pc[t] \notin {"count", "notify"},
             pc' = [pc EXCEPT ![t] = l], waiters' \subseteq waiters
      PROVE  AwakeCores \subseteq AwakeCores' /\ Senders \subseteq Senders'
  BY <1>1, <1>2 DEF AwakeCores, Senders
<1>3. ASSUME NEW c \in Cores, CoreStep(c)
      PROVE  AwakeCores \subseteq AwakeCores' /\ Senders \subseteq Senders'
  <2>1. c \in Threads /\ pc[c] \notin {"count", "notify"}
    BY <1>1, <1>3, CorePlaces DEF CorePcs
  <2>2. PICK l : pc' = [pc EXCEPT ![c] = l] /\ l # "exited"
    <3>1. PICK l : pc' = [pc EXCEPT ![c] = l]
      BY <1>3, CorePlaces
    <3>2. pc'[c] # "exited"
      BY <1>3, AtWork, Exits
    <3> QED
      BY <1>1, <3>1, <3>2
  <2>3. CASE Wait(c)
    <3>1. pc[c] = "sleep" /\ waiters' = waiters \cup {c} /\ pc' = [pc EXCEPT ![c] = "wait"]
      BY <2>3 DEF Wait, Go
    <3> QED
      BY <1>1, <2>1, <3>1 DEF AwakeCores, Senders
  <2>4. CASE ~Wait(c)
    <3>1. waiters' \subseteq waiters
      BY <1>3, <2>4 DEF CoreStep, TryQueueMiss, TryQueueHit, LeaveQueue, LockProcess, Pop, Commit,
         Begin, Finish, Release, ReleaseEmpty, Uncount, EndScan, Nap, ChangeMind, GoHome,
         FallAsleep, Wake, WakeEveryone
    <3>2. l # "sleep"
      <4>1. CASE TryQueueMiss(c) \/ LeaveQueue(c) \/ ReleaseEmpty(c) \/ Uncount(c)
        BY <1>1, <2>1, <2>2, <4>1 DEF TryQueueMiss, LeaveQueue, ReleaseEmpty, Uncount, NextQueue, Go
      <4>2. CASE (\E i \in Queues : TryQueueHit(c, i)) \/ LockProcess(c) \/ Pop(c) \/ Commit(c) \/ Begin(c)
        BY <1>1, <2>1, <2>2, <4>2 DEF TryQueueHit, LockProcess, Pop, Commit, Begin, Go
      <4>3. CASE Finish(c) \/ Release(c) \/ EndScan(c) \/ Nap(c) \/ ChangeMind(c)
        BY <1>1, <2>1, <2>2, <4>3 DEF Finish, Release, EndScan, Nap, ChangeMind, Again, Go
      <4>4. CASE GoHome(c) \/ Wake(c)
        BY <1>1, <2>1, <2>2, <4>4 DEF GoHome, Wake, Again, Go
      <4> QED
        BY <1>3, <2>4, <4>1, <4>2, <4>3, <4>4 DEF CoreStep
    <3> QED
      BY <1>2, <2>1, <2>2, <3>1, <3>2
  <2> QED
    BY <2>3, <2>4
<1>4. ASSUME NEW t \in Threads, Push(t)
      PROVE  AwakeCores \subseteq AwakeCores' /\ Senders \subseteq Senders'
  BY <1>2, <1>4 DEF Push, Go
<1>5. ASSUME NEW t \in Threads, Count(t)
      PROVE  AwakeCores \subseteq AwakeCores' /\ Senders \subseteq Senders'
  <2>1. pc' = [pc EXCEPT ![t] = "notify"] /\ waiters' = waiters /\ pc[t] = "count"
    BY <1>5 DEF Count, Go
  <2> QED
    BY <1>1, <2>1 DEF AwakeCores, Senders
<1>6. ASSUME NEW t \in Threads, NEW p \in Procs, NEW b \in BOOLEAN, StartSend(t, p, b)
      PROVE  AwakeCores \subseteq AwakeCores' /\ Senders \subseteq Senders'
  BY <1>2, <1>6 DEF StartSend, Go
<1>7. CASE Shutdown
  <2>1. /\ waiters' \subseteq waiters /\ pc[Main] \notin {"count", "notify"}
        /\ \E l \in {"stored", "join", "done"} : pc' = [pc EXCEPT ![Main] = l]
    BY <1>7 DEF Shutdown, StoreReady, NotifyAll, Join, Go, WakeEveryone
  <2> QED
    BY <1>1, <1>2, <2>1
<1>8. CASE (\E d \in Cores : SpuriousWakeup(d)) \/ (\E m \in later : Expire(m)) \/ UNCHANGED vars
  BY <1>8 DEF SpuriousWakeup, Expire, vars, AwakeCores, Senders
<1> QED
  BY <1>3, <1>4, <1>5, <1>6, <1>7, <1>8 DEF Next, SendMessage

(* Once a core has gone home there is no load at all. *)
LEMMA GoneHome ==
  IInv /\ Placed /\ Shape /\ CountExact /\ Down /\ (\E c \in Cores : pc[c] = "exited") => NoLoad
<1> SUFFICES ASSUME IInv, Placed, Shape, CountExact, Down, \E c \in Cores : pc[c] = "exited"
             PROVE  NoLoad
  OBVIOUS
<1>1. Busy = {} /\ Pending = {}
  BY Quiescent DEF Down
<1>2. Cardinality(Busy) = 0 /\ Cardinality(Pending) = 0
  BY <1>1, FS_EmptySet
<1> QED
  BY <1>2 DEF NoLoad, Load

(* The load grows with a push, which makes one more sender. *)
LEMMA LoadNext ==
  ASSUME IInv, IInv', Placed, FifoInv, Shape, Shape', [Next]_vars
  PROVE  \/ Load' <= Load
         \/ \E t \in Threads : t \notin Senders /\ t \in Senders' /\ Load' = Load + 1
<1>1. TypeOK /\ TypeOK' /\ SendBound /\ SendBound' /\ EmptyElsewhere
  BY DEF IInv, Shape
<1>2. Load \in Nat /\ Cardinality(Uncounted) \in Nat /\ Owed = Load - Cardinality(Uncounted)
  BY <1>1, OwedIs DEF LoadIs
<1>3. Load' \in Nat /\ Owed' = Load' - Cardinality(Uncounted')
  <2>1. LoadIs'
    BY <1>1, OwedIs, PTL
  <2> QED
    BY <2>1 DEF LoadIs
<1>4. ASSUME NEW c \in Cores, Commit(c) PROVE Load' <= Load
  <2>1. Settled(c) \in Nat /\ Owed' = Owed - Settled(c) /\ Uncounted' = Uncounted
    BY <1>1, <1>4, CommitOwes
  <2>2. Cardinality(Uncounted') = Cardinality(Uncounted)
    BY <2>1
  <2> QED
    BY <1>2, <1>3, <2>1, <2>2
<1>5. ASSUME NEW c \in Cores, Uncount(c) PROVE Load' <= Load
  <2>1. Owed' = Owed - 1 /\ Uncounted' = Uncounted
    BY <1>1, <1>5, UncountOwes
  <2>2. Cardinality(Uncounted') = Cardinality(Uncounted)
    BY <2>1
  <2> QED
    BY <1>2, <1>3, <2>1, <2>2
<1>6. ASSUME NEW t \in Threads, Push(t)
      PROVE  t \notin Senders /\ t \in Senders' /\ Load' = Load + 1
  <2>1. Cardinality(Pending') = Cardinality(Pending) + 1 /\ Busy' = Busy
    BY <1>1, <1>6, PushOwes
  <2>2. Cardinality(Pending) \in Nat /\ Cardinality(Busy) \in Nat
    BY <1>1, Counted
  <2>3. Cardinality(Busy') = Cardinality(Busy)
    BY <2>1
  <2>4. Load' = Load + 1
    BY <2>1, <2>2, <2>3 DEF Load
  <2>5. pc[t] = "push" /\ pc' = [pc EXCEPT ![t] = "count"]
    BY <1>6 DEF Push, Go
  <2> QED
    BY <1>1, <2>4, <2>5, PcTypes DEF Senders
<1>7. ASSUME NEW t \in Threads, Count(t) PROVE Load' <= Load
  <2>1. Pending' = Pending /\ Busy' = Busy
    BY <1>1, <1>7, CountOwes
  <2>2. Load' = Load
    BY <2>1 DEF Load
  <2> QED
    BY <1>2, <2>2
<1>8. CASE Unmoved
  <2>1. Load' = Load
    BY <1>8 DEF Unmoved, Load
  <2> QED
    BY <1>2, <2>1
<1> QED
  BY <1>1, <1>4, <1>5, <1>6, <1>7, <1>8, Changes

LEMMA AwokenNext ==
  IInv /\ Placed /\ FifoInv /\ Shape /\ CountExact /\ Down /\ Awoken /\ IInv' /\ Placed' /\ Shape'
    /\ CountExact' /\ Down' /\ [Next]_vars => Awoken'
<1> SUFFICES ASSUME IInv, Placed, FifoInv, Shape, CountExact, Down, Awoken,
                    IInv', Placed', Shape', CountExact', Down', [Next]_vars
             PROVE  Awoken'
  OBVIOUS
<1>1. TypeOK /\ TypeOK' /\ SendBound /\ SendBound'
  BY DEF IInv, Shape
<1>2. /\ IsFiniteSet(AwakeCores) /\ Cardinality(AwakeCores) \in Nat
      /\ IsFiniteSet(Senders) /\ Cardinality(Senders) \in Nat /\ Load \in Nat
      /\ IsFiniteSet(AwakeCores') /\ Cardinality(AwakeCores') \in Nat
      /\ IsFiniteSet(Senders') /\ Cardinality(Senders') \in Nat
  BY <1>1, Numbers, NumbersNext
<1>3. Load' \in Nat
  <2>1. LoadIs'
    BY <1>1, OwedIs, PTL
  <2> QED
    BY <2>1 DEF LoadIs
<1>4. CASE \E c \in Cores : pc'[c] = "exited"
  <2>1. (\E c \in Cores : pc[c] = "exited")'
    BY <1>4
  <2>2. NoLoad'
    BY <2>1, GoneHome, PTL
  <2>3. Cardinality(AwakeCores') + Cardinality(Senders') >= Load'
    BY <1>2, <2>2 DEF NoLoad
  <2> QED
    BY <2>3 DEF Awoken
<1>5. CASE \E c \in Cores : FallAsleep(c)
  BY <1>5, FallAsleepAwoken
<1>6. CASE \E t \in Threads : Notify(t)
  BY <1>6, NotifyAwoken
<1>7. CASE /\ \A c \in Cores : ~FallAsleep(c) /\ pc'[c] # "exited"
           /\ \A t \in Threads : ~Notify(t)
  <2>1. AwakeCores \subseteq AwakeCores' /\ Senders \subseteq Senders'
    BY <1>7, OthersAwake, PcTypes DEF GoHome, Go, IInv
  <2>2. Cardinality(AwakeCores) <= Cardinality(AwakeCores') /\ Cardinality(Senders) <= Cardinality(Senders')
    BY <1>2, <2>1, FS_Subset
  <2>3. CASE AwakeCores = Cores
    <3>1. AwakeCores' = Cores
      BY <2>1, <2>3 DEF AwakeCores
    <3> QED
      BY <3>1 DEF Awoken
  <2>4. CASE Cardinality(AwakeCores) + Cardinality(Senders) >= Load /\ Load' <= Load
    <3>1. Cardinality(AwakeCores') + Cardinality(Senders') >= Load'
      BY <1>2, <1>3, <2>2, <2>4
    <3> QED
      BY <3>1 DEF Awoken
  <2>5. CASE /\ Cardinality(AwakeCores) + Cardinality(Senders) >= Load
             /\ \E t \in Threads : t \notin Senders /\ t \in Senders' /\ Load' = Load + 1
    <3>1. PICK t \in Threads : t \notin Senders /\ t \in Senders' /\ Load' = Load + 1
      BY <2>5
    <3>2. Senders \cup {t} \subseteq Senders'
      BY <2>1, <3>1
    <3>3. IsFiniteSet(Senders \cup {t}) /\ Cardinality(Senders \cup {t}) = Cardinality(Senders) + 1
      BY <1>2, <3>1, FS_AddElement
    <3>4. Cardinality(Senders) + 1 <= Cardinality(Senders')
      <4>1. Cardinality(Senders \cup {t}) <= Cardinality(Senders')
        BY <1>2, <3>2, FS_Subset
      <4> QED
        BY <3>3, <4>1
    <3>5. Cardinality(AwakeCores') + Cardinality(Senders') >= Load'
      BY <1>2, <1>3, <2>2, <2>5, <3>1, <3>4
    <3> QED
      BY <3>5 DEF Awoken
  <2> QED
    BY <2>3, <2>4, <2>5, LoadNext DEF Awoken
<1> QED
  BY <1>4, <1>5, <1>6, <1>7

LEMMA AwokenInit == Init => Awoken
  BY Constants DEF Init, Awoken, AwakeCores

LEMMA AlwaysAwoken == Spec => []Awoken
<1> QED
  BY AlwaysCounted, AlwaysDown, AwokenInit, AwokenNext, PTL DEF Spec

(* The sleep rule: when no sender is between its push and its look at the  *)
(* counters, at least as many cores are awake as there are messages        *)
(* waiting and cores at work, or all cores are.  A core decides to sleep   *)
(* and a sender whether to wake one on counters that the other is changing *)
(* meanwhile, and no message is left to a core that nobody wakes.          *)
THEOREM SleepRule == Spec => []EnoughAwake
<1>1. IInv /\ Shape /\ Awoken => EnoughAwake
  <2> SUFFICES ASSUME IInv, Shape, Awoken, \A t \in Threads : pc[t] \notin {"count", "notify"}
               PROVE  AwakeCores = Cores \/ Cardinality(AwakeCores) >= Load
    BY DEF EnoughAwake, Load
  <2>1. Senders = {}
    BY DEF Senders
  <2>2. Cardinality(Senders) = 0
    BY <2>1, FS_EmptySet
  <2>3. Cardinality(AwakeCores) \in Nat /\ Load \in Nat
    BY Numbers DEF IInv, Shape
  <2> QED
    BY <2>2, <2>3 DEF Awoken
<1> QED
  BY AlwaysCounted, AlwaysAwoken, <1>1, PTL

-----------------------------------------------------------------------------
(* Nobody is left to sleep.  The core that is between its test and its     *)
(* wait when Shutdown calls notify_all is not told, but then another core  *)
(* is awake: it was not the last to fall asleep, or notify_all woke the    *)
(* rest, of which none had gone home.                                      *)
ShuttingDown == pc[Main] \in {"join", "done"}
Falling == \E c \in Cores : pc[c] = "sleep"
AllGone == \A c \in Cores : pc[c] = "exited"
NoneGone == \A c \in Cores : pc[c] # "exited"

Roused ==
  /\ Falling => AwakeCores # {} \/ (NoneGone /\ ~ShuttingDown)
  /\ ShuttingDown => AwakeCores # {} \/ Falling \/ AllGone

(* What only the going to sleep, the waking and Shutdown change. *)
Framed ==
  /\ idle_lock' = idle_lock
  /\ \A c \in Cores : pc[c] = "exited" => pc'[c] = "exited"
  /\ ShuttingDown' => ShuttingDown

LEMMA RestFrame ==
  ASSUME IInv, [Next]_vars, \A c \in Cores : ~FallAsleep(c) /\ ~Wait(c), ~NotifyAll
  PROVE  Framed
<1>1. TypeOK /\ pc \in [Threads -> AllPcs] /\ Cores \subseteq Threads /\ Main \in Threads /\ Main \notin Cores
  BY PcTypes DEF IInv
<1>2. ASSUME NEW c \in Cores, CoreStep(c) PROVE Framed
  <2>1. PICK l \in CorePcs : pc' = [pc EXCEPT ![c] = l]
    BY <1>2, CorePlaces
  <2>2. idle_lock' = idle_lock
    <3>1. CASE TryQueueMiss(c) \/ LeaveQueue(c) \/ ReleaseEmpty(c) \/ Uncount(c)
      BY <3>1 DEF TryQueueMiss, LeaveQueue, ReleaseEmpty, Uncount
    <3>2. CASE (\E i \in Queues : TryQueueHit(c, i)) \/ LockProcess(c) \/ Pop(c) \/ Commit(c) \/ Begin(c)
      BY <3>2 DEF TryQueueHit, LockProcess, Pop, Commit, Begin
    <3>3. CASE Finish(c) \/ Release(c) \/ EndScan(c) \/ Nap(c) \/ ChangeMind(c)
      BY <3>3 DEF Finish, Release, EndScan, Nap, ChangeMind
    <3>4. CASE GoHome(c) \/ Wake(c)
      BY <3>4 DEF GoHome, Wake
    <3> QED
      BY <1>2, <3>1, <3>2, <3>3, <3>4 DEF CoreStep
  <2>3. pc'[Main] = pc[Main] /\ \A d \in Cores : d # c => pc'[d] = pc[d]
    BY <1>1, <2>1
  <2>4. pc[c] # "exited"
    BY <1>2, AtWork
  <2> QED
    BY <2>2, <2>3, <2>4 DEF Framed, ShuttingDown
<1>3. ASSUME NEW t \in Threads, SendMessage(t) PROVE Framed
  <2>1. /\ idle_lock' = idle_lock /\ pc[t] \in SendPcs
        /\ \E l \in {"count", "notify", "main", "run"} : pc' = [pc EXCEPT ![t] = l]
    BY <1>3 DEF SendMessage, Push, Count, Notify, Go, SendPcs
  <2> QED
    BY <1>1, <2>1 DEF Framed, SendPcs, ShuttingDown
<1>4. ASSUME NEW t \in Threads, NEW p \in Procs, NEW b \in BOOLEAN, StartSend(t, p, b) PROVE Framed
  <2>1. idle_lock' = idle_lock /\ pc[t] \in {"run", "main"} /\ pc' = [pc EXCEPT ![t] = "push"]
    BY <1>4 DEF StartSend, Go
  <2> QED
    BY <1>1, <2>1 DEF Framed, ShuttingDown
<1>5. CASE StoreReady \/ Join
  <2>1. /\ idle_lock' = idle_lock
        /\ \/ pc' = [pc EXCEPT ![Main] = "stored"]
           \/ pc[Main] = "join" /\ pc' = [pc EXCEPT ![Main] = "done"]
    BY <1>5 DEF StoreReady, Join, Go
  <2> QED
    BY <1>1, <2>1 DEF Framed, ShuttingDown
<1>6. CASE (\E d \in Cores : SpuriousWakeup(d)) \/ (\E m \in later : Expire(m)) \/ UNCHANGED vars
  BY <1>6 DEF SpuriousWakeup, Expire, vars, Framed, ShuttingDown
<1>7. CASE Shutdown
  BY <1>5, <1>7 DEF Shutdown
<1> QED
  BY <1>2, <1>3, <1>4, <1>6, <1>7 DEF Next

(* Only one core at a time is between its test and its wait. *)
LEMMA OneFalling ==
  ASSUME SleepShape, NEW c \in Cores, NEW d \in Cores, pc[c] = "sleep", d # c
  PROVE  pc[d] # "sleep"
  BY DEF SleepShape

LEMMA TwoCores == ASSUME NEW c \in Cores PROVE \E d \in Cores : d # c
<1>1. CASE c = 1
  <2>1. 2 \in Cores
    BY CoreAssumption DEF Cores
  <2> QED
    BY <1>1, <2>1
<1>2. CASE c # 1
  <2>1. 1 \in Cores
    BY CoreAssumption DEF Cores
  <2> QED
    BY <1>2, <2>1
<1> QED
  BY <1>1, <1>2

LEMMA FallRoused ==
  ASSUME IInv, IInv', Shape, Down, Roused, NEW c \in Cores, FallAsleep(c) PROVE Roused'
<1>1. TypeOK /\ pc \in [Threads -> AllPcs] /\ Cores \subseteq Threads /\ Main \notin Cores
  BY PcTypes DEF IInv
<1>2. /\ pc[c] = "recheck" /\ pc' = [pc EXCEPT ![c] = "sleep"] /\ waiters' = waiters
      /\ ready_to_exit \in {0, 1} /\ idle_count' = idle_count + 1
      /\ idle_count + 1 # CoreCount \/ ready_to_exit # 1
  BY <1>1 DEF FallAsleep, Go, TypeOK
<1>3. pc'[c] = "sleep" /\ pc'[Main] = pc[Main] /\ \A d \in Cores : d # c => pc'[d] = pc[d]
  BY <1>1, <1>2
<1>4. Falling'
  BY <1>3 DEF Falling
<1>5. CASE ready_to_exit # 1
  <2>1. NoneGone /\ ~ShuttingDown
    BY <1>5 DEF Down, NoneGone, Shape, ReadyShape, ShuttingDown
  <2>2. NoneGone' /\ ~ShuttingDown'
    BY <1>3, <2>1 DEF NoneGone, ShuttingDown
  <2> QED
    BY <1>4, <2>2 DEF Roused
<1>6. CASE idle_count + 1 # CoreCount
  <2>1. PICK d \in Cores : d \notin Idle'
    <3>1. Idle' \subseteq Cores
      BY DEF Idle
    <3>2. Cardinality(Idle') = idle_count + 1
      BY <1>2 DEF IInv, IdleExact
    <3>3. Cardinality(Cores) = CoreCount
      BY FirstNumbers, CoreAssumption DEF Cores
    <3>4. Idle' # Cores
      BY <1>6, <3>2, <3>3
    <3> QED
      BY <3>1, <3>4
  <2>2. pc'[d] \notin IdlePcs
    BY <2>1 DEF Idle
  <2>3. d \in AwakeCores'
    <3>1. d # c /\ pc[d] \notin IdlePcs
      BY <1>3, <2>2 DEF IdlePcs
    <3>2. d \notin waiters'
      BY <1>2, <3>1 DEF Shape, SleepShape, IdlePcs
    <3> QED
      BY <2>2, <3>2 DEF AwakeCores, IdlePcs
  <2> QED
    BY <1>4, <2>3 DEF Roused
<1> QED
  BY <1>2, <1>5, <1>6

LEMMA WaitRoused ==
  ASSUME IInv, Shape, Shape', Roused, NEW c \in Cores, Wait(c) PROVE Roused'
<1>1. TypeOK /\ pc \in [Threads -> AllPcs] /\ Cores \subseteq Threads /\ Main \notin Cores
  BY PcTypes DEF IInv
<1>2. /\ pc[c] = "sleep" /\ pc' = [pc EXCEPT ![c] = "wait"]
      /\ waiters' = waiters \cup {c} /\ idle_lock' = NoOne
  BY DEF Wait, Go
<1>3. ~Falling'
  BY <1>2, Constants DEF Falling, Shape, SleepShape
<1>4. Falling
  BY <1>2 DEF Falling
<1>5. AwakeCores \subseteq AwakeCores'
  BY <1>1, <1>2 DEF AwakeCores
<1>6. ShuttingDown' => ShuttingDown
  BY <1>1, <1>2 DEF ShuttingDown
<1> QED
  BY <1>3, <1>4, <1>5, <1>6 DEF Roused

LEMMA HomeRoused ==
  ASSUME IInv, Shape, Shape', Roused, NEW c \in Cores, GoHome(c) PROVE Roused'
<1>1. waiters' = {} /\ idle_lock' = NoOne
  BY DEF GoHome, WakeEveryone
<1>2. ~Falling'
  BY <1>1, Constants DEF Falling, Shape, SleepShape
<1>3. AwakeCores' # {} \/ AllGone'
  BY <1>1, <1>2 DEF AwakeCores, Falling, AllGone
<1> QED
  BY <1>2, <1>3 DEF Roused

LEMMA NotifyAllRoused ==
  ASSUME IInv, Shape, Roused, NotifyAll PROVE Roused'
<1>1. TypeOK /\ pc \in [Threads -> AllPcs] /\ Cores \subseteq Threads /\ Main \notin Cores
  BY PcTypes DEF IInv
<1>2. waiters' = {} /\ pc' = [pc EXCEPT ![Main] = "join"]
  BY DEF NotifyAll, WakeEveryone, Go
<1>3. \A d \in Cores : pc'[d] = pc[d]
  BY <1>1, <1>2
<1>4. AwakeCores' # {} \/ Falling' \/ AllGone'
  BY <1>2 DEF AwakeCores, Falling, AllGone
<1>5. ASSUME Falling' PROVE AwakeCores' # {}
  <2>1. PICK c \in Cores : pc[c] = "sleep"
    BY <1>3, <1>5 DEF Falling
  <2>2. CASE AwakeCores # {}
    BY <1>2, <1>3, <2>2 DEF AwakeCores
  <2>3. CASE NoneGone
    <3>1. PICK d \in Cores : d # c
      BY TwoCores
    <3>2. pc[d] \notin {"sleep", "exited"}
      BY <2>1, <2>3, <3>1, OneFalling DEF NoneGone, Shape
    <3> QED
      BY <1>2, <1>3, <3>2 DEF AwakeCores
  <2>4. Falling
    BY <2>1 DEF Falling
  <2> QED
    BY <2>2, <2>3, <2>4 DEF Roused
<1> QED
  BY <1>4, <1>5 DEF Roused

LEMMA NotifyAwake == ASSUME IInv, NEW t \in Threads, Notify(t) PROVE AwakeCores \subseteq AwakeCores'
<1>1. pc \in [Threads -> AllPcs] /\ Cores \subseteq Threads
  BY PcTypes DEF IInv
<1>2. /\ waiters' \subseteq waiters
      /\ \E l \in {"main", "run"} : pc' = [pc EXCEPT ![t] = l]
  BY DEF Notify, Go
<1> QED
  BY <1>1, <1>2 DEF AwakeCores

LEMMA RousedNext ==
  IInv /\ IInv' /\ Shape /\ Shape' /\ Down /\ Roused /\ [Next]_vars => Roused'
<1> SUFFICES ASSUME IInv, IInv', Shape, Shape', Down, Roused, [Next]_vars PROVE Roused'
  OBVIOUS
<1>1. CASE \E c \in Cores : FallAsleep(c) \/ Wait(c) \/ GoHome(c)
  BY <1>1, FallRoused, WaitRoused, HomeRoused
<1>2. CASE NotifyAll
  BY <1>2, NotifyAllRoused
<1>3. CASE ~NotifyAll /\ \A c \in Cores : ~FallAsleep(c) /\ ~Wait(c) /\ ~GoHome(c)
  <2>1. /\ idle_lock' = idle_lock
        /\ \A c \in Cores : pc[c] = "exited" => pc'[c] = "exited"
        /\ ShuttingDown' => ShuttingDown
    BY <1>3, RestFrame DEF Framed
  <2>2. \A c \in Cores : pc'[c] = "exited" => pc[c] = "exited"
    BY <1>3, Exits
  <2>3. Falling' <=> Falling
    BY <2>1 DEF Falling, Shape, SleepShape
  <2>4. (NoneGone => NoneGone') /\ (AllGone => AllGone')
    BY <2>1, <2>2 DEF NoneGone, AllGone
  <2>5. AwakeCores \subseteq AwakeCores'
    BY <1>3, OthersAwake, NotifyAwake
  <2> QED
    BY <2>1, <2>3, <2>4, <2>5 DEF Roused
<1> QED
  BY <1>1, <1>2, <1>3

LEMMA RousedInit == Init => Roused
  BY Constants DEF Init, Roused, Falling, ShuttingDown

LEMMA AlwaysRoused == Spec => []Roused
<1> QED
  BY AlwaysCounted, AlwaysDown, RousedInit, RousedNext, PTL DEF Spec

(* No message waits for a core that nobody wakes. *)
LEMMA RestingPending ==
  IInv /\ Shape /\ Awoken /\ AwakeCores = {} /\ Senders = {} => Pending = {}
<1> SUFFICES ASSUME IInv, Shape, Awoken, AwakeCores = {}, Senders = {} PROVE Pending = {}
  OBVIOUS
<1>1. Cardinality(AwakeCores) = 0 /\ Cardinality(Senders) = 0
  BY FS_EmptySet
<1>2. AwakeCores # Cores
  BY CoreAssumption DEF Cores
<1>3. /\ IsFiniteSet(Pending) /\ Cardinality(Pending) \in Nat /\ Cardinality(Busy) \in Nat
  BY Counted DEF IInv, Shape
<1>4. Cardinality(Pending) = 0
  BY <1>1, <1>2, <1>3 DEF Awoken, Load
<1> QED
  BY <1>3, <1>4, FS_EmptySet

(* No wakeup is lost, neither of a message nor of Shutdown: all cores wait *)
(* on the condition variable only when no message waits, or its sender has *)
(* not yet looked at the counters, and never after the notify_all that     *)
(* Shutdown calls without the mutex, whatever a core was about to do then. *)
THEOREM WakesArrive == Spec => []NoLostWakeup
<1>1. IInv /\ Shape /\ Awoken /\ Roused => NoLostWakeup
  <2> SUFFICES ASSUME IInv, Shape, Awoken, Roused, \A c \in Cores : Resting(c) PROVE NoLostWakeup
    BY DEF NoLostWakeup
  <2>1. AwakeCores = {}
    BY DEF AwakeCores, Resting
  <2>2. ~Falling
    BY DEF Falling, Resting, Shape, SleepShape
  <2>3. ShuttingDown => AllGone
    BY <2>1, <2>2 DEF Roused
  <2>4. Pending = {} \/ Senders # {}
    BY <2>1, RestingPending
  <2> QED
    BY <2>3, <2>4 DEF NoLostWakeup, ShuttingDown, AllGone, Senders
<1> QED
  BY AlwaysCounted, AlwaysAwoken, AlwaysRoused, <1>1, PTL
=============================================================================
