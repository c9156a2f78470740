-------------------------- MODULE RefinementProofs --------------------------
(***************************************************************************)
(* Proof that the scheduler implements the actor system: every step of a   *)
(* core, a sender or the main thread is a step of ActorSystem or leaves    *)
(* what a program can see of it alone.  And no lock is left behind.        *)
(***************************************************************************)
EXTENDS CountingProofs

(* A core that looks into a queue, or empties it, has its lock.            *)
Looking == {"queue", "grab"}
HeldWhileLooking ==
  \A c \in Cores : pc[c] \in Looking => queue_locks[QueueOf(c)] = c

(* The core read the clock after every timer it finds in the queue was     *)
(* pushed, and what it takes for a batch is due.                           *)
TimesKnown ==
  \A c \in Cores : pc[c] = "grab" => Elements(queues[QueueOf(c)]) \cap later \subseteq current_time[c]
AllDue == \A c \in Cores : Elements(messages[c]) \cap later = {}

LookInv == HeldWhileLooking /\ TimesKnown /\ AllDue

-----------------------------------------------------------------------------
USE DEF queueVars, idleVars, batchVars, historyVars

(* The steps that concern a lock of a queue, a batch or the clock, and all *)
(* the others.                                                             *)
Aside ==
  /\ UNCHANGED <<queues, queue_locks, messages, current_time, later>>
  /\ \A d \in Cores : pc'[d] \in Looking => pc'[d] = pc[d] /\ scan'[d] = scan[d]

LEMMA AsideMove ==
  ASSUME TypeOK, NEW t \in Threads, NEW l, l \notin Looking, pc' = [pc EXCEPT ![t] = l],
         \A d \in Cores : d # t => scan'[d] = scan[d],
         UNCHANGED <<queues, queue_locks, messages, current_time, later>>
  PROVE  Aside
  BY PcTypes DEF Aside

LEMMA ScanElsewhere ==
  ASSUME TypeOK, NEW c \in Cores, NextQueue(c)
  PROVE  /\ \E l \in {"scan", "end"} : pc' = [pc EXCEPT ![c] = l]
         /\ \A d \in Cores : d # c => scan'[d] = scan[d]
  BY DEF NextQueue, Go, TypeOK

LEMMA LookSteps ==
  ASSUME IInv, [Next]_vars
  PROVE  \/ \E c \in Cores : \/ \E i \in Queues : TryQueueHit(c, i)
                             \/ LeaveQueue(c) \/ LockProcess(c) \/ Pop(c) \/ Commit(c) \/ Finish(c)
         \/ \E t \in Threads : Push(t)
         \/ \E m \in later : Expire(m)
         \/ Aside
<1>1. TypeOK /\ Cores \subseteq Threads /\ Main \in Threads /\ Main \notin Cores
  BY PcTypes DEF IInv
<1>2. ASSUME NEW c \in Cores,
             \/ TryQueueMiss(c) \/ Begin(c) \/ Release(c) \/ ReleaseEmpty(c) \/ Uncount(c)
             \/ EndScan(c) \/ Nap(c) \/ ChangeMind(c) \/ GoHome(c)
             \/ FallAsleep(c) \/ Wait(c) \/ Wake(c)
      PROVE  Aside
  <2>1. CASE TryQueueMiss(c) \/ ReleaseEmpty(c) \/ Uncount(c)
    <3>1. UNCHANGED <<queues, queue_locks, messages, current_time, later>> /\ NextQueue(c)
      BY <2>1 DEF TryQueueMiss, ReleaseEmpty, Uncount
    <3> QED
      BY <1>1, <3>1, ScanElsewhere, AsideMove DEF Looking
  <2>2. CASE Begin(c) \/ Release(c)
    <3>1. /\ UNCHANGED <<queues, queue_locks, messages, current_time, later, scan>>
          /\ \E l \in {"run", "uncount"} : pc' = [pc EXCEPT ![c] = l]
      BY <2>2 DEF Begin, Release, Go
    <3> QED
      BY <1>1, <3>1, AsideMove DEF Looking
  <2>3. CASE EndScan(c) \/ Nap(c) \/ ChangeMind(c) \/ GoHome(c) \/ FallAsleep(c) \/ Wait(c) \/ Wake(c)
    <3>1. /\ UNCHANGED <<queues, queue_locks, messages, current_time, later, scan>>
          /\ \E l \in {"scan", "nap", "recheck", "sleep", "wait", "exited"} : pc' = [pc EXCEPT ![c] = l]
      BY <2>3 DEF EndScan, Nap, ChangeMind, GoHome, FallAsleep, Wait, Wake, Again, Go
    <3> QED
      BY <1>1, <3>1, AsideMove DEF Looking
  <2> QED
    BY <1>2, <2>1, <2>2, <2>3
<1>3. ASSUME NEW t \in Threads, Count(t) \/ Notify(t) PROVE Aside
  <2>1. /\ UNCHANGED <<queues, queue_locks, messages, current_time, later, scan>>
        /\ \E l \in {"notify", "main", "run"} : pc' = [pc EXCEPT ![t] = l]
    BY <1>3 DEF Count, Notify, Go
  <2> QED
    BY <1>1, <2>1, AsideMove DEF Looking
<1>4. ASSUME NEW t \in Threads, NEW p \in Procs, NEW b \in BOOLEAN, StartSend(t, p, b)
      PROVE  Aside
  <2>1. /\ UNCHANGED <<queues, queue_locks, messages, current_time, later, scan>>
        /\ pc' = [pc EXCEPT ![t] = "push"]
    BY <1>4 DEF StartSend, Go
  <2> QED
    BY <1>1, <2>1, AsideMove DEF Looking
<1>5. CASE Shutdown
  <2>1. /\ UNCHANGED <<queues, queue_locks, messages, current_time, later, scan>>
        /\ \E l \in {"stored", "join", "done"} : pc' = [pc EXCEPT ![Main] = l]
    BY <1>5 DEF Shutdown, StoreReady, NotifyAll, Join, Go
  <2> QED
    BY <1>1, <2>1, AsideMove DEF Looking
<1>6. CASE (\E c \in Cores : SpuriousWakeup(c)) \/ UNCHANGED vars
  BY <1>6 DEF SpuriousWakeup, vars, Aside
<1> QED
  BY <1>2, <1>3, <1>4, <1>5, <1>6 DEF Next, CoreStep, SendMessage

-----------------------------------------------------------------------------
LEMMA AsideLook == ASSUME LookInv, Aside PROVE LookInv'
<1>1. HeldWhileLooking'
  BY DEF LookInv, HeldWhileLooking, Aside, QueueOf, Looking
<1>2. TimesKnown'
  BY DEF LookInv, TimesKnown, Aside, QueueOf, Elements, Looking
<1>3. AllDue'
  BY DEF LookInv, AllDue, Aside, Elements
<1> QED
  BY <1>1, <1>2, <1>3 DEF LookInv

(* The lock of a queue does not change for a core that looks into it. *)
LEMMA LockKept ==
  ASSUME TypeOK, HeldWhileLooking, NEW i \in Queues, NEW v, queue_locks' = [queue_locks EXCEPT ![i] = v],
         NEW d \in Cores, pc[d] \in Looking, queue_locks[i] # d
  PROVE  queue_locks'[QueueOf(d)] = d /\ QueueOf(d) # i
  BY QueueTypes DEF TypeOK, HeldWhileLooking

LEMMA HitLook ==
  ASSUME IInv, LookInv, NEW c \in Cores, NEW i \in Queues, TryQueueHit(c, i)
  PROVE  LookInv'
<1>1. TypeOK /\ HeldWhileLooking
  BY DEF IInv, LookInv
<1>2. /\ queue_locks[i] = NoOne /\ queue_locks' = [queue_locks EXCEPT ![i] = c]
      /\ pc' = [pc EXCEPT ![c] = "queue"] /\ i = QueueOf(c)
      /\ UNCHANGED <<queues, messages, current_time, later, scan>>
  BY DEF TryQueueHit, Go
<1>3. ASSUME NEW d \in Cores, pc'[d] \in Looking
      PROVE  queue_locks'[QueueOf(d)] = d
  <2>1. CASE d = c
    BY <1>1, <1>2, <2>1 DEF TypeOK
  <2>2. CASE d # c
    <3>1. pc[d] \in Looking /\ queue_locks[i] # d
      BY <1>1, <1>2, <1>3, <2>2, PcTypes, Constants
    <3> QED
      BY <1>1, <1>2, <3>1, LockKept
  <2> QED
    BY <2>1, <2>2
<1>4. HeldWhileLooking'
  BY <1>2, <1>3 DEF HeldWhileLooking, QueueOf
<1>5. TimesKnown'
  <2>1. \A d \in Cores : pc'[d] = "grab" => pc[d] = "grab"
    BY <1>1, <1>2, PcTypes
  <2> QED
    BY <1>2, <2>1 DEF LookInv, TimesKnown, QueueOf, Elements
<1>6. AllDue'
  BY <1>2 DEF LookInv, AllDue, Elements
<1> QED
  BY <1>4, <1>5, <1>6 DEF LookInv

LEMMA LeaveLook == ASSUME IInv, LookInv, NEW c \in Cores, LeaveQueue(c) PROVE LookInv'
<1>1. TypeOK /\ HeldWhileLooking
  BY DEF IInv, LookInv
<1>2. PICK i \in Queues : i = QueueOf(c)
  BY <1>1, QueueTypes
<1>3. /\ pc[c] = "queue" /\ queue_locks' = [queue_locks EXCEPT ![i] = NoOne]
      /\ UNCHANGED <<queues, messages, current_time, later>> /\ NextQueue(c)
  BY <1>2 DEF LeaveQueue
<1>4. queue_locks[i] = c
  BY <1>1, <1>2, <1>3 DEF HeldWhileLooking, Looking
<1>5. \A d \in Cores : pc'[d] \in Looking => d # c /\ pc'[d] = pc[d] /\ scan'[d] = scan[d]
  BY <1>1, <1>3, ScanElsewhere, PcTypes DEF Looking
<1>6. \A d \in Cores : pc'[d] \in Looking => queue_locks'[QueueOf(d)'] = d
  <2> SUFFICES ASSUME NEW d \in Cores, pc'[d] \in Looking
               PROVE  queue_locks'[QueueOf(d)'] = d
    OBVIOUS
  <2>1. d # c /\ pc[d] \in Looking /\ QueueOf(d)' = QueueOf(d)
    BY <1>5 DEF QueueOf
  <2>2. queue_locks' = [queue_locks EXCEPT ![i] = NoOne] /\ queue_locks[i] # d
    BY <1>3, <1>4, <2>1
  <2>3. queue_locks'[QueueOf(d)] = d
    BY <1>1, <2>1, <2>2, LockKept
  <2> QED
    BY <2>1, <2>3
<1>7. HeldWhileLooking'
  BY <1>5, <1>6 DEF HeldWhileLooking, QueueOf
<1>8. TimesKnown'
  <2>1. \A d \in Cores : pc'[d] = "grab" => pc[d] = "grab" /\ scan'[d] = scan[d]
    BY <1>5 DEF Looking
  <2> QED
    BY <1>3, <2>1 DEF LookInv, TimesKnown, QueueOf, Elements
<1>9. AllDue'
  BY <1>3 DEF LookInv, AllDue, Elements
<1> QED
  BY <1>7, <1>8, <1>9 DEF LookInv

LEMMA LockLook == ASSUME IInv, LookInv, NEW c \in Cores, LockProcess(c) PROVE LookInv'
<1>1. TypeOK /\ HeldWhileLooking
  BY DEF IInv, LookInv
<1>2. /\ pc[c] = "queue" /\ pc' = [pc EXCEPT ![c] = "grab"]
      /\ current_time' = [current_time EXCEPT ![c] = later]
      /\ UNCHANGED <<queues, queue_locks, messages, later, scan>>
  BY DEF LockProcess, Go
<1>3. HeldWhileLooking'
  BY <1>1, <1>2, PcTypes DEF HeldWhileLooking, Looking, QueueOf
<1>4. TimesKnown'
  <2>1. ASSUME NEW d \in Cores, pc'[d] = "grab"
        PROVE  Elements(queues[QueueOf(d)]) \cap later \subseteq current_time'[d]
    <3>1. CASE d = c
      BY <1>1, <1>2, <3>1 DEF TypeOK
    <3>2. CASE d # c
      <4>1. pc[d] = "grab" /\ current_time'[d] = current_time[d]
        BY <1>1, <1>2, <2>1, <3>2, PcTypes DEF TypeOK
      <4> QED
        BY <4>1 DEF LookInv, TimesKnown
    <3> QED
      BY <3>1, <3>2
  <2> QED
    BY <1>2, <2>1 DEF TimesKnown, Elements, QueueOf
<1>5. AllDue'
  BY <1>2 DEF LookInv, AllDue, Elements
<1> QED
  BY <1>3, <1>4, <1>5 DEF LookInv

LEMMA PopLook == ASSUME IInv, LookInv, NEW c \in Cores, Pop(c) PROVE LookInv'
<1>1. TypeOK /\ HeldWhileLooking
  BY DEF IInv, LookInv
<1>2. PICK i \in Queues : i = QueueOf(c)
  BY <1>1, QueueTypes
<1>3. PICK h : h = Head(queues[i])
  OBVIOUS
<1>4. /\ pc[c] = "grab" /\ queues' = [queues EXCEPT ![i] = Tail(@)] /\ queues[i] # << >>
      /\ \/ messages' = messages
         \/ h \notin current_time[c] /\ messages' = [messages EXCEPT ![c] = Append(@, h)]
      /\ UNCHANGED <<queue_locks, current_time, later, pc, scan>>
  BY <1>2, <1>3 DEF Pop, MayPop, Due
<1>5. HeldWhileLooking'
  BY <1>1, <1>4 DEF HeldWhileLooking, QueueOf
<1>6. h \in Elements(queues[i]) /\ Elements(Tail(queues[i])) \subseteq Elements(queues[i]) /\ h \in Ids
  <2>1. queues[i] \in Seq(Ids)
    BY <1>1, Belong
  <2> QED
    BY <1>3, <1>4, <2>1, ElementsOfTail, HeadAt
<1>7. \A j \in Queues : Elements(queues'[j]) \subseteq Elements(queues[j])
  BY <1>1, <1>4, <1>6 DEF TypeOK
<1>8. TimesKnown'
  <2>1. \A d \in Cores : pc[d] = "grab" => Elements(queues'[QueueOf(d)]) \cap later \subseteq current_time[d]
    BY <1>1, <1>7, QueueTypes DEF LookInv, TimesKnown
  <2> QED
    BY <1>4, <2>1 DEF TimesKnown, Elements, QueueOf
<1>9. AllDue'
  <2>1. ASSUME NEW d \in Cores PROVE Elements(messages'[d]) \cap later = {}
    <3>1. Elements(messages[d]) \cap later = {}
      BY DEF LookInv, AllDue
    <3>2. CASE messages'[d] = messages[d]
      BY <3>1, <3>2
    <3>3. CASE d = c /\ h \notin current_time[c] /\ messages'[d] = Append(messages[d], h)
      <4>1. Elements(messages'[d]) = Elements(messages[d]) \cup {h}
        <5>1. messages[d] \in Seq(Ids)
          BY <1>1, Belong
        <5> QED
          BY <1>6, <3>3, <5>1, ElementsOfAppend
      <4>2. h \notin later
        BY <1>2, <1>4, <1>6, <3>3 DEF LookInv, TimesKnown
      <4> QED
        BY <3>1, <4>1, <4>2
    <3> QED
      BY <1>1, <1>4, <3>2, <3>3 DEF TypeOK
  <2> QED
    BY <1>4, <2>1 DEF AllDue, Elements
<1> QED
  BY <1>5, <1>8, <1>9 DEF LookInv

LEMMA CommitLook == ASSUME IInv, LookInv, NEW c \in Cores, Commit(c) PROVE LookInv'
<1>1. TypeOK /\ HeldWhileLooking
  BY DEF IInv, LookInv
<1>2. PICK i \in Queues : i = QueueOf(c)
  BY <1>1, QueueTypes
<1>3. /\ pc[c] = "grab" /\ queue_locks' = [queue_locks EXCEPT ![i] = NoOne]
      /\ \E l \in {"release", "batch"} : pc' = [pc EXCEPT ![c] = l]
      /\ queues' = [queues EXCEPT ![i] = @ \o future_messages[c]]
      /\ current_time' = [current_time EXCEPT ![c] = {}]
      /\ UNCHANGED <<messages, later, scan>>
  BY <1>2 DEF Commit, PushBack, Go
<1>4. queue_locks[i] = c
  BY <1>1, <1>2, <1>3 DEF HeldWhileLooking, Looking
<1>5. \A d \in Cores : pc'[d] \in Looking => d # c /\ pc'[d] = pc[d]
  BY <1>1, <1>3, PcTypes DEF Looking
<1>6. \A d \in Cores : pc'[d] \in Looking => queue_locks'[QueueOf(d)] = d /\ QueueOf(d) # i
  BY <1>1, <1>3, <1>4, <1>5, LockKept
<1>7. HeldWhileLooking'
  BY <1>3, <1>6 DEF HeldWhileLooking, QueueOf
<1>8. TimesKnown'
  <2>1. ASSUME NEW d \in Cores, pc'[d] = "grab"
        PROVE  Elements(queues'[QueueOf(d)]) \cap later \subseteq current_time'[d]
    <3>1. d # c /\ pc[d] = "grab" /\ QueueOf(d) # i
      BY <1>5, <1>6, <2>1 DEF Looking
    <3>2. queues'[QueueOf(d)] = queues[QueueOf(d)] /\ current_time'[d] = current_time[d]
      BY <1>1, <1>3, <3>1, QueueTypes DEF TypeOK
    <3> QED
      BY <3>1, <3>2 DEF LookInv, TimesKnown
  <2>2. scan' = scan /\ later' = later
    BY <1>3
  <2>3. \A d \in Cores : QueueOf(d)' = QueueOf(d) /\ Elements(queues[QueueOf(d)])' = Elements(queues'[QueueOf(d)])
    BY <2>2 DEF QueueOf, Elements
  <2> QED
    BY <2>1, <2>2, <2>3 DEF TimesKnown
<1>9. AllDue'
  BY <1>3 DEF LookInv, AllDue, Elements
<1> QED
  BY <1>7, <1>8, <1>9 DEF LookInv

LEMMA PushLook == ASSUME IInv, LookInv, NEW t \in Threads, Push(t) PROVE LookInv'
<1>1. TypeOK /\ HeldWhileLooking
  BY DEF IInv, LookInv
<1>2. PICK n : n = Len(target) + 1
  OBVIOUS
<1>3. PICK i \in Queues : i = Home(sending[t].process)
  BY <1>1, QueueTypes DEF TypeOK
<1>4. /\ pc[t] = "push" /\ pc' = [pc EXCEPT ![t] = "count"] /\ queue_locks[i] = NoOne
      /\ queues' = [queues EXCEPT ![i] = Append(@, n)] /\ later' \subseteq later \cup {n}
      /\ UNCHANGED <<queue_locks, messages, current_time, scan>>
  BY <1>2, <1>3 DEF Push, Go
<1>5. n \notin Ids
  BY <1>2, NewId
<1>6. \A d \in Cores : pc'[d] \in Looking => pc'[d] = pc[d] /\ QueueOf(d) # i
  <2>1. \A d \in Cores : pc'[d] \in Looking => pc'[d] = pc[d]
    BY <1>1, <1>4, PcTypes DEF Looking
  <2> QED
    BY <1>1, <1>4, <2>1, Constants DEF HeldWhileLooking
<1>7. HeldWhileLooking'
  BY <1>1, <1>4, <1>6 DEF HeldWhileLooking, QueueOf
<1>8. TimesKnown'
  <2>1. ASSUME NEW d \in Cores, pc'[d] = "grab"
        PROVE  Elements(queues'[QueueOf(d)]) \cap later' \subseteq current_time[d]
    <3>1. pc[d] = "grab" /\ QueueOf(d) # i
      BY <1>6, <2>1 DEF Looking
    <3>2. queues'[QueueOf(d)] = queues[QueueOf(d)] /\ Elements(queues[QueueOf(d)]) \subseteq Ids
      BY <1>1, <1>4, <3>1, QueueTypes, Belong DEF TypeOK
    <3> QED
      BY <1>4, <1>5, <3>1, <3>2 DEF LookInv, TimesKnown
  <2> QED
    BY <1>4, <2>1 DEF TimesKnown, Elements, QueueOf
<1>9. AllDue'
  <2>1. \A d \in Cores : Elements(messages[d]) \cap later' = {}
    BY <1>1, <1>4, <1>5, Belong DEF LookInv, AllDue
  <2> QED
    BY <1>4, <2>1 DEF AllDue, Elements
<1> QED
  BY <1>7, <1>8, <1>9 DEF LookInv

LEMMA FinishLook == ASSUME IInv, LookInv, NEW c \in Cores, Finish(c) PROVE LookInv'
<1>1. TypeOK /\ HeldWhileLooking
  BY DEF IInv, LookInv
<1>2. /\ pc[c] = "run" /\ pc' = [pc EXCEPT ![c] = "batch"]
      /\ messages' = [messages EXCEPT ![c] = Tail(@)]
      /\ UNCHANGED <<queues, queue_locks, current_time, later, scan>>
  BY DEF Finish, Go
<1>3. \A d \in Cores : pc'[d] \in Looking => pc'[d] = pc[d]
  BY <1>1, <1>2, PcTypes DEF Looking
<1>4. HeldWhileLooking'
  BY <1>1, <1>2, <1>3 DEF HeldWhileLooking, QueueOf
<1>5. TimesKnown'
  BY <1>2, <1>3 DEF LookInv, TimesKnown, Elements, QueueOf, Looking
<1>6. AllDue'
  <2>1. messages[c] \in Seq(Ids) /\ messages[c] # << >>
    BY <1>1, <1>2, Belong DEF IInv, BatchShape, Running
  <2>2. Elements(Tail(messages[c])) \subseteq Elements(messages[c])
    BY <2>1, ElementsOfTail
  <2>3. \A d \in Cores : Elements(messages'[d]) \subseteq Elements(messages[d])
    BY <1>1, <1>2, <2>2 DEF TypeOK
  <2>4. \A d \in Cores : Elements(messages'[d]) \cap later = {}
    BY <2>3 DEF LookInv, AllDue
  <2> QED
    BY <1>2, <2>4 DEF AllDue, Elements
<1> QED
  BY <1>4, <1>5, <1>6 DEF LookInv

LEMMA ExpireLook == ASSUME LookInv, NEW m \in later, Expire(m) PROVE LookInv'
<1>1. later' = later \ {m} /\ UNCHANGED <<queues, queue_locks, messages, current_time, pc, scan>>
  BY DEF Expire
<1>2. HeldWhileLooking'
  BY <1>1 DEF LookInv, HeldWhileLooking, QueueOf
<1>3. TimesKnown'
  <2>1. \A d \in Cores : pc[d] = "grab" => Elements(queues[QueueOf(d)]) \cap later' \subseteq current_time[d]
    BY <1>1 DEF LookInv, TimesKnown
  <2> QED
    BY <1>1, <2>1 DEF TimesKnown, QueueOf, Elements
<1>4. AllDue'
  <2>1. \A d \in Cores : Elements(messages[d]) \cap later' = {}
    BY <1>1 DEF LookInv, AllDue
  <2> QED
    BY <1>1, <2>1 DEF AllDue, Elements
<1> QED
  BY <1>2, <1>3, <1>4 DEF LookInv

LEMMA LookNext == IInv /\ LookInv /\ [Next]_vars => LookInv'
  BY LookSteps, AsideLook, HitLook, LeaveLook, LockLook, PopLook, CommitLook, PushLook, FinishLook,
     ExpireLook

LEMMA LookInit == Init => LookInv
<1> SUFFICES ASSUME Init PROVE LookInv
  OBVIOUS
<1>1. \A c \in Cores : pc[c] = "scan" /\ messages[c] = << >>
  BY Constants DEF Init
<1> QED
  BY <1>1, NothingIn DEF LookInv, HeldWhileLooking, TimesKnown, AllDue, Looking

LEMMA AlwaysLook == Spec => []LookInv
<1> QED
  BY Invariance, LookInit, LookNext, PTL DEF Spec

-----------------------------------------------------------------------------
(* No lock is left behind.                                                 *)
HoldPcs == {"grab", "batch", "release", "run"} \cup SendPcs

OwnQueue(d) == \A i \in Queues : queue_locks[i] = d => pc[d] \in Looking /\ i = QueueOf(d)
OwnProcess(d) == \A p \in Procs : process_locks[p] = d => pc[d] \in HoldPcs
OneProcess(d) == \A p, q \in Procs : process_locks[p] = d /\ process_locks[q] = d => p = q
Tidy(d) == OwnQueue(d) /\ OwnProcess(d) /\ OneProcess(d)

LEMMA TidyIs == NoLockLeft <=> \A d \in Cores : Tidy(d)
  BY DEF NoLockLeft, Tidy, OwnQueue, OwnProcess, OneProcess, Looking, HoldPcs, Running

(* The steps that take or release no lock: a core goes on where it needs   *)
(* none, or keeps those of a batch.                                        *)
Onward(d) == \/ pc'[d] = pc[d] /\ scan'[d] = scan[d]
             \/ pc[d] \notin Looking /\ (pc[d] \in HoldPcs => pc'[d] \in HoldPcs)
NoLocking == UNCHANGED <<queue_locks, process_locks>> /\ \A d \in Cores : Onward(d)

LEMMA OnwardMove ==
  ASSUME TypeOK, NEW t \in Threads, NEW l, pc' = [pc EXCEPT ![t] = l],
         \A d \in Cores : d # t => scan'[d] = scan[d],
         t \in Cores => pc[t] \notin Looking /\ (pc[t] \in HoldPcs => l \in HoldPcs),
         UNCHANGED <<queue_locks, process_locks>>
  PROVE  NoLocking
  BY PcTypes DEF NoLocking, Onward

LEMMA LockSteps ==
  ASSUME IInv, [Next]_vars
  PROVE  \/ \E c \in Cores : \/ \E i \in Queues : TryQueueHit(c, i)
                             \/ LeaveQueue(c) \/ LockProcess(c) \/ Commit(c)
                             \/ Release(c) \/ ReleaseEmpty(c)
         \/ NoLocking
<1>1. TypeOK /\ Cores \subseteq Threads /\ Main \in Threads /\ Main \notin Cores
      /\ \A t \in Threads : t # Main => t \in Cores
  BY PcTypes, Constants DEF IInv
<1>2. ASSUME NEW c \in Cores, TryQueueMiss(c) \/ Uncount(c) PROVE NoLocking
  <2>1. /\ UNCHANGED <<queue_locks, process_locks>> /\ NextQueue(c)
        /\ pc[c] \notin Looking /\ pc[c] \notin HoldPcs
    BY <1>2 DEF TryQueueMiss, Uncount, Looking, HoldPcs, SendPcs
  <2> QED
    BY <1>1, <2>1, ScanElsewhere, OnwardMove
<1>3. ASSUME NEW c \in Cores, Begin(c) \/ Finish(c) PROVE NoLocking
  <2>1. /\ UNCHANGED <<queue_locks, process_locks, scan>> /\ pc[c] \notin Looking
        /\ \E l \in {"run", "batch"} : pc' = [pc EXCEPT ![c] = l]
    BY <1>3 DEF Begin, Finish, Go, Looking
  <2> QED
    BY <1>1, <2>1, OnwardMove DEF HoldPcs
<1>4. ASSUME NEW c \in Cores,
             \/ EndScan(c) \/ Nap(c) \/ ChangeMind(c) \/ GoHome(c)
             \/ FallAsleep(c) \/ Wait(c) \/ Wake(c)
      PROVE  NoLocking
  <2>1. /\ UNCHANGED <<queue_locks, process_locks, scan>>
        /\ pc[c] \notin Looking /\ pc[c] \notin HoldPcs
        /\ \E l : pc' = [pc EXCEPT ![c] = l]
    BY <1>4 DEF EndScan, Nap, ChangeMind, GoHome, FallAsleep, Wait, Wake, Again, Go,
       Looking, HoldPcs, SendPcs
  <2> QED
    BY <1>1, <2>1, OnwardMove
<1>5. ASSUME NEW c \in Cores, Pop(c) PROVE NoLocking
  BY <1>5 DEF Pop, NoLocking, Onward
<1>6. ASSUME NEW t \in Threads, SendMessage(t) PROVE NoLocking
  <2>1. /\ UNCHANGED <<queue_locks, process_locks, scan>> /\ pc[t] \notin Looking
        /\ \/ pc' = [pc EXCEPT ![t] = "count"]
           \/ pc' = [pc EXCEPT ![t] = "notify"]
           \/ pc' = [pc EXCEPT ![t] = IF t = Main THEN "main" ELSE "run"]
    BY <1>6 DEF SendMessage, Push, Count, Notify, Go, Looking
  <2> QED
    BY <1>1, <2>1, OnwardMove DEF HoldPcs, SendPcs
<1>7. ASSUME NEW t \in Threads, NEW p \in Procs, NEW b \in BOOLEAN, StartSend(t, p, b)
      PROVE  NoLocking
  <2>1. /\ UNCHANGED <<queue_locks, process_locks, scan>> /\ pc[t] \notin Looking
        /\ pc' = [pc EXCEPT ![t] = "push"]
    BY <1>7 DEF StartSend, Go, Looking
  <2> QED
    BY <1>1, <2>1, OnwardMove DEF HoldPcs, SendPcs
<1>8. CASE Shutdown
  <2>1. /\ UNCHANGED <<queue_locks, process_locks, scan>>
        /\ \E l : pc' = [pc EXCEPT ![Main] = l]
    BY <1>8 DEF Shutdown, StoreReady, NotifyAll, Join, Go
  <2> QED
    BY <1>1, <2>1, OnwardMove
<1>9. CASE (\E c \in Cores : SpuriousWakeup(c)) \/ (\E m \in later : Expire(m)) \/ UNCHANGED vars
  BY <1>9 DEF SpuriousWakeup, Expire, vars, NoLocking, Onward
<1> QED
  BY <1>2, <1>3, <1>4, <1>5, <1>6, <1>7, <1>8, <1>9 DEF Next, CoreStep

LEMMA OnwardTidy == ASSUME NoLockLeft, NoLocking PROVE NoLockLeft'
<1>1. ASSUME NEW d \in Cores PROVE Tidy(d)'
  <2>1. Tidy(d) /\ Onward(d) /\ UNCHANGED <<queue_locks, process_locks>>
    BY TidyIs DEF NoLocking
  <2>2. OwnQueue(d)'
    BY <2>1 DEF Tidy, OwnQueue, Onward, QueueOf
  <2>3. OwnProcess(d)'
    BY <2>1 DEF Tidy, OwnProcess, Onward
  <2>4. OneProcess(d)'
    BY <2>1 DEF Tidy, OneProcess
  <2> QED
    BY <2>2, <2>3, <2>4 DEF Tidy
<1>2. (\A d \in Cores : Tidy(d))'
  BY <1>1
<1> QED
  BY <1>2, TidyIs, PTL

(* A lock is taken or released by the core d, and another's are its own as *)
(* before.                                                                 *)
LEMMA OthersTidy ==
  ASSUME TypeOK, NEW c \in Cores, NEW d \in Cores, d # c, Tidy(d),
         NEW l, pc' = [pc EXCEPT ![c] = l], scan'[d] = scan[d],
         \A i \in Queues : queue_locks'[i] \in {queue_locks[i], c, NoOne},
         \A p \in Procs : process_locks'[p] \in {process_locks[p], c, NoOne}
  PROVE  Tidy(d)'
<1>1. pc'[d] = pc[d] /\ d # NoOne
  BY PcTypes, Constants
<1>2. QueueOf(d)' = QueueOf(d)
  BY DEF QueueOf
<1>3. OwnQueue(d)'
  BY <1>1, <1>2 DEF Tidy, OwnQueue
<1>4. OwnProcess(d)'
  BY <1>1 DEF Tidy, OwnProcess
<1>5. OneProcess(d)'
  BY <1>1 DEF Tidy, OneProcess
<1> QED
  BY <1>3, <1>4, <1>5 DEF Tidy

LEMMA LockingTidy ==
  ASSUME IInv, NoLockLeft, NEW c \in Cores,
         \/ \E i \in Queues : TryQueueHit(c, i)
         \/ LeaveQueue(c) \/ LockProcess(c) \/ Commit(c) \/ Release(c) \/ ReleaseEmpty(c)
  PROVE  NoLockLeft'
<1>1. TypeOK /\ Tidy(c) /\ pc \in [Threads -> AllPcs] /\ c \in Threads
  BY TidyIs, PcTypes DEF IInv
<1>2. /\ queue_locks \in [Queues -> Cores \cup {NoOne}]
      /\ process_locks \in [Procs -> Cores \cup {NoOne}]
  BY <1>1 DEF TypeOK
<1>3. c # NoOne /\ QueueOf(c) \in Queues
  BY <1>1, QueueTypes, Constants
<1>4. /\ \E l : pc' = [pc EXCEPT ![c] = l]
      /\ \A d \in Cores : d # c => scan'[d] = scan[d]
  <2>1. CASE LeaveQueue(c) \/ ReleaseEmpty(c)
    <3>1. NextQueue(c)
      BY <2>1 DEF LeaveQueue, ReleaseEmpty
    <3> QED
      BY <1>1, <3>1, ScanElsewhere
  <2>2. CASE (\E i \in Queues : TryQueueHit(c, i)) \/ LockProcess(c) \/ Commit(c) \/ Release(c)
    BY <2>2 DEF TryQueueHit, LockProcess, Commit, Release, Go
  <2> QED
    BY <2>1, <2>2
<1>5. /\ \A i \in Queues : queue_locks'[i] \in {queue_locks[i], c, NoOne}
      /\ \A p \in Procs : process_locks'[p] \in {process_locks[p], c, NoOne}
  BY <1>2 DEF TryQueueHit, LeaveQueue, LockProcess, Commit, Release, ReleaseEmpty, Unlocked
<1>6. Tidy(c)'
  <2>1. CASE \E i \in Queues : TryQueueHit(c, i)
    <3>1. PICK i \in Queues : TryQueueHit(c, i)
      BY <2>1
    <3>2. /\ pc[c] = "scan" /\ i = QueueOf(c) /\ queue_locks' = [queue_locks EXCEPT ![i] = c]
          /\ pc' = [pc EXCEPT ![c] = "queue"] /\ UNCHANGED <<process_locks, scan>>
      BY <3>1 DEF TryQueueHit, Go
    <3>3. /\ \A j \in Queues : queue_locks[j] # c
          /\ \A p \in Procs : process_locks[p] # c
      BY <1>1, <3>2 DEF Tidy, OwnQueue, OwnProcess, Looking, HoldPcs, SendPcs
    <3> QED
      BY <1>1, <1>2, <3>2, <3>3 DEF Tidy, OwnQueue, OwnProcess, OneProcess, Looking, QueueOf
  <2>2. CASE LeaveQueue(c)
    <3>1. /\ pc[c] = "queue" /\ queue_locks' = [queue_locks EXCEPT ![QueueOf(c)] = NoOne]
          /\ UNCHANGED process_locks
      BY <2>2 DEF LeaveQueue
    <3>2. /\ \A j \in Queues : queue_locks'[j] # c
          /\ \A p \in Procs : process_locks'[p] # c
      BY <1>1, <1>2, <1>3, <3>1 DEF Tidy, OwnQueue, OwnProcess, HoldPcs, SendPcs
    <3> QED
      BY <3>2 DEF Tidy, OwnQueue, OwnProcess, OneProcess
  <2>3. CASE LockProcess(c)
    <3>1. PICK p : /\ pc[c] = "queue" /\ pc' = [pc EXCEPT ![c] = "grab"]
                   /\ process_locks' = [process_locks EXCEPT ![p] = c]
                   /\ UNCHANGED <<queue_locks, scan>>
      BY <2>3 DEF LockProcess, Go
    <3>2. \A q \in Procs : process_locks[q] # c
      BY <1>1, <3>1 DEF Tidy, OwnProcess, HoldPcs, SendPcs
    <3>3. \A q \in Procs : process_locks'[q] = c => q = p
      BY <1>2, <3>1, <3>2
    <3>4. pc'[c] = "grab" /\ QueueOf(c)' = QueueOf(c)
      BY <1>1, <3>1 DEF QueueOf
    <3>5. OwnQueue(c)'
      BY <1>1, <3>1, <3>4 DEF Tidy, OwnQueue, Looking
    <3> QED
      BY <3>3, <3>4, <3>5 DEF Tidy, OwnProcess, OneProcess, HoldPcs
  <2>4. CASE Commit(c)
    <3>1. /\ pc[c] = "grab" /\ \E l \in {"release", "batch"} : pc' = [pc EXCEPT ![c] = l]
          /\ queue_locks' = [queue_locks EXCEPT ![QueueOf(c)] = NoOne] /\ UNCHANGED process_locks
      BY <2>4 DEF Commit, Go
    <3>2. \A j \in Queues : queue_locks'[j] # c
      BY <1>1, <1>2, <1>3, <3>1 DEF Tidy, OwnQueue
    <3>3. pc'[c] \in HoldPcs
      BY <1>1, <3>1 DEF HoldPcs
    <3> QED
      BY <1>1, <3>1, <3>2, <3>3 DEF Tidy, OwnQueue, OwnProcess, OneProcess
  <2>5. CASE Release(c) \/ ReleaseEmpty(c)
    <3>1. pc[c] \in {"batch", "release"} /\ process_locks' = Unlocked(c) /\ UNCHANGED queue_locks
      BY <2>5 DEF Release, ReleaseEmpty
    <3>2. /\ \A j \in Queues : queue_locks'[j] # c
          /\ \A p \in Procs : process_locks'[p] # c
      BY <1>1, <1>2, <1>3, <3>1 DEF Tidy, OwnQueue, Looking, Unlocked
    <3> QED
      BY <3>2 DEF Tidy, OwnQueue, OwnProcess, OneProcess
  <2> QED
    BY <2>1, <2>2, <2>3, <2>4, <2>5
<1>7. ASSUME NEW d \in Cores, d # c PROVE Tidy(d)'
  <2>1. Tidy(d)
    BY TidyIs
  <2> QED
    BY <1>1, <1>4, <1>5, <1>7, <2>1, OthersTidy
<1>8. (\A d \in Cores : Tidy(d))'
  BY <1>6, <1>7
<1> QED
  BY <1>8, TidyIs, PTL

LEMMA TidyInit == Init => NoLockLeft
  BY Constants DEF Init, NoLockLeft

(* A core that goes on to the next queue, naps, sleeps or goes home holds  *)
(* no lock, whichever way it came out of the loop over the queues: found   *)
(* nothing, found the process locked, found nothing due, ran its batch.    *)
(* And it never has the locks of two processes.                            *)
THEOREM LocksReleased == Spec => []NoLockLeft
<1>1. IInv /\ NoLockLeft /\ [Next]_vars => NoLockLeft'
  BY LockSteps, OnwardTidy, LockingTidy
<1> QED
  BY Invariance, TidyInit, <1>1, PTL DEF Spec

-----------------------------------------------------------------------------
(* What ActorSystem sees: the messages whose handlers run, and whether the *)
(* system has gone down.                                                   *)
Handling == {Head(messages[c]) : c \in {d \in Cores : Running(d)}}
Gone == \E c \in Cores : pc[c] = "exited"

Stutters == UNCHANGED <<target, timers, later, executed>> /\ Handling' = Handling /\ Gone' = Gone

LEMMA HandlingIs ==
  ASSUME NEW m
  PROVE  /\ m \in Handling <=> \E c \in Cores : Running(c) /\ m = Head(messages[c])
         /\ m \in Handling' <=> \E c \in Cores : Running(c)' /\ m = Head(messages'[c])
  BY DEF Handling

LEMMA HandlingKept ==
  ASSUME \A c \in Cores : Running(c)' <=> Running(c),
         \A c \in Cores : Running(c) => messages'[c] = messages[c]
  PROVE  Handling' = Handling
<1>1. ASSUME NEW m PROVE m \in Handling' <=> m \in Handling
  BY HandlingIs
<1> QED
  BY <1>1

LEMMA StutterMove ==
  ASSUME TypeOK, NEW t \in Threads, NEW l, pc' = [pc EXCEPT ![t] = l],
         pc[t] # "exited", t \in Cores => l # "exited",
         t \in Cores => (pc[t] \in {"run"} \cup SendPcs <=> l \in {"run"} \cup SendPcs),
         UNCHANGED <<messages, target, timers, later, executed>>
  PROVE  Stutters
<1>1. \A c \in Cores : pc'[c] = IF c = t THEN l ELSE pc[c]
  BY PcTypes
<1>2. Handling' = Handling
  BY <1>1, HandlingKept DEF Running
<1>3. Gone' = Gone
  BY <1>1 DEF Gone
<1> QED
  BY <1>2, <1>3 DEF Stutters

LEMMA VisibleSteps ==
  ASSUME IInv, [Next]_vars
  PROVE  \/ \E c \in Cores : Begin(c) \/ Finish(c) \/ GoHome(c)
         \/ \E t \in Threads : Push(t)
         \/ \E m \in later : Expire(m)
         \/ Stutters
<1>1. TypeOK /\ Cores \subseteq Threads /\ Main \in Threads /\ Main \notin Cores
  BY PcTypes DEF IInv
<1>2. ASSUME NEW c \in Cores, CoreStep(c)
      PROVE  Begin(c) \/ Finish(c) \/ GoHome(c) \/ Stutters
  <2>1. CASE TryQueueMiss(c) \/ LeaveQueue(c) \/ ReleaseEmpty(c) \/ Uncount(c)
    <3>1. /\ UNCHANGED <<messages, target, timers, later, executed>>
          /\ pc[c] \in {"scan", "queue", "release", "uncount"}
          /\ \E l \in {"scan", "end"} : pc' = [pc EXCEPT ![c] = l]
      BY <2>1 DEF TryQueueMiss, LeaveQueue, ReleaseEmpty, Uncount, NextQueue, Go
    <3> QED
      BY <1>1, <3>1, StutterMove DEF SendPcs
  <2>2. CASE (\E i \in Queues : TryQueueHit(c, i)) \/ LockProcess(c) \/ Commit(c) \/ Release(c)
    <3>1. /\ UNCHANGED <<messages, target, timers, later, executed>>
          /\ pc[c] \in {"scan", "queue", "grab", "batch"}
          /\ \E l \in {"queue", "grab", "release", "batch", "uncount"} : pc' = [pc EXCEPT ![c] = l]
      BY <2>2 DEF TryQueueHit, LockProcess, Commit, Release, Go
    <3> QED
      BY <1>1, <3>1, StutterMove DEF SendPcs
  <2>3. CASE Pop(c)
    <3>1. UNCHANGED <<target, timers, later, executed, pc>> /\ pc[c] = "grab"
      BY <2>3 DEF Pop
    <3>2. \A d \in Cores : d # c => messages'[d] = messages[d]
      BY <1>1, <2>3 DEF Pop, TypeOK
    <3>3. Handling' = Handling
      BY <3>1, <3>2, HandlingKept DEF Running, SendPcs
    <3> QED
      BY <3>1, <3>3 DEF Stutters, Gone
  <2>4. CASE EndScan(c) \/ Nap(c) \/ ChangeMind(c) \/ FallAsleep(c) \/ Wait(c)
    <3>1. /\ UNCHANGED <<messages, target, timers, later, executed>>
          /\ pc[c] \in {"end", "nap", "recheck", "sleep"}
          /\ \E l \in {"scan", "nap", "recheck", "sleep", "wait"} : pc' = [pc EXCEPT ![c] = l]
      BY <2>4 DEF EndScan, Nap, ChangeMind, FallAsleep, Wait, Again, Go
    <3> QED
      BY <1>1, <3>1, StutterMove DEF SendPcs
  <2>5. CASE Wake(c)
    <3>1. /\ UNCHANGED <<messages, target, timers, later, executed>> /\ pc[c] = "wait"
          /\ \E l \in {"exited", "scan"} : pc' = [pc EXCEPT ![c] = l]
      BY <2>5 DEF Wake, Again, Go
    <3>2. pc'[c] # "exited"
      BY <3>1, Exits DEF GoHome
    <3>3. pc' = [pc EXCEPT ![c] = "scan"]
      BY <1>1, <3>1, <3>2, PcTypes
    <3> QED
      BY <1>1, <3>1, <3>3, StutterMove DEF SendPcs
  <2> QED
    BY <1>2, <2>1, <2>2, <2>3, <2>4, <2>5 DEF CoreStep
<1>3. ASSUME NEW t \in Threads, Count(t) \/ Notify(t) PROVE Stutters
  <2>1. /\ UNCHANGED <<messages, target, timers, later, executed>>
        /\ pc[t] \in {"count", "notify"}
        /\ \E l \in {"notify", "main", "run"} :
             pc' = [pc EXCEPT ![t] = l] /\ (t \in Cores => l # "main")
    BY <1>1, <1>3 DEF Count, Notify, Go
  <2> QED
    BY <1>1, <2>1, StutterMove DEF SendPcs
<1>4. ASSUME NEW t \in Threads, NEW p \in Procs, NEW b \in BOOLEAN, StartSend(t, p, b)
      PROVE  Stutters
  <2>1. /\ UNCHANGED <<messages, target, timers, later, executed>>
        /\ pc[t] \in {"run", "main"} /\ pc' = [pc EXCEPT ![t] = "push"]
    BY <1>4 DEF StartSend, Go
  <2>2. t \in Cores => pc[t] # "main"
    BY DEF IInv, PcShape, CorePcs, SendPcs
  <2> QED
    BY <1>1, <2>1, <2>2, StutterMove DEF SendPcs
<1>5. CASE Shutdown
  <2>1. /\ UNCHANGED <<messages, target, timers, later, executed>>
        /\ pc[Main] \in {"main", "stored", "join"}
        /\ \E l \in {"stored", "join", "done"} : pc' = [pc EXCEPT ![Main] = l]
    BY <1>5 DEF Shutdown, StoreReady, NotifyAll, Join, Go
  <2> QED
    BY <1>1, <2>1, StutterMove
<1>6. CASE (\E c \in Cores : SpuriousWakeup(c)) \/ UNCHANGED vars
  <2>1. UNCHANGED <<messages, target, timers, later, executed, pc>>
    BY <1>6 DEF SpuriousWakeup, vars
  <2>2. Handling' = Handling
    BY <2>1, HandlingKept DEF Running
  <2> QED
    BY <2>1, <2>2 DEF Stutters, Gone
<1> QED
  BY <1>2, <1>3, <1>4, <1>5, <1>6 DEF Next, SendMessage

-----------------------------------------------------------------------------
(* The visible steps are steps of ActorSystem.                             *)
LEMMA HandlingTypes ==
  ASSUME IInv
  PROVE  /\ \A c \in Cores : messages[c] # << >> =>
              /\ Head(messages[c]) \in Ids /\ Head(messages[c]) \in Elements(messages[c])
              /\ process_locks[target[Head(messages[c])]] = c
         /\ \A c \in Cores : Running(c) => messages[c] # << >>
<1>1. ASSUME NEW c \in Cores, messages[c] # << >>
      PROVE  /\ Head(messages[c]) \in Ids /\ Head(messages[c]) \in Elements(messages[c])
             /\ process_locks[target[Head(messages[c])]] = c
  <2>1. messages[c] \in Seq(Ids)
    BY DEF IInv, TypeOK
  <2>2. Head(messages[c]) \in Ids /\ Head(messages[c]) \in Elements(messages[c])
    BY <1>1, <2>1, ElementsOfTail, HeadAt
  <2> QED
    BY <2>2, InElements DEF IInv, BatchLocked
<1> QED
  BY <1>1 DEF IInv, BatchShape

LEMMA BeginStarts ==
  ASSUME IInv, Placed, FifoInv, LookInv, NEW c \in Cores, Begin(c)
  PROVE  \E m \in Ids : Actors!Start(m)
<1>1. TypeOK
  BY DEF IInv
<1>2. /\ pc[c] = "batch" /\ messages[c] # << >> /\ pc' = [pc EXCEPT ![c] = "run"]
      /\ UNCHANGED <<messages, target, timers, later, executed>>
  BY DEF Begin, Go
<1>3. PICK m \in Ids : m = Head(messages[c]) /\ m \in Elements(messages[c]) /\ process_locks[target[m]] = c
  BY <1>2, HandlingTypes
<1>4. ~Running(c)
  BY <1>2 DEF Running, SendPcs
<1>5. \A k \in Handling : target[k] # target[m]
  <2> SUFFICES ASSUME NEW d \in Cores, Running(d), target[Head(messages[d])] = target[m] PROVE FALSE
    BY HandlingIs
  <2> QED
    BY <1>3, <1>4, HandlingTypes
<1>6. m \notin executed /\ m \notin later
  <2>1. m \notin executed
    BY <1>1, <1>3, Unexecuted
  <2>2. m \notin later
    BY <1>3 DEF LookInv, AllDue
  <2> QED
    BY <2>1, <2>2
<1>7. m \notin timers =>
        \A k \in 1 .. m - 1 : target[k] = target[m] => k \in executed \cup timers
  <2> SUFFICES ASSUME m \notin timers, NEW k \in 1 .. m - 1, target[k] = target[m], k \notin timers
               PROVE  k \in executed
    OBVIOUS
  <2>1. k \in Ids /\ k < m
    BY <1>1, LenProperties DEF Ids, TypeOK
  <2> QED
    BY <1>2, <1>3, <2>1, Foremost
<1>8. Handling' = Handling \cup {m}
  <2>1. \A d \in Cores : pc'[d] = IF d = c THEN "run" ELSE pc[d]
    BY <1>1, <1>2, PcTypes
  <2>2. \A d \in Cores : Running(d)' <=> Running(d) \/ d = c
    BY <2>1 DEF Running
  <2>3. ASSUME NEW k PROVE k \in Handling' <=> k \in Handling \/ k = m
    BY <1>2, <1>3, <2>2, HandlingIs
  <2> QED
    BY <2>3
<1>9. Gone' = Gone
  BY <1>1, <1>2, PcTypes DEF Gone
<1> QED
  BY <1>2, <1>3, <1>5, <1>6, <1>7, <1>8, <1>9 DEF Actors!Start, Actors!Ids, Handling, Gone, Ids

LEMMA FinishFinishes ==
  ASSUME IInv, NEW c \in Cores, Finish(c)
  PROVE  \E m \in Ids : Actors!Finish(m)
<1>1. TypeOK
  BY DEF IInv
<1>2. Running(c) /\ messages[c] # << >>
  BY HandlingTypes DEF Finish, Running
<1>3. PICK m \in Ids : m = Head(messages[c]) /\ process_locks[target[m]] = c
  BY <1>2, HandlingTypes
<1>4. /\ pc' = [pc EXCEPT ![c] = "batch"] /\ messages' = [messages EXCEPT ![c] = Tail(@)]
      /\ executed' = executed \cup {m} /\ UNCHANGED <<target, timers, later>>
  BY <1>3 DEF Finish, Go
<1>5. m \in Handling
  BY <1>2, <1>3, HandlingIs
<1>6. Handling' = Handling \ {m}
  <2>1. /\ \A d \in Cores : pc'[d] = IF d = c THEN "batch" ELSE pc[d]
        /\ \A d \in Cores : d # c => messages'[d] = messages[d]
    BY <1>1, <1>4, PcTypes DEF TypeOK
  <2>2. \A d \in Cores : Running(d)' <=> Running(d) /\ d # c
    BY <2>1 DEF Running, SendPcs
  <2>3. \A d \in Cores : Running(d) /\ d # c => Head(messages[d]) # m
    BY <1>3, HandlingTypes
  <2>4. ASSUME NEW k PROVE k \in Handling' <=> k \in Handling /\ k # m
    <3>1. k \in Handling' <=> \E d \in Cores : Running(d) /\ d # c /\ k = Head(messages[d])
      BY <2>1, <2>2, HandlingIs
    <3>2. k \in Handling <=> \E d \in Cores : Running(d) /\ k = Head(messages[d])
      BY HandlingIs
    <3> QED
      BY <1>3, <2>3, <3>1, <3>2
  <2> QED
    BY <2>4
<1>7. Gone' = Gone
  <2>1. \A d \in Cores : pc'[d] = "exited" <=> pc[d] = "exited"
    BY <1>1, <1>2, <1>4, PcTypes DEF Running, SendPcs
  <2> QED
    BY <2>1 DEF Gone
<1> QED
  BY <1>4, <1>5, <1>6, <1>7 DEF Actors!Finish, Handling, Gone

LEMMA PushSends ==
  ASSUME IInv, Placed, Shape, CountExact, Down, NEW t \in Threads, Push(t)
  PROVE  \E p \in Procs : Actors!Send(p)
<1>1. TypeOK
  BY DEF IInv
<1>2. PICK p \in Procs, b \in BOOLEAN : p = sending[t].process /\ b = sending[t].timer
  BY <1>1 DEF TypeOK
<1>3. /\ pc[t] = "push" /\ pc' = [pc EXCEPT ![t] = "count"] /\ target' = Append(target, p)
      /\ timers' = IF b THEN timers \cup {Len(target) + 1} ELSE timers
      /\ later' = IF b THEN later \cup {Len(target) + 1} ELSE later
      /\ UNCHANGED <<messages, executed>>
  BY <1>2 DEF Push, Go
<1>4. ~Gone
  <2>1. ~(executed = Ids /\ Busy = {} /\ ready_to_exit = 1)
    BY <1>3, Quiescent DEF SendPcs
  <2> QED
    BY <2>1 DEF Down, Gone
<1>5. \A d \in Cores : pc'[d] = IF d = t THEN "count" ELSE pc[d]
  BY <1>1, <1>3, PcTypes
<1>6. Handling' = Handling
  BY <1>3, <1>5, HandlingKept DEF Running, SendPcs
<1>7. Gone' = Gone
  BY <1>3, <1>5 DEF Gone
<1> QED
  BY <1>3, <1>4, <1>6, <1>7 DEF Actors!Send, Handling, Gone

LEMMA ExpireExpires ==
  ASSUME IInv, NEW m \in later, Expire(m)
  PROVE  \E k \in Ids : Actors!Expire(k)
<1>1. m \in Ids
  BY DEF IInv, TypeOK
<1>2. later' = later \ {m} /\ UNCHANGED <<target, timers, executed, pc, messages>>
  BY DEF Expire
<1>3. Handling' = Handling
  BY <1>2, HandlingKept DEF Running
<1>4. Gone' = Gone
  BY <1>2 DEF Gone
<1> QED
  BY <1>1, <1>2, <1>3, <1>4 DEF Actors!Expire, Handling, Gone

LEMMA HomeShutsDown ==
  ASSUME IInv, Placed, FifoInv, Shape, CountExact, NEW c \in Cores, GoHome(c)
  PROVE  Actors!ShutDown \/ Stutters
<1>1. TypeOK
  BY DEF IInv
<1>2. /\ pc[c] = "recheck" /\ pc' = [pc EXCEPT ![c] = "exited"]
      /\ UNCHANGED <<target, timers, later, executed, messages>>
  BY DEF GoHome, Go
<1>3. \A d \in Cores : pc'[d] = IF d = c THEN "exited" ELSE pc[d]
  BY <1>1, <1>2, PcTypes
<1>4. Handling' = Handling
  BY <1>2, <1>3, HandlingKept DEF Running, SendPcs
<1>5. executed = Ids
  BY LastOne
<1>6. Gone'
  BY <1>3 DEF Gone
<1>7. CASE Gone
  BY <1>2, <1>4, <1>6, <1>7 DEF Stutters
<1>8. CASE ~Gone
  <2>1. Gone' = TRUE
    BY <1>6 DEF Gone
  <2> QED
    BY <1>2, <1>4, <1>5, <1>8, <2>1 DEF Actors!ShutDown, Actors!Ids, Ids, Handling, Gone
<1> QED
  BY <1>7, <1>8

LEMMA StutterActors == Stutters => UNCHANGED Actors!vars
  BY DEF Stutters, Actors!vars, Handling, Gone

LEMMA ActorsInit == Init => Actors!Init
<1> SUFFICES ASSUME Init PROVE Actors!Init
  OBVIOUS
<1>1. \A c \in Cores : pc[c] = "scan"
  BY Constants DEF Init
<1>2. ASSUME NEW m PROVE m \notin Handling
  BY <1>1, HandlingIs DEF Running, SendPcs
<1>3. Handling = {} /\ Gone = FALSE
  BY <1>1, <1>2 DEF Gone
<1> QED
  BY <1>3 DEF Init, Actors!Init, Handling, Gone

LEMMA ActorsNext ==
  IInv /\ Placed /\ FifoInv /\ Shape /\ CountExact /\ Down /\ LookInv /\ [Next]_vars
    => [Actors!Next]_(Actors!vars)
<1> SUFFICES ASSUME IInv, Placed, FifoInv, Shape, CountExact, Down, LookInv, [Next]_vars
             PROVE  Actors!Next \/ UNCHANGED Actors!vars
  OBVIOUS
<1>1. Actors!Ids = Ids
  BY DEF Actors!Ids, Ids
<1>2. ASSUME NEW c \in Cores, Begin(c) PROVE Actors!Next
  BY <1>1, <1>2, BeginStarts DEF Actors!Next
<1>3. ASSUME NEW c \in Cores, Finish(c) PROVE Actors!Next
  BY <1>1, <1>3, FinishFinishes DEF Actors!Next
<1>4. ASSUME NEW c \in Cores, GoHome(c) PROVE Actors!Next \/ Stutters
  BY <1>4, HomeShutsDown DEF Actors!Next
<1>5. ASSUME NEW t \in Threads, Push(t) PROVE Actors!Next
  BY <1>5, PushSends DEF Actors!Next
<1>6. ASSUME NEW m \in later, Expire(m) PROVE Actors!Next
  BY <1>1, <1>6, ExpireExpires DEF Actors!Next
<1> QED
  BY <1>2, <1>3, <1>4, <1>5, <1>6, VisibleSteps, StutterActors

(* Queues, locks, batches and the sleeping cores are invisible: every      *)
(* behaviour of the scheduler is one of the actor system, which executes   *)
(* the messages of a process one at a time and in the order they were      *)
(* sent, timers not before their time, and which, once it is down, has     *)
(* executed every message and accepts none.                                *)
THEOREM Implements == Spec => RefinesActors
<1> QED
  BY AlwaysCounted, AlwaysDown, AlwaysLook, ActorsInit, ActorsNext, PTL DEF Spec, RefinesActors, Actors!Spec
=============================================================================
