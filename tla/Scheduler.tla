----------------------------- MODULE Scheduler ------------------------------
(***************************************************************************)
(* The message scheduler of the virtual machine (eople_vm.cpp): the job    *)
(* loop of every core, SendMessage, the condition variable on which idle   *)
(* cores sleep, and Shutdown.  What a handler computes is left out: it     *)
(* sends messages and starts timers of its choice, and ends.               *)
(*                                                                         *)
(* Cores are 1..CoreCount (Run passes i+1) and the main thread is 0.       *)
(* There are as many queues as cores; process p lives in queue             *)
(* p % CoreCount.  Messages are numbered in the order they are pushed.     *)
(***************************************************************************)
EXTENDS Integers, Sequences, FiniteSets

CONSTANTS
  CoreCount,      \* core_count, at least 2
  Procs,          \* the process ids; 0 is the main process
  BufferSize,     \* buffer_size, 16 in the code
  MaxRetries,     \* max_retries, 10 in the code
  Wrap,           \* 2^32 in the code: the counters are u32
  MaxMessages,    \* bound of the model: messages sent in one behaviour
  MaxTimers,      \* bound of the model: timers among them
  Spurious        \* whether condition_variable::wait may wake by itself

ASSUME CoreAssumption == CoreCount \in Nat /\ CoreCount >= 2
ASSUME ProcAssumption == Procs \subseteq Nat /\ 0 \in Procs
ASSUME BoundAssumption ==
  /\ BufferSize \in Nat \ {0}
  /\ MaxRetries \in Nat
  /\ MaxMessages \in Nat /\ MaxTimers \in Nat
  /\ Wrap \in Nat /\ Wrap > MaxMessages + BufferSize + 2 * CoreCount
  /\ Spurious \in BOOLEAN

Cores   == 1 .. CoreCount
Main    == 0
Threads == Cores \cup {Main}
Queues  == 0 .. CoreCount - 1
NoOne   == -1
Home(p) == p % CoreCount

VARIABLES
  queues,           \* the ids in every MessageQueue
  queue_locks,      \* who holds a queue's AutoTryLock
  process_locks,    \* who holds a process's AutoTryLock
  message_count, idle_count, ready_to_exit,    \* the three atomics
  idle_lock,        \* who holds the mutex of the condition variable
  waiters,          \* the cores waiting in message_waiting_event
  pc, scan, tries,  \* where a thread is; j and tries of CoreMain
  current_time,     \* the ids that were not yet due when the core read the clock
  messages,         \* the rest of the core's messages array
  future_messages,  \* the core's future_messages vector
  sending,          \* the message a thread is sending: its process, timer or not
  target,           \* history: the process of every message pushed
  timers, later,    \* ids that are timers; timers that are not yet due
  executed          \* history: the messages whose execution has ended

queueVars   == <<queues, queue_locks, process_locks>>
idleVars    == <<idle_count, idle_lock, waiters>>
batchVars   == <<current_time, messages, future_messages>>
historyVars == <<target, timers, later, executed>>
vars == <<queueVars, idleVars, batchVars, historyVars, message_count,
          ready_to_exit, pc, scan, tries, sending>>

Ids == 1 .. Len(target)
Nothing == [process |-> 0, timer |-> FALSE]

CorePcs == {"scan", "queue", "grab", "batch", "run", "release", "uncount",
            "end", "nap", "recheck", "sleep", "wait", "exited"}
SendPcs == {"push", "count", "notify"}
MainPcs == {"main", "stored", "join", "done"}

TypeOK ==
  /\ queues \in [Queues -> Seq(Ids)]
  /\ queue_locks \in [Queues -> Cores \cup {NoOne}]
  /\ process_locks \in [Procs -> Cores \cup {NoOne}]
  /\ message_count \in 0 .. Wrap - 1
  /\ idle_count \in 0 .. CoreCount
  /\ ready_to_exit \in {0, 1}
  /\ idle_lock \in Cores \cup {NoOne}
  /\ waiters \subseteq Cores
  /\ pc \in [Threads -> CorePcs \cup SendPcs \cup MainPcs]
  /\ scan \in [Cores -> Queues]
  /\ tries \in [Cores -> 0 .. MaxRetries + 1]
  /\ current_time \in [Cores -> SUBSET Ids]
  /\ messages \in [Cores -> Seq(Ids)]
  /\ future_messages \in [Cores -> Seq(Ids)]
  /\ sending \in [Threads -> [process : Procs, timer : BOOLEAN]]
  /\ target \in Seq(Procs)
  /\ timers \subseteq Ids /\ later \subseteq timers /\ executed \subseteq Ids

Init ==
  /\ queues = [i \in Queues |-> << >>]
  /\ queue_locks = [i \in Queues |-> NoOne]
  /\ process_locks = [p \in Procs |-> NoOne]
  /\ message_count = 0 /\ idle_count = 0 /\ ready_to_exit = 0
  /\ idle_lock = NoOne
  /\ waiters = {}
  /\ pc = [t \in Threads |-> IF t = Main THEN "main" ELSE "scan"]
  /\ scan = [c \in Cores |-> 0]
  /\ tries = [c \in Cores |-> 1]
  /\ current_time = [c \in Cores |-> {}]
  /\ messages = [c \in Cores |-> << >>]
  /\ future_messages = [c \in Cores |-> << >>]
  /\ sending = [t \in Threads |-> Nothing]
  /\ target = << >>
  /\ timers = {} /\ later = {} /\ executed = {}

-----------------------------------------------------------------------------
(* Unsigned arithmetic on message_count: it may go below zero for a while. *)
Plus(n)  == IF message_count + n < Wrap THEN message_count + n
                                        ELSE message_count + n - Wrap
MinusSigned(n) == message_count - n        \* mutant: a signed counter
Minus(n) == IF message_count >= n THEN message_count - n
                                  ELSE message_count - n + Wrap

Awake == CoreCount - idle_count

(* The condition under which a core sleeps, and the last one goes home. *)
MaySleepLate == message_count <= Awake     \* mutant: off by one
MaySleep == message_count < Awake

(* The condition under which a sender wakes a core. *)
MustWakeAll == message_count > CoreCount   \* mutant: all cores, not the awake ones
MustWake == message_count > Awake

(* message_waiting_event.notify_all() *)
NotifyNobody == UNCHANGED waiters          \* mutant: the call is missing
WakeEveryone == waiters' = {}

Go(t, label) == pc' = [pc EXCEPT ![t] = label]

(* The queue core c looks at: (j+id) % queue_count. *)
QueueOf(c) == (scan[c] + c) % CoreCount

(* The loop over j goes on, or ends. *)
NextQueue(c) ==
  /\ scan' = [scan EXCEPT ![c] = IF @ + 1 = CoreCount THEN 0 ELSE @ + 1]
  /\ Go(c, IF scan[c] + 1 = CoreCount THEN "end" ELSE "scan")

-----------------------------------------------------------------------------
(* One core. *)

(* AutoTryLock lock(queue_locks[i]), got. *)
TryQueueHit(c, i) ==
  /\ pc[c] = "scan" /\ i = QueueOf(c)
  /\ queue_locks[i] = NoOne
  /\ queue_locks' = [queue_locks EXCEPT ![i] = c]
  /\ Go(c, "queue")
  /\ UNCHANGED <<queues, process_locks, idleVars, batchVars, historyVars,
                 message_count, ready_to_exit, scan, tries, sending>>

(* ... and not got: held, or (module TryLock) free while a failed attempt  *)
(* of another thread has not been taken back.                              *)
TryQueueMiss(c) ==
  /\ pc[c] = "scan"
  /\ NextQueue(c)
  /\ UNCHANGED <<queueVars, idleVars, batchVars, historyVars, message_count,
                 ready_to_exit, tries, sending>>

(* The AutoTryLock of a process is not got: all attempts are made under    *)
(* the lock of the process's queue, so none fails by contention.           *)
NeverLocked(p) == FALSE                    \* mutant: got_lock is not looked at
Locked(p) == process_locks[p] # NoOne

(* The queue is empty, or the process of its first message is locked. *)
LeaveQueue(c) ==
  LET i == QueueOf(c) IN
  /\ pc[c] = "queue"
  /\ \/ queues[i] = << >>
     \/ queues[i] # << >> /\ Locked(target[Head(queues[i])])
  /\ queue_locks' = [queue_locks EXCEPT ![i] = NoOne]
  /\ NextQueue(c)
  /\ UNCHANGED <<queues, process_locks, idleVars, batchVars, historyVars,
                 message_count, ready_to_exit, tries, sending>>

(* The core reads the clock and locks the process of the first message. *)
LockProcess(c) ==
  LET i == QueueOf(c) IN
  /\ pc[c] = "queue"
  /\ queues[i] # << >>
  /\ LET p == target[Head(queues[i])] IN
       /\ ~Locked(p)
       /\ process_locks' = [process_locks EXCEPT ![p] = c]
  /\ current_time' = [current_time EXCEPT ![c] = later]
  /\ Go(c, "grab")
  /\ UNCHANGED <<queues, queue_locks, idleVars, messages, future_messages,
                 historyVars, message_count, ready_to_exit, scan, tries, sending>>

(* have_message && message.process_ref == locked_process && pop_count < buffer_size *)
MayPop(c) ==
  LET q == queues[QueueOf(c)] IN
  /\ q # << >>
  /\ process_locks[target[Head(q)]] = c
  /\ Len(messages[c]) < BufferSize

(* message.time <= current_time *)
AnyTime(c, m) == TRUE                      \* mutant: the time is not compared
Due(c, m) == m \notin current_time[c]

(* One pop: into messages if it is due, into future_messages otherwise. *)
Pop(c) ==
  LET i == QueueOf(c)
      m == Head(queues[i])
  IN
  /\ pc[c] = "grab"
  /\ MayPop(c)
  /\ queues' = [queues EXCEPT ![i] = Tail(@)]
  /\ \/ /\ Due(c, m)
        /\ messages' = [messages EXCEPT ![c] = Append(@, m)]
        /\ UNCHANGED future_messages
     \/ /\ ~Due(c, m)
        /\ future_messages' = [future_messages EXCEPT ![c] = Append(@, m)]
        /\ UNCHANGED messages
  /\ UNCHANGED <<queue_locks, process_locks, idleVars, current_time, historyVars,
                 message_count, ready_to_exit, pc, scan, tries, sending>>

(* What Commit takes off message_count: one message of the batch is kept   *)
(* back until it is executed.                                              *)
SettledAll(c) == Len(messages[c])          \* mutant: none is kept back
Settled(c) == IF messages[c] = << >> THEN 0 ELSE Len(messages[c]) - 1

(* The messages that are not due go to the end of the queue, and the       *)
(* vector is cleared.                                                      *)
PushBackOnly(c) ==                         \* mutant: the vector is not cleared
  /\ queues' = [queues EXCEPT ![QueueOf(c)] = @ \o future_messages[c]]
  /\ UNCHANGED future_messages
Forget(c) ==                               \* mutant: they are not pushed back
  /\ future_messages' = [future_messages EXCEPT ![c] = << >>]
  /\ UNCHANGED queues
PushBack(c) ==
  /\ queues' = [queues EXCEPT ![QueueOf(c)] = @ \o future_messages[c]]
  /\ future_messages' = [future_messages EXCEPT ![c] = << >>]

(* message_count -= pop_count-1, the messages that are not due go back to  *)
(* the end of the queue, and the queue is unlocked.                        *)
Commit(c) ==
  /\ pc[c] = "grab"
  /\ ~MayPop(c)
  /\ message_count' = Minus(Settled(c))
  /\ PushBack(c)
  /\ current_time' = [current_time EXCEPT ![c] = {}]
  /\ queue_locks' = [queue_locks EXCEPT ![QueueOf(c)] = NoOne]
  /\ Go(c, IF messages[c] = << >> THEN "release" ELSE "batch")
  /\ UNCHANGED <<process_locks, idleVars, messages, historyVars,
                 ready_to_exit, scan, tries, sending>>

(* The next message of the batch goes to ExecuteProcessMessage. *)
Begin(c) ==
  /\ pc[c] = "batch"
  /\ messages[c] # << >>
  /\ Go(c, "run")
  /\ UNCHANGED <<queueVars, idleVars, batchVars, historyVars, message_count,
                 ready_to_exit, scan, tries, sending>>

(* ExecuteProcessMessage returns. *)
Finish(c) ==
  /\ pc[c] = "run"
  /\ executed' = executed \cup {Head(messages[c])}
  /\ messages' = [messages EXCEPT ![c] = Tail(@)]
  /\ Go(c, "batch")
  /\ UNCHANGED <<queueVars, idleVars, current_time, future_messages, target,
                 timers, later, message_count, ready_to_exit, scan, tries, sending>>

Unlocked(c) ==
  [p \in Procs |-> IF process_locks[p] = c THEN NoOne ELSE process_locks[p]]

(* process_lock.unlock() after a batch ... *)
Release(c) ==
  /\ pc[c] = "batch"
  /\ messages[c] = << >>
  /\ process_locks' = Unlocked(c)
  /\ Go(c, "uncount")
  /\ UNCHANGED <<queues, queue_locks, idleVars, batchVars, historyVars,
                 message_count, ready_to_exit, scan, tries, sending>>

(* ... and when nothing was due. *)
ReleaseEmpty(c) ==
  /\ pc[c] = "release"
  /\ process_locks' = Unlocked(c)
  /\ NextQueue(c)
  /\ UNCHANGED <<queues, queue_locks, idleVars, batchVars, historyVars,
                 message_count, ready_to_exit, tries, sending>>

(* --message_count and tries = 0: the message kept back until now. *)
Uncount(c) ==
  /\ pc[c] = "uncount"
  /\ message_count' = Minus(1)
  /\ tries' = [tries EXCEPT ![c] = 0]
  /\ NextQueue(c)
  /\ UNCHANGED <<queueVars, idleVars, batchVars, historyVars, ready_to_exit, sending>>

(* The end of a round over all queues: ++tries of the next, or a nap. *)
EndScan(c) ==
  /\ pc[c] = "end"
  /\ \/ /\ tries[c] <= MaxRetries
        /\ tries' = [tries EXCEPT ![c] = @ + 1]
        /\ Go(c, "scan")
     \/ /\ tries[c] > MaxRetries
        /\ tries' = [tries EXCEPT ![c] = 0]
        /\ Go(c, "nap")
  /\ UNCHANGED <<queueVars, idleVars, batchVars, historyVars, message_count,
                 ready_to_exit, scan, sending>>

(* The core is back at the top of for(;;). *)
Again(c) ==
  /\ tries' = [tries EXCEPT ![c] = 1]
  /\ Go(c, "scan")

(* The unlocked look at the counters after the nap. *)
Nap(c) ==
  /\ pc[c] = "nap"
  /\ \/ ~MaySleep /\ Again(c)
     \/ MaySleep /\ Go(c, "recheck") /\ UNCHANGED tries
  /\ UNCHANGED <<queueVars, idleVars, batchVars, historyVars, message_count,
                 ready_to_exit, scan, sending>>

(* The same condition under idle_lock no longer holds. *)
ChangeMind(c) ==
  /\ pc[c] = "recheck"
  /\ idle_lock = NoOne
  /\ ~MaySleep
  /\ Again(c)
  /\ UNCHANGED <<queueVars, idleVars, batchVars, historyVars, message_count,
                 ready_to_exit, scan, sending>>

(* It holds, this is the last core to become idle, and ready_to_exit is    *)
(* set: notify_all and return.                                             *)
GoHome(c) ==
  /\ pc[c] = "recheck"
  /\ idle_lock = NoOne
  /\ MaySleep
  /\ idle_count + 1 = CoreCount /\ ready_to_exit = 1
  /\ idle_count' = idle_count + 1
  /\ WakeEveryone
  /\ Go(c, "exited")
  /\ UNCHANGED <<queueVars, idle_lock, batchVars, historyVars, message_count,
                 ready_to_exit, scan, tries, sending>>

(* It holds, and the core will wait.  Shutdown can store and notify before *)
(* the wait begins, since it does not take idle_lock.                      *)
FallAsleep(c) ==
  /\ pc[c] = "recheck"
  /\ idle_lock = NoOne
  /\ MaySleep
  /\ ~(idle_count + 1 = CoreCount /\ ready_to_exit = 1)
  /\ idle_lock' = c
  /\ idle_count' = idle_count + 1
  /\ Go(c, "sleep")
  /\ UNCHANGED <<queueVars, waiters, batchVars, historyVars, message_count,
                 ready_to_exit, scan, tries, sending>>

(* message_waiting_event.wait(lock) releases the mutex and waits. *)
Wait(c) ==
  /\ pc[c] = "sleep"
  /\ idle_lock' = NoOne
  /\ waiters' = waiters \cup {c}
  /\ Go(c, "wait")
  /\ UNCHANGED <<queueVars, idle_count, batchVars, historyVars, message_count,
                 ready_to_exit, scan, tries, sending>>

(* The wait ends without a notification. *)
SpuriousWakeup(c) ==
  /\ Spurious
  /\ c \in waiters
  /\ waiters' = waiters \ {c}
  /\ UNCHANGED <<queueVars, idle_count, idle_lock, batchVars, historyVars,
                 message_count, ready_to_exit, pc, scan, tries, sending>>

(* The wait returns with the mutex.  The condition to leave is the code's: *)
(* with idle_count = core_count it asks for message_count < 0.             *)
Wake(c) ==
  /\ pc[c] = "wait" /\ c \notin waiters
  /\ idle_lock = NoOne
  /\ IF MaySleep /\ idle_count = CoreCount /\ ready_to_exit = 1
     THEN Go(c, "exited") /\ UNCHANGED <<idle_count, tries>>
     ELSE idle_count' = idle_count - 1 /\ Again(c)
  /\ UNCHANGED <<queueVars, idle_lock, waiters, batchVars, historyVars,
                 message_count, ready_to_exit, scan, sending>>

-----------------------------------------------------------------------------
(* SendMessage, by a handler running on a core or by the main thread. *)

Sending == {t \in Threads : pc[t] = "push"}

(* The call: a message to any process, or a timer, which is a message to   *)
(* the caller's own process.  The main thread runs as process 0.           *)
StartSend(t, p, timer) ==
  /\ pc[t] \in {"run", "main"}
  /\ Len(target) + Cardinality(Sending) < MaxMessages
  /\ timer => /\ p = IF t = Main THEN 0 ELSE target[Head(messages[t])]
              /\ Cardinality(timers) + Cardinality({u \in Sending : sending[u].timer}) < MaxTimers
  /\ sending' = [sending EXCEPT ![t] = [process |-> p, timer |-> timer]]
  /\ Go(t, "push")
  /\ UNCHANGED <<queueVars, idleVars, batchVars, historyVars, message_count,
                 ready_to_exit, scan, tries>>

(* try_again until the queue is locked, push, unlock. *)
Push(t) ==
  LET s == sending[t]
      m == Len(target) + 1
  IN
  /\ pc[t] = "push"
  /\ queue_locks[Home(s.process)] = NoOne
  /\ queues' = [queues EXCEPT ![Home(s.process)] = Append(@, m)]
  /\ target' = Append(target, s.process)
  /\ timers' = IF s.timer THEN timers \cup {m} ELSE timers
  /\ later' = IF s.timer THEN later \cup {m} ELSE later
  /\ Go(t, "count")
  /\ UNCHANGED <<queue_locks, process_locks, idleVars, batchVars, executed,
                 message_count, ready_to_exit, scan, tries, sending>>

(* ++message_count *)
Count(t) ==
  /\ pc[t] = "count"
  /\ message_count' = Plus(1)
  /\ Go(t, "notify")
  /\ UNCHANGED <<queueVars, idleVars, batchVars, historyVars, ready_to_exit,
                 scan, tries, sending>>

(* Under idle_lock: notify_one if there are more messages than awake cores. *)
Notify(t) ==
  /\ pc[t] = "notify"
  /\ idle_lock = NoOne
  /\ IF MustWake /\ waiters # {}
     THEN \E w \in waiters : waiters' = waiters \ {w}
     ELSE UNCHANGED waiters
  /\ sending' = [sending EXCEPT ![t] = Nothing]
  /\ Go(t, IF t = Main THEN "main" ELSE "run")
  /\ UNCHANGED <<queueVars, idle_count, idle_lock, batchVars, historyVars,
                 message_count, ready_to_exit, scan, tries>>

-----------------------------------------------------------------------------
(* Shutdown, by the main thread. *)

StoreReady ==
  /\ pc[Main] = "main"
  /\ ready_to_exit' = 1
  /\ Go(Main, "stored")
  /\ UNCHANGED <<queueVars, idleVars, batchVars, historyVars, message_count,
                 scan, tries, sending>>

NotifyAll ==
  /\ pc[Main] = "stored"
  /\ WakeEveryone
  /\ Go(Main, "join")
  /\ UNCHANGED <<queueVars, idle_count, idle_lock, batchVars, historyVars,
                 message_count, ready_to_exit, scan, tries, sending>>

Join ==
  /\ pc[Main] = "join"
  /\ \A c \in Cores : pc[c] = "exited"
  /\ Go(Main, "done")
  /\ UNCHANGED <<queueVars, idleVars, batchVars, historyVars, message_count,
                 ready_to_exit, scan, tries, sending>>

(* Time passes: a timer's time comes. *)
Expire(m) ==
  /\ m \in later
  /\ later' = later \ {m}
  /\ UNCHANGED <<queueVars, idleVars, batchVars, target, timers, executed,
                 message_count, ready_to_exit, pc, scan, tries, sending>>

-----------------------------------------------------------------------------
CoreStep(c) ==
  \/ TryQueueMiss(c) \/ \E i \in Queues : TryQueueHit(c, i)
  \/ LeaveQueue(c) \/ LockProcess(c) \/ Pop(c) \/ Commit(c)
  \/ Begin(c) \/ Finish(c) \/ Release(c) \/ ReleaseEmpty(c) \/ Uncount(c)
  \/ EndScan(c) \/ Nap(c) \/ ChangeMind(c) \/ GoHome(c)
  \/ FallAsleep(c) \/ Wait(c) \/ Wake(c)
SendMessage(t) == Push(t) \/ Count(t) \/ Notify(t)
Shutdown == StoreReady \/ NotifyAll \/ Join

Next ==
  \/ \E c \in Cores : CoreStep(c) \/ SpuriousWakeup(c)
  \/ \E t \in Threads : SendMessage(t) \/ \E p \in Procs, b \in BOOLEAN : StartSend(t, p, b)
  \/ Shutdown
  \/ \E m \in later : Expire(m)

Spec == Init /\ [][Next]_vars

(* The operating system runs every thread, handlers end, and time passes.  *)
(* A queue lock that is free again and again is got at some time: the code *)
(* only spins, or sleeps, and tries again.  Nobody has to send or to call  *)
(* Shutdown, but a Shutdown that began goes on.                            *)
Fairness ==
  /\ \A c \in Cores : WF_vars(CoreStep(c) \/ SendMessage(c))
  /\ \A c \in Cores, i \in Queues : SF_vars(TryQueueHit(c, i))
  /\ \A t \in Threads : SF_vars(Push(t))
  /\ WF_vars(SendMessage(Main) \/ NotifyAll \/ Join)
  /\ \A m \in 1 .. MaxMessages : WF_vars(Expire(m))

FairSpec == Spec /\ Fairness

-----------------------------------------------------------------------------
Elements(s) == {s[k] : k \in 1 .. Len(s)}

(* Messages in a queue, or taken out of it but not yet committed. *)
Pending ==
  {m \in Ids : \/ \E i \in Queues : m \in Elements(queues[i])
               \/ \E c \in Cores : /\ pc[c] = "grab"
                                   /\ m \in Elements(messages[c]) \cup Elements(future_messages[c])}

(* Cores that kept back the signal of one message of their batch. *)
Busy == {c \in Cores : pc[c] \in {"batch", "run", "uncount"} \cup SendPcs}

(* Threads between the push of a message and its ++message_count. *)
Uncounted == {t \in Threads : pc[t] = "count"}

(* message_count, which is raised after a push and lowered in two parts,   *)
(* is always the number of messages waiting plus one for every core at     *)
(* work, less the messages not counted yet: no path counts a message twice *)
(* or not at all.  It goes below zero when a core is done with a message   *)
(* before its sender has counted it, and only then.                        *)
CountExact ==
  LET n == Cardinality(Pending) + Cardinality(Busy) - Cardinality(Uncounted)
  IN message_count = IF n < 0 THEN n + Wrap ELSE n

(* A process runs on one core at a time, and a core that runs a message of *)
(* a process holds that process's lock.                                    *)
Running(c) == pc[c] \in {"run"} \cup SendPcs
Exclusive ==
  /\ \A c \in Cores : Running(c) => process_locks[target[Head(messages[c])]] = c
  /\ \A c, d \in Cores :
       Running(c) /\ Running(d) /\ target[Head(messages[c])] = target[Head(messages[d])]
         => c = d

(* A message is in one place only: no queue, batch or vector of future     *)
(* messages holds it twice, and none holds an executed message.            *)
Places(m, f) == UNION {{d} \X {k \in DOMAIN f[d] : f[d][k] = m} : d \in DOMAIN f}
OncePlaced ==
  \A m \in Ids :
    Cardinality(Places(m, queues)) + Cardinality(Places(m, messages))
      + Cardinality(Places(m, future_messages)) = IF m \in executed THEN 0 ELSE 1

(* The messages one process receives are executed in the order they were   *)
(* pushed, timers apart: a batch, its limit, the messages pushed back and  *)
(* the next core to lock the process never let one overtake another.       *)
Fifo ==
  \A m \in executed, k \in Ids :
    k < m /\ target[k] = target[m] /\ m \notin timers /\ k \notin timers
      => k \in executed

(* When a core has gone home nothing is left to do: every message, timers  *)
(* included, has been executed, and Shutdown has nothing to report.        *)
Drained ==
  \A c \in Cores : pc[c] = "exited" => executed = Ids /\ message_count = 0

(* The sleep rule: unless a sender is about to look, as many cores are     *)
(* awake as there are messages waiting and being executed, or all are.     *)
(* Cores decide to sleep, and senders to wake one, on counters that other  *)
(* threads change meanwhile.                                               *)
AwakeCores == {c \in Cores : pc[c] \notin {"sleep", "exited"} /\ c \notin waiters}
EnoughAwake ==
  \/ \E t \in Threads : pc[t] \in {"count", "notify"}
  \/ AwakeCores = Cores
  \/ Cardinality(AwakeCores) >= Cardinality(Pending) + Cardinality(Busy)

(* No wakeup is lost.  When every core that has not gone home waits on the *)
(* condition variable, no message waits, unless its sender is about to     *)
(* look; and it is not after notify_all of Shutdown, which is called       *)
(* without the mutex and may come between a core's test and its wait.      *)
Resting(c) == pc[c] = "exited" \/ c \in waiters
NoLostWakeup ==
  (\A c \in Cores : Resting(c)) =>
    /\ Pending = {} \/ \E t \in Threads : pc[t] \in {"count", "notify"}
    /\ pc[Main] \in {"join", "done"} => \A c \in Cores : pc[c] = "exited"

(* No lock is left behind.  The lock of a queue is held by the core that   *)
(* looks at that queue, the lock of a process by one that has a batch of   *)
(* it or collects one: a core that goes on to another queue, naps, sleeps  *)
(* or goes home holds none, on any way out of the job loop.                *)
NoLockLeft ==
  /\ \A c \in Cores, i \in Queues :
       queue_locks[i] = c => pc[c] \in {"queue", "grab"} /\ i = QueueOf(c)
  /\ \A c \in Cores, p \in Procs :
       process_locks[p] = c => pc[c] \in {"grab", "batch", "release"} \/ Running(c)
  /\ \A c \in Cores, p, q \in Procs : process_locks[p] = c /\ process_locks[q] = c => p = q

(* The scheduler implements the actor system: messages of one process run  *)
(* one at a time and in order, timers not before their time, and once the  *)
(* first core has gone home everything is done and nothing more is sent.   *)
Actors == INSTANCE ActorSystem WITH
            running <- {Head(messages[c]) : c \in {d \in Cores : Running(d)}},
            down    <- \E c \in Cores : pc[c] = "exited"
RefinesActors == Actors!Spec

-----------------------------------------------------------------------------
(* Every message pushed is executed. *)
Delivered == []<>(executed = Ids)

(* Shutdown returns. *)
ShutdownReturns == ready_to_exit = 1 ~> pc[Main] = "done"

=============================================================================
