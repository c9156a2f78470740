------------------------------ MODULE Promises ------------------------------
(***************************************************************************)
(* What processes do with the messages the scheduler hands them: run the   *)
(* method, answer the promise, notify its owner, and evaluate the `when`   *)
(* and `whenever` blocks (ExecuteProcessMessage in eople_vm.cpp and the    *)
(* instructions of eople_control_flow.cpp and eople_stdlib.cpp it runs).   *)
(*                                                                         *)
(* One core at a time runs a process and it takes the messages in order:   *)
(* that is what Scheduler promises (Exclusive, Fifo), so a process is a    *)
(* thread of its own here.  The bodies of methods and blocks are any       *)
(* sequence of the instructions that touch another process or a promise.   *)
(* A body cut short by a runtime_error is a shorter sequence.              *)
(***************************************************************************)
EXTENDS Naturals, FiniteSets, SequencesExt

CONSTANTS Procs,        \* the processes
          Unlocked,     \* those whose first code another thread runs: the
                        \* main process and every process being constructed
          Spawned,      \* those `spawn(f)` gives a first message
          RegisterIn,   \* where programs register blocks
          MaxGuards,    \* promises in one condition
          BufferSize,   \* messages a core takes at once (16 in the code)
          MaxRequests,  \* bound: messages and timers sent in a behaviour
          MaxBlocks     \* bound: blocks registered in a behaviour

None == 0
ASSUME PromisesAssumption ==
  /\ None \notin Procs                      \* a process is never the null pointer
  /\ Unlocked \subseteq Procs /\ Spawned \subseteq Procs
  /\ RegisterIn \subseteq {"starting", "body", "when_body", "whenever_body"}
  /\ BufferSize \in Nat \ {0} /\ MaxGuards \in Nat \ {0}
  /\ MaxRequests \in Nat /\ MaxBlocks \in Nat

Ids == 1 .. MaxRequests
BlockIds == 1 .. MaxBlocks

\* CallData: whether it calls a function, the promise to answer (or, without
\* a function, the promise that became ready), and a promise among the args.
Messages == [call : BOOLEAN, promise : Ids \cup {None}, arg : Ids \cup {None}]
Call(pr, a) == [call |-> TRUE, promise |-> pr, arg |-> a]
Notice(pr) == [call |-> FALSE, promise |-> pr, arg |-> None]

\* A WhenBlock: the promises its condition names, in order, from its closure.
BlockRecords == [id : BlockIds, on : Seq(Ids)]
Conditions(S) == UNION {Injection(1 .. n, S) : n \in 1 .. MaxGuards}

VARIABLES
  mailbox, batch, current,       \* messages queued, taken by the core, in execution
  pc, at,                        \* where ExecuteProcessMessage is, and its index i
  when_blocks, whenever_blocks,
  holds,                         \* the promises a process's code can name
  owner, timers, value, is_ready,
  starting,                      \* processes whose first code is still running
  calls,                         \* messages sent that ask for no answer
  ran                            \* history: how often each block ran

messages == <<mailbox, batch, current>>
control == <<pc, at>>
blocks == <<when_blocks, whenever_blocks>>
promises == <<owner, timers, value, is_ready>>
vars == <<messages, control, blocks, holds, promises, starting, calls, ran>>

Made == {pr \in Ids : owner[pr] # None}
Registered == {id \in BlockIds :
                 \/ ran[id] > 0
                 \/ \E p \in Procs : \E b \in ToSet(when_blocks[p]) \cup ToSet(whenever_blocks[p]) : b.id = id}

Init ==
  /\ mailbox = [p \in Procs |-> IF p \in Spawned THEN <<Call(None, None)>> ELSE <<>>]
  /\ batch = [p \in Procs |-> <<>>]
  /\ current = [p \in Procs |-> Notice(None)]
  /\ pc = [p \in Procs |-> "idle"]
  /\ at = [p \in Procs |-> 1]
  /\ when_blocks = [p \in Procs |-> <<>>]
  /\ whenever_blocks = [p \in Procs |-> <<>>]
  /\ holds = [p \in Procs |-> {}]
  /\ owner = [pr \in Ids |-> None]
  /\ timers = {} /\ value = {} /\ is_ready = {}
  /\ starting = Unlocked
  /\ calls = 0
  /\ ran = [b \in BlockIds |-> 0]

-----------------------------------------------------------------------------
(* Instructions: what the running code of process p may do.                *)

Bodies == {"body", "when_body", "whenever_body"}
Executing(p) == p \in starting \/ pc[p] \in Bodies
Registering(p) == \/ p \in starting /\ "starting" \in RegisterIn
                  \/ pc[p] \in Bodies \cap RegisterIn

\* SendMessage: the scheduler's part is in Scheduler.
SendMessage(q, m) == mailbox' = [mailbox EXCEPT ![q] = Append(@, m)]

\* new Promise(p)
MayRequest == Cardinality(Made) + calls < MaxRequests
Fresh == IF MayRequest THEN {Cardinality(Made) + 1} ELSE {}
NewPromise(p, pr) == /\ owner' = [owner EXCEPT ![pr] = p]
                     /\ holds' = [holds EXCEPT ![p] = @ \cup {pr}]

\* A method that returns nothing is sent without a promise.
ProcessMessage(p, q) ==
  /\ Executing(p)
  /\ \E a \in {None} \cup holds[p] :
       \/ \E pr \in Fresh : /\ NewPromise(p, pr)
                            /\ SendMessage(q, Call(pr, a))
                            /\ UNCHANGED calls
       \/ /\ MayRequest
          /\ calls' = calls + 1
          /\ SendMessage(q, Call(None, a))
          /\ UNCHANGED <<owner, holds>>
  /\ UNCHANGED <<batch, current, control, blocks, timers, value, is_ready, starting, ran>>

\* after(ms): the message is dated, it stays out of reach until Expire.
Timer(p) ==
  /\ Executing(p)
  /\ \E pr \in Fresh : NewPromise(p, pr) /\ timers' = timers \cup {pr}
  /\ UNCHANGED <<messages, control, blocks, value, is_ready, starting, calls, ran>>

\* Blocks on any promise named alone or on the conjunction of several.
NewBlocks(p) == {[id |-> id, on |-> c] :
                   id \in {i \in BlockIds : i = Cardinality(Registered) + 1},
                   c \in Conditions(holds[p])}

WhenRegister(p) ==
  /\ Registering(p)
  /\ \E b \in NewBlocks(p) : when_blocks' = [when_blocks EXCEPT ![p] = Append(@, b)]
  /\ UNCHANGED <<messages, control, whenever_blocks, holds, promises, starting, calls, ran>>

WheneverRegister(p) ==
  /\ Registering(p)
  /\ \E b \in NewBlocks(p) :
       whenever_blocks' = [whenever_blocks EXCEPT ![p] = Append(@, b)]
  /\ UNCHANGED <<messages, control, when_blocks, holds, promises, starting, calls, ran>>

\* main() or a constructor comes to its Return: nothing is evaluated.
FirstReturn(p) ==
  /\ p \in starting
  /\ starting' = starting \ {p}
  /\ UNCHANGED <<messages, control, blocks, holds, promises, calls, ran>>

Instruction(p) == \/ \E q \in Procs : ProcessMessage(p, q)
                  \/ Timer(p) \/ WhenRegister(p) \/ WheneverRegister(p)

-----------------------------------------------------------------------------
(* The core that has the process.                                          *)

Goto(p, l) == pc' = [pc EXCEPT ![p] = l] /\ UNCHANGED at
GotoAt(p, l, i) == pc' = [pc EXCEPT ![p] = l] /\ at' = [at EXCEPT ![p] = i]

\* A timer's message comes of age.  Cores push it back behind later messages
\* until then, so it may sit anywhere in the queue.
Expire(pr) ==
  /\ pr \in timers \ is_ready
  /\ Notice(pr) \notin ToSet(mailbox[owner[pr]])
  /\ \E i \in 1 .. Len(mailbox[owner[pr]]) + 1 :
       mailbox' = [mailbox EXCEPT ![owner[pr]] = InsertAt(@, i, Notice(pr))]
  /\ UNCHANGED <<batch, current, control, blocks, holds, promises, starting, calls, ran>>

\* CoreMain pops up to a buffer of messages and marks the timers among them.
Take(p) ==
  /\ pc[p] = "idle" /\ batch[p] = <<>>
  /\ \E n \in 1 .. Len(mailbox[p]) :
       /\ n <= BufferSize
       /\ batch' = [batch EXCEPT ![p] = SubSeq(mailbox[p], 1, n)]
       /\ mailbox' = [mailbox EXCEPT ![p] = SubSeq(@, n + 1, Len(@))]
       /\ is_ready' = is_ready \cup ({mailbox[p][i].promise : i \in 1 .. n} \cap timers)
  /\ UNCHANGED <<current, control, blocks, holds, owner, timers, value, starting, calls, ran>>

\* ExecuteProcessMessage sets up the frame of the method, if there is one.
Begin(p) ==
  /\ pc[p] = "idle" /\ batch[p] # <<>>
  /\ LET m == Head(batch[p]) IN
       /\ current' = [current EXCEPT ![p] = m]
       /\ GotoAt(p, IF m.call THEN "body" ELSE "whens", 1)
       /\ holds' = [holds EXCEPT ![p] = @ \cup ({m.arg} \ {None})]
  /\ batch' = [batch EXCEPT ![p] = Tail(@)]
  /\ UNCHANGED <<mailbox, blocks, promises, starting, calls, ran>>

ReturnNil(p) ==                            \* mutant: the caller is forgotten
  /\ pc[p] = "body"
  /\ Goto(p, "whens")
  /\ UNCHANGED <<messages, blocks, holds, promises, starting, calls, ran>>
Return(p) ==
  /\ pc[p] = "body"
  /\ Goto(p, IF current[p].promise # None THEN "value" ELSE "whens")
  /\ UNCHANGED <<messages, blocks, holds, promises, starting, calls, ran>>

\* The answer: the value, the flag, and a message to whoever asked.
StoreValueLate(p) ==                       \* mutant: the flag goes up first
  /\ pc[p] = "value"
  /\ is_ready' = is_ready \cup {current[p].promise}
  /\ Goto(p, "ready")
  /\ UNCHANGED <<messages, blocks, holds, owner, timers, value, starting, calls, ran>>
StoreValue(p) ==
  /\ pc[p] = "value"
  /\ value' = value \cup {current[p].promise}
  /\ Goto(p, "ready")
  /\ UNCHANGED <<messages, blocks, holds, owner, timers, is_ready, starting, calls, ran>>

MarkReady(p) ==
  /\ pc[p] = "ready"
  /\ is_ready' = is_ready \cup {current[p].promise}
  /\ Goto(p, "notify")
  /\ UNCHANGED <<messages, blocks, holds, owner, timers, value, starting, calls, ran>>

NotifyCallee(p) ==                         \* mutant: the wrong process is told
  /\ pc[p] = "notify"
  /\ SendMessage(p, Notice(current[p].promise))
  /\ GotoAt(p, "whens", 1)
  /\ UNCHANGED <<batch, current, blocks, holds, promises, starting, calls, ran>>
Notify(p) ==
  /\ pc[p] = "notify"
  /\ SendMessage(owner[current[p].promise], Notice(current[p].promise))
  /\ GotoAt(p, "whens", 1)
  /\ UNCHANGED <<batch, current, blocks, holds, promises, starting, calls, ran>>

-----------------------------------------------------------------------------
(* The blocks of the process, evaluated after every message.               *)

\* when_blocks[i] = std::move(when_blocks.back()); when_blocks.pop_back();
SwapRemove(s, i) == Front([s EXCEPT ![i] = Last(s)])

\* The condition, by the instruction Ready.  Its walk along promises that hold
\* promises never starts, since no instruction tags a value as a promise.  The
\* code generator leaves the answer for every promise of a condition in one
\* stack slot, so what `and` finds there is the answer for the last of them.
Ready(b) == Last(b.on) \in is_ready

Whens(p) == pc[p] = "whens" /\ at[p] <= Len(when_blocks[p])
When(p) ==
  /\ Whens(p) /\ Ready(when_blocks[p][at[p]])
  /\ ran' = [ran EXCEPT ![when_blocks[p][at[p]].id] = @ + 1]
  /\ Goto(p, "when_body")
  /\ UNCHANGED <<messages, blocks, holds, promises, starting, calls>>

WhenNotYet(p) ==
  /\ Whens(p) /\ ~Ready(when_blocks[p][at[p]])
  /\ GotoAt(p, "whens", at[p] + 1)
  /\ UNCHANGED <<messages, blocks, holds, promises, starting, calls, ran>>

\* The block is removed and the index stays: another block is there now.
\* A return in the body is not looked at.
StepBack(p) ==                             \* mutant: the index steps back
  /\ pc[p] = "when_body"
  /\ when_blocks' = [when_blocks EXCEPT ![p] = SwapRemove(@, at[p])]
  /\ GotoAt(p, "whens", at[p] - 1)
  /\ UNCHANGED <<messages, whenever_blocks, holds, promises, starting, calls, ran>>
KeepWhen(p) ==                             \* mutant: the block stays
  /\ pc[p] = "when_body"
  /\ GotoAt(p, "whens", at[p] + 1)
  /\ UNCHANGED <<messages, blocks, holds, promises, starting, calls, ran>>
SkipWhen(p) ==                             \* mutant: the index moves on
  /\ pc[p] = "when_body"
  /\ when_blocks' = [when_blocks EXCEPT ![p] = SwapRemove(@, at[p])]
  /\ GotoAt(p, "whens", at[p] + 1)
  /\ UNCHANGED <<messages, whenever_blocks, holds, promises, starting, calls, ran>>
EndWhen(p) ==
  /\ pc[p] = "when_body"
  /\ when_blocks' = [when_blocks EXCEPT ![p] = SwapRemove(@, at[p])]
  /\ Goto(p, "whens")
  /\ UNCHANGED <<messages, whenever_blocks, holds, promises, starting, calls, ran>>

SkipWhenevers(p) ==                        \* mutant: only the one kind is evaluated
  /\ pc[p] = "whens" /\ at[p] > Len(when_blocks[p])
  /\ GotoAt(p, "idle", 1)
  /\ UNCHANGED <<messages, blocks, holds, promises, starting, calls, ran>>
WhensDone(p) ==
  /\ pc[p] = "whens" /\ at[p] > Len(when_blocks[p])
  /\ GotoAt(p, "whenevers", 1)
  /\ UNCHANGED <<messages, blocks, holds, promises, starting, calls, ran>>

Whenevers(p) == pc[p] = "whenevers" /\ at[p] <= Len(whenever_blocks[p])
Whenever(p) ==
  /\ Whenevers(p) /\ Ready(whenever_blocks[p][at[p]])
  /\ ran' = [ran EXCEPT ![whenever_blocks[p][at[p]].id] = @ + 1]
  /\ Goto(p, "whenever_body")
  /\ UNCHANGED <<messages, blocks, holds, promises, starting, calls>>

WheneverNotYet(p) ==
  /\ Whenevers(p) /\ ~Ready(whenever_blocks[p][at[p]])
  /\ GotoAt(p, "whenevers", at[p] + 1)
  /\ UNCHANGED <<messages, blocks, holds, promises, starting, calls, ran>>

\* The closure is captured again: the body may have stored other promises in
\* the variables of the condition.  Whether the body returned is lost, the
\* result is overwritten with true, so the block is never removed.
Captures(b, S) ==
  {b} \cup {[id |-> b.id, on |-> [b.on EXCEPT ![k] = pr]] : k \in DOMAIN b.on, pr \in S}
EndWhenever(p) ==
  /\ pc[p] = "whenever_body"
  /\ \E b \in Captures(whenever_blocks[p][at[p]], holds[p]) :
       whenever_blocks' = [whenever_blocks EXCEPT ![p][at[p]] = b]
  /\ GotoAt(p, "whenevers", at[p] + 1)
  /\ UNCHANGED <<messages, when_blocks, holds, promises, starting, calls, ran>>

WheneversDone(p) ==
  /\ pc[p] = "whenevers" /\ at[p] > Len(whenever_blocks[p])
  /\ GotoAt(p, "idle", 1)
  /\ UNCHANGED <<messages, blocks, holds, promises, starting, calls, ran>>

-----------------------------------------------------------------------------
\* ExecuteProcessMessage, without the instructions of the bodies it runs.
CoreStep(p) ==
  \/ Begin(p) \/ Return(p)
  \/ StoreValue(p) \/ MarkReady(p) \/ Notify(p)
  \/ When(p) \/ WhenNotYet(p) \/ EndWhen(p) \/ WhensDone(p)
  \/ Whenever(p) \/ WheneverNotYet(p) \/ EndWhenever(p) \/ WheneversDone(p)

Next == \/ \E p \in Procs : Take(p) \/ CoreStep(p) \/ Instruction(p) \/ FirstReturn(p)
        \/ \E pr \in Ids : Expire(pr)

\* The scheduler gets to every message (Delivered), bodies come to an end,
\* and time passes.
Fairness == /\ \A p \in Procs : /\ WF_vars(Take(p))
                                /\ WF_vars(CoreStep(p))
                                /\ WF_vars(FirstReturn(p))
            /\ \A pr \in Ids : WF_vars(Expire(pr))

Spec == Init /\ [][Next]_vars /\ Fairness

-----------------------------------------------------------------------------
TypeOK ==
  /\ mailbox \in [Procs -> Seq(Messages)]
  /\ batch \in [Procs -> Seq(Messages)]
  /\ current \in [Procs -> Messages]
  /\ pc \in [Procs -> Bodies \cup {"idle", "value", "ready", "notify", "whens", "whenevers"}]
  /\ at \in [Procs -> Nat \ {0}]
  /\ when_blocks \in [Procs -> Seq(BlockRecords)]
  /\ whenever_blocks \in [Procs -> Seq(BlockRecords)]
  /\ holds \in [Procs -> SUBSET Ids]
  /\ owner \in [Ids -> Procs \cup {None}]
  /\ timers \subseteq Ids /\ value \subseteq Ids /\ is_ready \subseteq Ids
  /\ starting \subseteq Procs
  /\ calls \in 0 .. MaxRequests
  /\ ran \in [BlockIds -> Nat]

(* A result flagged as ready can be read: GetValue in a block that any     *)
(* other message sets off, before the notice comes, finds the value that   *)
(* ExecuteProcessMessage stored.                                           *)
ReadyHasValue == is_ready \ timers \subseteq value

(* Every call that made a promise answers it, and once only.  A promise    *)
(* that is neither ready nor a timer is carried by exactly one message,    *)
(* waiting, taken or in execution; one that is ready by none, so that no   *)
(* block sees a result change under it.                                    *)
Answering(p) == pc[p] \in {"body", "value", "ready"}
Line(p) == (IF Answering(p) THEN <<current[p]>> ELSE << >>) \o batch[p] \o mailbox[p]
Carriers(pr) ==
  UNION {{p} \X {i \in DOMAIN Line(p) : Line(p)[i].call /\ Line(p)[i].promise = pr} : p \in Procs}
AnsweredOnce ==
  \A pr \in Made \ timers : Cardinality(Carriers(pr)) = IF pr \in is_ready THEN 0 ELSE 1

(* A scan leaves nothing behind.  When the `when` blocks of a process have *)
(* been gone through, with blocks removed by swapping and registered by    *)
(* the bodies on the way, any block left whose promises are ready by now   *)
(* has the notice of one of them still to come.                            *)
Own(p) == {pr \in Ids : owner[pr] = p}
Told(p, S) == \E pr \in S :
                \/ Notice(pr) \in ToSet(mailbox[p]) \cup ToSet(batch[p])
                \/ \E q \in Procs : pc[q] = "notify" /\ current[q].promise = pr
ScanComplete ==
  [][\A p \in Procs : pc[p] = "whens" /\ pc'[p] = "whenevers" =>
       \A b \in ToSet(when_blocks[p]) :
         ToSet(b.on) \subseteq is_ready \cap Own(p) => Told(p, ToSet(b.on))]_vars

(* No block is stranded.  A process at rest with an empty mailbox has no   *)
(* block on promises of its own that are all ready, unless the answer that *)
(* made it so is about to be notified: the order "flag, then message, then *)
(* evaluate after every message" leaves no gap for a wakeup to fall into.  *)
AtRest(p) == pc[p] = "idle" /\ batch[p] = <<>> /\ mailbox[p] = <<>> /\ p \notin starting
WaitingBlocks(p) == {b \in ToSet(when_blocks[p]) \cup ToSet(whenever_blocks[p]) : ran[b.id] = 0}
NotStranded ==
  \A p \in Procs : AtRest(p) =>
    \A b \in WaitingBlocks(p) :
      ToSet(b.on) \subseteq is_ready \cap Own(p) => Told(p, ToSet(b.on))

(* Every block, of either kind, whose promises are made by its process and *)
(* are all ready comes to run.                                             *)
BlocksRun ==
  \A id \in BlockIds :
    (\E p \in Procs : \E b \in WaitingBlocks(p) :
       b.id = id /\ ToSet(b.on) \subseteq is_ready \cap Own(p)) ~> ran[id] > 0

(* A method that is called answers, whatever else its process does.        *)
Answered == \A pr \in Ids : owner[pr] # None ~> pr \in is_ready

(* A block runs only when every promise its condition names is ready.      *)
RunsWhenReady ==
  [][\A p \in Procs : \A b \in ToSet(when_blocks[p]) \cup ToSet(whenever_blocks[p]) :
       ran'[b.id] # ran[b.id] => ToSet(b.on) \subseteq is_ready]_vars

(* The blocks and promises of all processes together behave as Futures: a  *)
(* promise is resolved once, and a `when` block runs once, never before    *)
(* the promise that its condition looks at, which is the last one named.   *)
(* A block that runs is no longer waiting.                                 *)
Waits(p) == {j \in DOMAIN when_blocks[p] : ~(pc[p] = "when_body" /\ j = at[p])}
Entry(b) == <<b.id, {Last(b.on)}>>
Waiting == UNION {{Entry(when_blocks[p][j]) : j \in Waits(p)} : p \in Procs}
WheneverIds == {id \in BlockIds : \E p \in Procs : \E b \in ToSet(whenever_blocks[p]) : b.id = id}
F == INSTANCE Futures WITH
       Promises <- Ids, Blocks <- BlockIds,
       resolved <- is_ready, waiting <- Waiting,
       ran <- {id \in BlockIds : ran[id] > 0} \ WheneverIds
RefinesFutures == F!Spec
=============================================================================
