--------------------------- MODULE PromisesProofs ---------------------------
(***************************************************************************)
(* Proofs about promises, `when` and `whenever`, for every set of          *)
(* processes and every number of messages, timers and blocks.              *)
(***************************************************************************)
EXTENDS Promises, FiniteSetTheorems, SequenceTheorems, TLAPS

Pcs == Bodies \cup {"idle", "value", "ready", "notify", "whens", "whenevers"}

(* The block whose body runs is there, and who answers has a promise.      *)
BodyShape ==
  \A p \in Procs :
    /\ pc[p] = "when_body" => at[p] <= Len(when_blocks[p])
    /\ pc[p] = "whenever_body" => at[p] <= Len(whenever_blocks[p])
    /\ pc[p] \in {"value", "ready", "notify"} => current[p].promise \in Ids

IInv == TypeOK /\ BodyShape

-----------------------------------------------------------------------------
USE DEF messages, control, blocks, promises

(* The records are what they are. *)
LEMMA MessageTypes ==
  /\ \A pr \in Ids \cup {None}, a \in Ids \cup {None} : Call(pr, a) \in Messages
  /\ \A pr \in Ids \cup {None} : Notice(pr) \in Messages
  /\ \A m \in Messages : m.call \in BOOLEAN /\ m.promise \in Ids \cup {None} /\ m.arg \in Ids \cup {None}
  BY DEF Messages, Call, Notice

LEMMA MadeFinite ==
  ASSUME TypeOK
  PROVE  IsFiniteSet(Made) /\ Cardinality(Made) \in Nat /\ Fresh \subseteq Ids
<1>1. IsFiniteSet(Ids)
  BY FS_Interval, PromisesAssumption DEF Ids
<1>2. IsFiniteSet(Made) /\ Cardinality(Made) \in Nat
  BY <1>1, FS_Subset, FS_CardinalityType DEF Made
<1>3. Fresh \subseteq Ids
  BY <1>2, PromisesAssumption DEF Fresh, MayRequest, Ids, TypeOK
<1> QED
  BY <1>2, <1>3

LEMMA ConditionTypes ==
  ASSUME NEW S, S \subseteq Ids, NEW c \in Conditions(S)
  PROVE  c \in Seq(Ids) /\ c # << >>
<1>1. PICK n \in 1 .. MaxGuards : c \in Injection(1 .. n, S)
  BY DEF Conditions
<1>2. n \in Nat \ {0} /\ c \in [1 .. n -> S]
  BY <1>1, PromisesAssumption DEF Injection
<1>3. c \in [1 .. n -> Ids]
  BY <1>2
<1> QED
  BY <1>2, <1>3

(* What a process that moves on keeps. *)
LEMMA Moves ==
  ASSUME TypeOK, NEW p \in Procs, NEW l \in Pcs
  PROVE  /\ Goto(p, l) => /\ pc' \in [Procs -> Pcs] /\ pc'[p] = l /\ at' = at
                          /\ \A q \in Procs : q # p => pc'[q] = pc[q]
         /\ \A i \in Nat \ {0} : GotoAt(p, l, i) =>
              /\ pc' \in [Procs -> Pcs] /\ pc'[p] = l
              /\ at' \in [Procs -> Nat \ {0}] /\ at'[p] = i
              /\ \A q \in Procs : q # p => pc'[q] = pc[q] /\ at'[q] = at[q]
<1>1. pc \in [Procs -> Pcs] /\ at \in [Procs -> Nat \ {0}]
  BY DEF TypeOK, Pcs
<1> QED
  BY <1>1 DEF Goto, GotoAt

LEMMA Sent ==
  ASSUME TypeOK, NEW q, NEW m \in Messages, SendMessage(q, m)
  PROVE  /\ mailbox' \in [Procs -> Seq(Messages)]
         /\ \A p \in Procs : mailbox'[p] = IF p = q THEN Append(mailbox[p], m) ELSE mailbox[p]
<1>1. mailbox \in [Procs -> Seq(Messages)] /\ mailbox' = [mailbox EXCEPT ![q] = Append(@, m)]
  BY DEF TypeOK, SendMessage
<1>2. \A p \in Procs : Append(mailbox[p], m) \in Seq(Messages)
  BY <1>1
<1> QED
  BY <1>1, <1>2

-----------------------------------------------------------------------------
LEMMA ProcessMessageStep ==
  ASSUME IInv, NEW p \in Procs, NEW q \in Procs, ProcessMessage(p, q)
  PROVE  IInv'
<1>1. TypeOK
  BY DEF IInv
<1>2. PICK a \in {None} \cup holds[p] :
        \/ \E pr \in Fresh : NewPromise(p, pr) /\ SendMessage(q, Call(pr, a)) /\ calls' = calls
        \/ MayRequest /\ calls' = calls + 1 /\ SendMessage(q, Call(None, a)) /\ UNCHANGED <<owner, holds>>
  BY DEF ProcessMessage
<1>3. a \in Ids \cup {None}
  BY <1>1, <1>2 DEF TypeOK
<1>4. mailbox' \in [Procs -> Seq(Messages)]
  <2>1. \E pr \in Ids \cup {None} : SendMessage(q, Call(pr, a))
    BY <1>1, <1>2, MadeFinite
  <2> QED
    BY <1>1, <1>3, <2>1, MessageTypes, Sent
<1>5. owner' \in [Ids -> Procs \cup {None}] /\ holds' \in [Procs -> SUBSET Ids]
  <2>1. owner \in [Ids -> Procs \cup {None}] /\ holds \in [Procs -> SUBSET Ids]
    BY <1>1 DEF TypeOK
  <2>2. CASE \E pr \in Fresh : NewPromise(p, pr)
    <3>1. PICK pr \in Ids : NewPromise(p, pr)
      BY <1>1, <2>2, MadeFinite
    <3> QED
      BY <2>1, <3>1 DEF NewPromise
  <2> QED
    BY <1>2, <2>1, <2>2
<1>6. calls' \in 0 .. MaxRequests
  <2>1. calls \in 0 .. MaxRequests /\ Cardinality(Made) \in Nat /\ MaxRequests \in Nat
    BY <1>1, MadeFinite, PromisesAssumption DEF TypeOK
  <2>2. CASE calls' = calls
    BY <2>1, <2>2
  <2>3. CASE MayRequest /\ calls' = calls + 1
    BY <2>1, <2>3 DEF MayRequest
  <2> QED
    BY <1>2, <2>2, <2>3
<1>7. UNCHANGED <<batch, current, pc, at, when_blocks, whenever_blocks, timers, value, is_ready, starting, ran>>
  BY DEF ProcessMessage
<1>8. TypeOK'
  BY <1>1, <1>4, <1>5, <1>6, <1>7 DEF TypeOK
<1>9. BodyShape'
  BY <1>7 DEF IInv, BodyShape
<1> QED
  BY <1>8, <1>9 DEF IInv

LEMMA TimerStep == ASSUME IInv, NEW p \in Procs, Timer(p) PROVE IInv'
<1>1. TypeOK
  BY DEF IInv
<1>2. PICK pr \in Ids : NewPromise(p, pr) /\ timers' = timers \cup {pr}
  BY <1>1, MadeFinite DEF Timer
<1>3. owner' \in [Ids -> Procs \cup {None}] /\ holds' \in [Procs -> SUBSET Ids] /\ timers' \subseteq Ids
  <2>1. owner \in [Ids -> Procs \cup {None}] /\ holds \in [Procs -> SUBSET Ids] /\ timers \subseteq Ids
    BY <1>1 DEF TypeOK
  <2> QED
    BY <1>2, <2>1 DEF NewPromise
<1>4. UNCHANGED <<mailbox, batch, current, pc, at, when_blocks, whenever_blocks, value, is_ready,
                  starting, calls, ran>>
  BY DEF Timer
<1>5. TypeOK'
  BY <1>1, <1>3, <1>4 DEF TypeOK
<1>6. BodyShape'
  BY <1>4 DEF IInv, BodyShape
<1> QED
  BY <1>5, <1>6 DEF IInv

LEMMA NewBlockTypes ==
  ASSUME TypeOK, NEW p \in Procs, NEW b \in NewBlocks(p)
  PROVE  b \in BlockRecords /\ b.on # << >>
<1>1. PICK id \in BlockIds, c \in Conditions(holds[p]) : b = [id |-> id, on |-> c]
  BY DEF NewBlocks
<1>2. holds[p] \subseteq Ids
  BY DEF TypeOK
<1>3. c \in Seq(Ids) /\ c # << >>
  BY <1>2, ConditionTypes
<1> QED
  BY <1>1, <1>3 DEF BlockRecords

LEMMA AppendBlock ==
  ASSUME NEW f \in [Procs -> Seq(BlockRecords)], NEW g, NEW p \in Procs, NEW b \in BlockRecords,
         g = [f EXCEPT ![p] = Append(@, b)]
  PROVE  /\ g \in [Procs -> Seq(BlockRecords)]
         /\ g[p] = Append(f[p], b) /\ Len(g[p]) = Len(f[p]) + 1
         /\ \A q \in Procs : q # p => g[q] = f[q]
         /\ \A q \in Procs : Len(f[q]) <= Len(g[q])
<1>1. f[p] \in Seq(BlockRecords) /\ Append(f[p], b) \in Seq(BlockRecords)
  OBVIOUS
<1>2. g[p] = Append(f[p], b) /\ \A q \in Procs : q # p => g[q] = f[q]
  OBVIOUS
<1>3. g \in [Procs -> Seq(BlockRecords)]
  BY <1>1
<1>4. Len(g[p]) = Len(f[p]) + 1 /\ Len(f[p]) \in Nat
  BY <1>1, <1>2
<1>5. \A q \in Procs : Len(f[q]) \in Nat
  BY LenProperties
<1> QED
  BY <1>2, <1>3, <1>4, <1>5

LEMMA WhenRegisterStep == ASSUME IInv, NEW p \in Procs, WhenRegister(p) PROVE IInv'
<1>1. TypeOK
  BY DEF IInv
<1>2. PICK b \in NewBlocks(p) : when_blocks' = [when_blocks EXCEPT ![p] = Append(@, b)]
  BY DEF WhenRegister
<1>3. /\ when_blocks' \in [Procs -> Seq(BlockRecords)]
      /\ \A q \in Procs : Len(when_blocks[q]) <= Len(when_blocks'[q])
  <2>1. b \in BlockRecords /\ when_blocks \in [Procs -> Seq(BlockRecords)]
    BY <1>1, NewBlockTypes DEF TypeOK
  <2> QED
    BY <1>2, <2>1, AppendBlock
<1>4. UNCHANGED <<mailbox, batch, current, pc, at, whenever_blocks, holds, owner, timers, value, is_ready,
                  starting, calls, ran>>
  BY DEF WhenRegister
<1>5. TypeOK'
  BY <1>1, <1>3, <1>4 DEF TypeOK
<1>6. BodyShape'
  <2>1. \A q \in Procs : at[q] \in Nat /\ Len(when_blocks[q]) \in Nat /\ Len(when_blocks'[q]) \in Nat
    BY <1>1, <1>3, LenProperties DEF TypeOK
  <2>2. \A q \in Procs : pc[q] = "when_body" => at[q] <= Len(when_blocks'[q])
    BY <1>3, <2>1 DEF IInv, BodyShape
  <2> QED
    BY <1>4, <2>2 DEF IInv, BodyShape
<1> QED
  BY <1>5, <1>6 DEF IInv

LEMMA WheneverRegisterStep == ASSUME IInv, NEW p \in Procs, WheneverRegister(p) PROVE IInv'
<1>1. TypeOK
  BY DEF IInv
<1>2. PICK b \in NewBlocks(p) : whenever_blocks' = [whenever_blocks EXCEPT ![p] = Append(@, b)]
  BY DEF WheneverRegister
<1>3. /\ whenever_blocks' \in [Procs -> Seq(BlockRecords)]
      /\ \A q \in Procs : Len(whenever_blocks[q]) <= Len(whenever_blocks'[q])
  <2>1. b \in BlockRecords /\ whenever_blocks \in [Procs -> Seq(BlockRecords)]
    BY <1>1, NewBlockTypes DEF TypeOK
  <2> QED
    BY <1>2, <2>1, AppendBlock
<1>4. UNCHANGED <<mailbox, batch, current, pc, at, when_blocks, holds, owner, timers, value, is_ready,
                  starting, calls, ran>>
  BY DEF WheneverRegister
<1>5. TypeOK'
  BY <1>1, <1>3, <1>4 DEF TypeOK
<1>6. BodyShape'
  <2>1. \A q \in Procs : at[q] \in Nat /\ Len(whenever_blocks[q]) \in Nat /\ Len(whenever_blocks'[q]) \in Nat
    BY <1>1, <1>3, LenProperties DEF TypeOK
  <2>2. \A q \in Procs : pc[q] = "whenever_body" => at[q] <= Len(whenever_blocks'[q])
    BY <1>3, <2>1 DEF IInv, BodyShape
  <2> QED
    BY <1>4, <2>2 DEF IInv, BodyShape
<1> QED
  BY <1>5, <1>6 DEF IInv

-----------------------------------------------------------------------------
(* The core that has the process. *)
LEMMA MoveShape ==
  ASSUME IInv, NEW p \in Procs, NEW l \in Pcs,
         Goto(p, l) \/ \E i \in Nat \ {0} : GotoAt(p, l, i),
         l \notin {"when_body", "whenever_body"},
         l \in {"value", "ready", "notify"} => current'[p].promise \in Ids,
         \A q \in Procs : q # p => /\ current'[q] = current[q] /\ when_blocks'[q] = when_blocks[q]
                                   /\ whenever_blocks'[q] = whenever_blocks[q]
  PROVE  pc' \in [Procs -> Pcs] /\ at' \in [Procs -> Nat \ {0}] /\ BodyShape'
<1>1. /\ pc' \in [Procs -> Pcs] /\ at' \in [Procs -> Nat \ {0}] /\ pc'[p] = l
      /\ \A q \in Procs : q # p => pc'[q] = pc[q] /\ at'[q] = at[q]
  BY Moves DEF IInv, TypeOK
<1>2. ASSUME NEW q \in Procs
      PROVE  /\ pc'[q] = "when_body" => at'[q] <= Len(when_blocks'[q])
             /\ pc'[q] = "whenever_body" => at'[q] <= Len(whenever_blocks'[q])
             /\ pc'[q] \in {"value", "ready", "notify"} => current'[q].promise \in Ids
  <2>1. CASE q = p
    BY <1>1, <2>1
  <2>2. CASE q # p
    BY <1>1, <2>2 DEF IInv, BodyShape
  <2> QED
    BY <2>1, <2>2
<1> QED
  BY <1>1, <1>2 DEF BodyShape

LEMMA Inserted ==
  ASSUME NEW s \in Seq(Messages), NEW m \in Messages, NEW i \in 1 .. Len(s) + 1
  PROVE  InsertAt(s, i, m) \in Seq(Messages)
<1>1. SubSeq(s, 1, i - 1) \in Seq(Messages) /\ SubSeq(s, i, Len(s)) \in Seq(Messages)
  BY SubSeqProperties
<1> QED
  BY <1>1 DEF InsertAt

LEMMA ExpireStep == ASSUME IInv, NEW pr \in Ids, Expire(pr) PROVE IInv'
<1>1. TypeOK
  BY DEF IInv
<1>2. PICK q : q = owner[pr]
  OBVIOUS
<1>3. PICK i \in 1 .. Len(mailbox[q]) + 1 :
        mailbox' = [mailbox EXCEPT ![q] = InsertAt(@, i, Notice(pr))]
  BY <1>2 DEF Expire
<1>4. mailbox' \in [Procs -> Seq(Messages)]
  <2>1. mailbox \in [Procs -> Seq(Messages)] /\ Notice(pr) \in Messages
    BY <1>1, MessageTypes DEF TypeOK
  <2>2. CASE q \in Procs
    <3>1. InsertAt(mailbox[q], i, Notice(pr)) \in Seq(Messages)
      BY <2>1, <2>2, Inserted
    <3> QED
      BY <1>3, <2>1, <3>1
  <2>3. CASE q \notin Procs
    BY <1>3, <2>1, <2>3
  <2> QED
    BY <2>2, <2>3
<1>5. UNCHANGED <<batch, current, pc, at, when_blocks, whenever_blocks, holds, owner, timers, value,
                  is_ready, starting, calls, ran>>
  BY DEF Expire
<1>6. TypeOK'
  BY <1>1, <1>4, <1>5 DEF TypeOK
<1>7. BodyShape'
  BY <1>5 DEF IInv, BodyShape
<1> QED
  BY <1>6, <1>7 DEF IInv

LEMMA TakeStep == ASSUME IInv, NEW p \in Procs, Take(p) PROVE IInv'
<1>1. TypeOK
  BY DEF IInv
<1>2. PICK n \in 1 .. Len(mailbox[p]) :
        /\ batch' = [batch EXCEPT ![p] = SubSeq(mailbox[p], 1, n)]
        /\ mailbox' = [mailbox EXCEPT ![p] = SubSeq(@, n + 1, Len(@))]
        /\ is_ready' = is_ready \cup ({mailbox[p][i].promise : i \in 1 .. n} \cap timers)
  BY DEF Take
<1>3. batch' \in [Procs -> Seq(Messages)] /\ mailbox' \in [Procs -> Seq(Messages)]
  <2>1. batch \in [Procs -> Seq(Messages)] /\ mailbox \in [Procs -> Seq(Messages)]
    BY <1>1 DEF TypeOK
  <2>2. mailbox[p] \in Seq(Messages)
    BY <2>1
  <2>3. SubSeq(mailbox[p], 1, n) \in Seq(Messages)
        /\ SubSeq(mailbox[p], n + 1, Len(mailbox[p])) \in Seq(Messages)
    BY <2>2, SubSeqProperties, LenProperties
  <2> QED
    BY <1>2, <2>1, <2>3
<1>4. is_ready' \subseteq Ids
  BY <1>1, <1>2 DEF TypeOK
<1>5. UNCHANGED <<current, pc, at, when_blocks, whenever_blocks, holds, owner, timers, value,
                  starting, calls, ran>>
  BY DEF Take
<1>6. TypeOK'
  BY <1>1, <1>3, <1>4, <1>5 DEF TypeOK
<1>7. BodyShape'
  BY <1>5 DEF IInv, BodyShape
<1> QED
  BY <1>6, <1>7 DEF IInv

LEMMA BeginStep == ASSUME IInv, NEW p \in Procs, Begin(p) PROVE IInv'
<1>1. TypeOK
  BY DEF IInv
<1>2. PICK m : m = Head(batch[p])
  OBVIOUS
<1>3. /\ batch[p] # << >> /\ current' = [current EXCEPT ![p] = m]
      /\ \E l \in {"body", "whens"} : GotoAt(p, l, 1)
      /\ holds' = [holds EXCEPT ![p] = @ \cup ({m.arg} \ {None})]
      /\ batch' = [batch EXCEPT ![p] = Tail(@)]
      /\ UNCHANGED <<mailbox, when_blocks, whenever_blocks, owner, timers, value, is_ready, starting, calls, ran>>
  BY <1>2 DEF Begin
<1>4. m \in Messages /\ Tail(batch[p]) \in Seq(Messages)
  <2>1. batch[p] \in Seq(Messages)
    BY <1>1 DEF TypeOK
  <2> QED
    BY <1>2, <1>3, <2>1
<1>5. /\ current' \in [Procs -> Messages] /\ batch' \in [Procs -> Seq(Messages)]
      /\ \A q \in Procs : q # p => current'[q] = current[q]
  BY <1>1, <1>3, <1>4 DEF TypeOK
<1>6. holds' \in [Procs -> SUBSET Ids]
  BY <1>1, <1>3, <1>4, MessageTypes DEF TypeOK
<1>7. pc' \in [Procs -> Pcs] /\ at' \in [Procs -> Nat \ {0}] /\ BodyShape'
  BY <1>3, <1>5, MoveShape DEF Pcs, Bodies
<1>8. TypeOK'
  BY <1>1, <1>3, <1>5, <1>6, <1>7 DEF TypeOK, Pcs
<1> QED
  BY <1>7, <1>8 DEF IInv

LEMMA ReturnStep == ASSUME IInv, NEW p \in Procs, Return(p) PROVE IInv'
<1>1. TypeOK /\ current[p].promise \in Ids \cup {None}
  BY MessageTypes DEF IInv, TypeOK
<1>2. /\ Goto(p, IF current[p].promise # None THEN "value" ELSE "whens")
      /\ UNCHANGED <<mailbox, batch, current, when_blocks, whenever_blocks, holds, owner, timers, value,
                     is_ready, starting, calls, ran>>
  BY DEF Return
<1>3. pc' \in [Procs -> Pcs] /\ at' \in [Procs -> Nat \ {0}] /\ BodyShape'
  BY <1>1, <1>2, MoveShape DEF Pcs
<1>4. TypeOK'
  BY <1>1, <1>2, <1>3 DEF TypeOK, Pcs
<1> QED
  BY <1>3, <1>4 DEF IInv

LEMMA AnswerStep ==
  ASSUME IInv, NEW p \in Procs, StoreValue(p) \/ MarkReady(p) PROVE IInv'
<1>1. TypeOK /\ current[p].promise \in Ids
  BY DEF IInv, BodyShape, StoreValue, MarkReady
<1>2. /\ Goto(p, "ready") \/ Goto(p, "notify")
      /\ value' \in {value, value \cup {current[p].promise}}
      /\ is_ready' \in {is_ready, is_ready \cup {current[p].promise}}
      /\ UNCHANGED <<mailbox, batch, current, when_blocks, whenever_blocks, holds, owner, timers,
                     starting, calls, ran>>
  BY DEF StoreValue, MarkReady
<1>3. pc' \in [Procs -> Pcs] /\ at' \in [Procs -> Nat \ {0}] /\ BodyShape'
  BY <1>1, <1>2, MoveShape DEF Pcs
<1>4. value' \subseteq Ids /\ is_ready' \subseteq Ids
  BY <1>1, <1>2 DEF TypeOK
<1>5. TypeOK'
  BY <1>1, <1>2, <1>3, <1>4 DEF TypeOK, Pcs
<1> QED
  BY <1>3, <1>5 DEF IInv

LEMMA NotifyStep == ASSUME IInv, NEW p \in Procs, Notify(p) PROVE IInv'
<1>1. TypeOK /\ current[p].promise \in Ids
  BY DEF IInv, BodyShape, Notify
<1>2. /\ SendMessage(owner[current[p].promise], Notice(current[p].promise))
      /\ GotoAt(p, "whens", 1)
      /\ UNCHANGED <<batch, current, when_blocks, whenever_blocks, holds, owner, timers, value,
                     is_ready, starting, calls, ran>>
  BY DEF Notify
<1>3. pc' \in [Procs -> Pcs] /\ at' \in [Procs -> Nat \ {0}] /\ BodyShape'
  BY <1>1, <1>2, MoveShape DEF Pcs
<1>4. mailbox' \in [Procs -> Seq(Messages)]
  BY <1>1, <1>2, MessageTypes, Sent
<1>5. TypeOK'
  BY <1>1, <1>2, <1>3, <1>4 DEF TypeOK, Pcs
<1> QED
  BY <1>3, <1>5 DEF IInv

(* The steps of the evaluation that only move on. *)
LEMMA ScanStep ==
  ASSUME IInv, NEW p \in Procs,
         WhenNotYet(p) \/ WhensDone(p) \/ WheneverNotYet(p) \/ WheneversDone(p)
  PROVE  IInv'
<1>1. TypeOK /\ at[p] \in Nat \ {0}
  BY DEF IInv, TypeOK
<1>2. /\ \E l \in {"whens", "whenevers", "idle"}, i \in {at[p] + 1, 1} : GotoAt(p, l, i)
      /\ UNCHANGED <<mailbox, batch, current, when_blocks, whenever_blocks, holds, owner, timers, value,
                     is_ready, starting, calls, ran>>
  BY DEF WhenNotYet, WhensDone, WheneverNotYet, WheneversDone
<1>3. pc' \in [Procs -> Pcs] /\ at' \in [Procs -> Nat \ {0}] /\ BodyShape'
  <2>1. PICK l \in {"whens", "whenevers", "idle"}, i \in {at[p] + 1, 1} : GotoAt(p, l, i)
    BY <1>2
  <2>2. l \in Pcs /\ i \in Nat \ {0}
    BY <1>1 DEF Pcs
  <2> QED
    BY <1>2, <2>1, <2>2, MoveShape
<1>4. TypeOK'
  BY <1>1, <1>2, <1>3 DEF TypeOK, Pcs
<1> QED
  BY <1>3, <1>4 DEF IInv

(* A body begins where the block stands. *)
LEMMA RunStep == ASSUME IInv, NEW p \in Procs, When(p) \/ Whenever(p) PROVE IInv'
<1>1. TypeOK
  BY DEF IInv
<1>2. /\ \/ Goto(p, "when_body") /\ at[p] <= Len(when_blocks[p])
         \/ Goto(p, "whenever_body") /\ at[p] <= Len(whenever_blocks[p])
      /\ \E id : ran' = [ran EXCEPT ![id] = @ + 1]
      /\ UNCHANGED <<mailbox, batch, current, when_blocks, whenever_blocks, holds, owner, timers, value,
                     is_ready, starting, calls>>
  BY DEF When, Whenever, Whens, Whenevers
<1>3. /\ pc' \in [Procs -> Pcs] /\ at' = at /\ pc'[p] \in Bodies
      /\ pc'[p] = "when_body" => at[p] <= Len(when_blocks[p])
      /\ pc'[p] = "whenever_body" => at[p] <= Len(whenever_blocks[p])
      /\ \A q \in Procs : q # p => pc'[q] = pc[q]
  BY <1>1, <1>2, Moves DEF Pcs, Bodies
<1>4. ran' \in [BlockIds -> Nat]
  <2>1. PICK id : ran' = [ran EXCEPT ![id] = @ + 1]
    BY <1>2
  <2>2. ran \in [BlockIds -> Nat]
    BY <1>1 DEF TypeOK
  <2>3. CASE id \in BlockIds
    <3>1. ran[id] + 1 \in Nat
      BY <2>2, <2>3
    <3> QED
      BY <2>1, <2>2, <3>1
  <2>4. CASE id \notin BlockIds
    BY <2>1, <2>2, <2>4
  <2> QED
    BY <2>3, <2>4
<1>5. TypeOK'
  BY <1>1, <1>2, <1>3, <1>4 DEF TypeOK, Pcs
<1>6. BodyShape'
  <2>1. ASSUME NEW q \in Procs
        PROVE  /\ pc'[q] = "when_body" => at[q] <= Len(when_blocks[q])
               /\ pc'[q] = "whenever_body" => at[q] <= Len(whenever_blocks[q])
               /\ pc'[q] \in {"value", "ready", "notify"} => current[q].promise \in Ids
    <3>1. CASE q = p
      BY <1>3, <3>1 DEF Bodies
    <3>2. CASE q # p
      BY <1>3, <3>2 DEF IInv, BodyShape
    <3> QED
      BY <3>1, <3>2
  <2> QED
    BY <1>2, <1>3, <2>1 DEF BodyShape
<1> QED
  BY <1>5, <1>6 DEF IInv

(* Swapping with the last block and removing that one. *)
LEMMA SwapTypes ==
  ASSUME NEW s \in Seq(BlockRecords), NEW i \in 1 .. Len(s)
  PROVE  /\ SwapRemove(s, i) \in Seq(BlockRecords) /\ Len(SwapRemove(s, i)) = Len(s) - 1
         /\ \A j \in 1 .. Len(s) - 1 : SwapRemove(s, i)[j] = IF j = i THEN s[Len(s)] ELSE s[j]
<1>1. PICK t : t = [s EXCEPT ![i] = Last(s)]
  OBVIOUS
<1>2. Len(s) \in Nat /\ Len(s) \in 1 .. Len(s) /\ Last(s) = s[Len(s)] /\ Last(s) \in BlockRecords
  BY LenProperties, ElementOfSeq DEF Last
<1>3. /\ t \in Seq(BlockRecords) /\ Len(t) = Len(s)
      /\ \A j \in 1 .. Len(s) : t[j] = IF j = i THEN Last(s) ELSE s[j]
  BY <1>1, <1>2, ExceptSeq
<1>4. /\ SubSeq(t, 1, Len(t) - 1) \in Seq(BlockRecords) /\ Len(SubSeq(t, 1, Len(t) - 1)) = Len(t) - 1
      /\ \A j \in 1 .. Len(t) - 1 : SubSeq(t, 1, Len(t) - 1)[j] = t[j]
  BY <1>2, <1>3
<1>5. SwapRemove(s, i) = SubSeq(t, 1, Len(t) - 1)
  BY <1>1 DEF SwapRemove, Front
<1> QED
  BY <1>2, <1>3, <1>4, <1>5

LEMMA EndWhenStep == ASSUME IInv, NEW p \in Procs, EndWhen(p) PROVE IInv'
<1>1. TypeOK
  BY DEF IInv
<1>2. /\ pc[p] = "when_body" /\ Goto(p, "whens")
      /\ when_blocks' = [when_blocks EXCEPT ![p] = SwapRemove(@, at[p])]
      /\ UNCHANGED <<mailbox, batch, current, whenever_blocks, holds, owner, timers, value,
                     is_ready, starting, calls, ran>>
  BY DEF EndWhen
<1>3. when_blocks' \in [Procs -> Seq(BlockRecords)] /\ \A q \in Procs : q # p => when_blocks'[q] = when_blocks[q]
  <2>1. when_blocks \in [Procs -> Seq(BlockRecords)]
    BY <1>1 DEF TypeOK
  <2>2. when_blocks[p] \in Seq(BlockRecords) /\ at[p] \in 1 .. Len(when_blocks[p])
    BY <1>1, <1>2, LenProperties DEF IInv, BodyShape, TypeOK
  <2>3. SwapRemove(when_blocks[p], at[p]) \in Seq(BlockRecords)
    BY <2>2, SwapTypes
  <2> QED
    BY <1>2, <2>1, <2>3
<1>4. pc' \in [Procs -> Pcs] /\ at' \in [Procs -> Nat \ {0}] /\ BodyShape'
  BY <1>2, <1>3, MoveShape DEF Pcs
<1>5. TypeOK'
  BY <1>1, <1>2, <1>3, <1>4 DEF TypeOK, Pcs
<1> QED
  BY <1>4, <1>5 DEF IInv

(* A block that captures its promises again stays in its place, and it     *)
(* names as many promises as before.                                       *)
LEMMA CaptureTypes ==
  ASSUME NEW b \in BlockRecords, NEW S, S \subseteq Ids, NEW c \in Captures(b, S)
  PROVE  c \in BlockRecords /\ c.id = b.id /\ (b.on # << >> => c.on # << >>)
<1>1. b.on \in Seq(Ids) /\ b.id \in BlockIds
  BY DEF BlockRecords
<1>2. CASE c = b
  BY <1>2
<1>3. CASE c # b
  <2>1. PICK k \in DOMAIN b.on, pr \in S : c = [id |-> b.id, on |-> [b.on EXCEPT ![k] = pr]]
    BY <1>3 DEF Captures
  <2>2. [b.on EXCEPT ![k] = pr] \in Seq(Ids) /\ Len([b.on EXCEPT ![k] = pr]) = Len(b.on)
    BY <1>1, <2>1, ExceptSeq, LenProperties
  <2>3. PICK on : on = [b.on EXCEPT ![k] = pr]
    OBVIOUS
  <2>4. on \in Seq(Ids) /\ Len(on) = Len(b.on) /\ c = [id |-> b.id, on |-> on]
    BY <2>1, <2>2, <2>3
  <2>5. b.on # << >> => on # << >>
    BY <1>1, <2>4, EmptySeq
  <2> QED
    BY <1>1, <2>4, <2>5 DEF BlockRecords
<1> QED
  BY <1>2, <1>3

LEMMA Replaced ==
  ASSUME NEW f \in [Procs -> Seq(BlockRecords)], NEW g, NEW p \in Procs, NEW i \in 1 .. Len(f[p]),
         NEW b \in BlockRecords, g = [f EXCEPT ![p][i] = b]
  PROVE  /\ g \in [Procs -> Seq(BlockRecords)] /\ \A q \in Procs : q # p => g[q] = f[q]
         /\ Len(g[p]) = Len(f[p])
         /\ \A j \in 1 .. Len(f[p]) : g[p][j] = IF j = i THEN b ELSE f[p][j]
<1> DEFINE s == [f[p] EXCEPT ![i] = b]
<1>1. f[p] \in Seq(BlockRecords)
  OBVIOUS
<1>2. g = [f EXCEPT ![p] = s]
  OBVIOUS
<1>3. s \in Seq(BlockRecords) /\ Len(s) = Len(f[p])
      /\ \A j \in 1 .. Len(f[p]) : s[j] = IF j = i THEN b ELSE f[p][j]
  BY <1>1, ExceptSeq
<1> HIDE DEF s
<1>4. g \in [Procs -> Seq(BlockRecords)] /\ g[p] = s /\ \A q \in Procs : q # p => g[q] = f[q]
  BY <1>2, <1>3
<1> QED
  BY <1>3, <1>4

LEMMA EndOfWhenever ==
  ASSUME IInv, NEW p \in Procs, EndWhenever(p)
  PROVE  /\ at[p] \in 1 .. Len(whenever_blocks[p])
         /\ \E b \in BlockRecords :
              /\ whenever_blocks' = [whenever_blocks EXCEPT ![p][at[p]] = b]
              /\ b.id = whenever_blocks[p][at[p]].id
              /\ whenever_blocks[p][at[p]].on # << >> => b.on # << >>
<1>1. TypeOK
  BY DEF IInv
<1>2. whenever_blocks[p] \in Seq(BlockRecords) /\ at[p] \in 1 .. Len(whenever_blocks[p])
  BY <1>1, LenProperties DEF IInv, BodyShape, TypeOK, EndWhenever
<1>3. whenever_blocks[p][at[p]] \in BlockRecords /\ holds[p] \subseteq Ids
  BY <1>1, <1>2, ElementOfSeq DEF TypeOK
<1>4. PICK b \in Captures(whenever_blocks[p][at[p]], holds[p]) :
        whenever_blocks' = [whenever_blocks EXCEPT ![p][at[p]] = b]
  BY DEF EndWhenever
<1> QED
  BY <1>2, <1>3, <1>4, CaptureTypes

LEMMA EndWheneverStep == ASSUME IInv, NEW p \in Procs, EndWhenever(p) PROVE IInv'
<1>1. TypeOK /\ whenever_blocks \in [Procs -> Seq(BlockRecords)]
  BY DEF IInv, TypeOK
<1>2. /\ pc[p] = "whenever_body" /\ GotoAt(p, "whenevers", at[p] + 1)
      /\ UNCHANGED <<mailbox, batch, current, when_blocks, holds, owner, timers, value,
                     is_ready, starting, calls, ran>>
  BY DEF EndWhenever
<1>3. /\ whenever_blocks' \in [Procs -> Seq(BlockRecords)]
      /\ \A q \in Procs : q # p => whenever_blocks'[q] = whenever_blocks[q]
  BY <1>1, EndOfWhenever, Replaced, SMTT(30)
<1>4. pc' \in [Procs -> Pcs] /\ at' \in [Procs -> Nat \ {0}] /\ BodyShape'
  <2>1. at[p] + 1 \in Nat \ {0} /\ "whenevers" \in Pcs
    BY <1>1 DEF Pcs, TypeOK
  <2> QED
    BY <1>2, <1>3, <2>1, MoveShape
<1>5. TypeOK'
  BY <1>1, <1>2, <1>3, <1>4 DEF TypeOK, Pcs
<1> QED
  BY <1>4, <1>5 DEF IInv

LEMMA FirstReturnStep == ASSUME IInv, NEW p \in Procs, FirstReturn(p) PROVE IInv'
<1>1. /\ starting' \subseteq starting
      /\ UNCHANGED <<mailbox, batch, current, pc, at, when_blocks, whenever_blocks, holds, owner, timers, value,
                     is_ready, calls, ran>>
  BY DEF FirstReturn
<1>2. TypeOK'
  BY <1>1 DEF IInv, TypeOK
<1>3. BodyShape'
  BY <1>1 DEF IInv, BodyShape
<1> QED
  BY <1>2, <1>3 DEF IInv

LEMMA InitInv == Init => IInv
<1> SUFFICES ASSUME Init PROVE IInv
  OBVIOUS
<1>1. mailbox \in [Procs -> Seq(Messages)]
  <2>1. <<Call(None, None)>> \in Seq(Messages) /\ << >> \in Seq(Messages)
    BY MessageTypes
  <2> QED
    BY <2>1 DEF Init
<1>2. TypeOK
  BY <1>1, MessageTypes, PromisesAssumption DEF Init, TypeOK
<1>3. BodyShape
  BY DEF Init, BodyShape
<1> QED
  BY <1>2, <1>3 DEF IInv

LEMMA NextInv == IInv /\ [Next]_vars => IInv'
<1> SUFFICES ASSUME IInv, [Next]_vars PROVE IInv'
  OBVIOUS
<1>1. ASSUME NEW p \in Procs, CoreStep(p) PROVE IInv'
  BY <1>1, BeginStep, ReturnStep, AnswerStep, NotifyStep, ScanStep, RunStep, EndWhenStep, EndWheneverStep
     DEF CoreStep
<1>2. ASSUME NEW p \in Procs, Instruction(p) PROVE IInv'
  BY <1>2, ProcessMessageStep, TimerStep, WhenRegisterStep, WheneverRegisterStep DEF Instruction
<1>3. CASE UNCHANGED vars
  <2>1. TypeOK'
    BY <1>3 DEF IInv, TypeOK, vars
  <2>2. BodyShape'
    BY <1>3 DEF IInv, BodyShape, vars
  <2> QED
    BY <2>1, <2>2 DEF IInv
<1> QED
  BY <1>1, <1>2, <1>3, TakeStep, FirstReturnStep, ExpireStep DEF Next

LEMMA Invariance == Spec => []IInv
<1> QED
  BY InitInv, NextInv, PTL DEF Spec

(* Messages, blocks and promises stay what they are, through every swap,   *)
(* capture and registration.                                               *)
THEOREM TypeCorrect == Spec => []TypeOK
<1>1. IInv => TypeOK
  BY DEF IInv
<1> QED
  BY Invariance, <1>1, PTL

-----------------------------------------------------------------------------
(* A result flagged as ready can be read. *)
AnswerStored == \A p \in Procs : pc[p] = "ready" => current[p].promise \in value

(* What a core step of p leaves alone. *)
LEMMA CoreFrame ==
  ASSUME TypeOK, NEW p \in Procs, CoreStep(p)
  PROVE  /\ \A q \in Procs : q # p =>
              /\ pc'[q] = pc[q] /\ at'[q] = at[q] /\ current'[q] = current[q] /\ batch'[q] = batch[q]
              /\ when_blocks'[q] = when_blocks[q] /\ whenever_blocks'[q] = whenever_blocks[q]
         /\ UNCHANGED <<owner, timers, starting, calls>>
<1>1. CASE \/ Begin(p) \/ Return(p) \/ StoreValue(p) \/ MarkReady(p) \/ Notify(p)
           \/ When(p) \/ WhenNotYet(p) \/ WhensDone(p) \/ Whenever(p) \/ WheneverNotYet(p) \/ WheneversDone(p)
  BY <1>1 DEF TypeOK, Begin, Return, StoreValue, MarkReady, Notify, When, WhenNotYet, WhensDone,
              Whenever, WheneverNotYet, WheneversDone, Goto, GotoAt
<1>2. CASE EndWhen(p)
  BY <1>2 DEF TypeOK, EndWhen, Goto
<1>3. CASE EndWhenever(p)
  BY <1>3 DEF TypeOK, EndWhenever, GotoAt
<1> QED
  BY <1>1, <1>2, <1>3 DEF CoreStep

LEMMA StoredStep ==
  IInv /\ AnswerStored /\ ReadyHasValue /\ [Next]_vars => (AnswerStored /\ ReadyHasValue)'
<1> SUFFICES ASSUME IInv, AnswerStored, ReadyHasValue, [Next]_vars PROVE AnswerStored' /\ ReadyHasValue'
  OBVIOUS
<1>1. TypeOK
  BY DEF IInv
<1>2. ASSUME UNCHANGED <<pc, current, value>>, timers \subseteq timers', is_ready' \subseteq is_ready \cup timers'
      PROVE  AnswerStored' /\ ReadyHasValue'
  BY <1>2 DEF AnswerStored, ReadyHasValue
<1>3. ASSUME NEW p \in Procs, Take(p) \/ Instruction(p) \/ FirstReturn(p)
      PROVE  UNCHANGED <<pc, current, value>> /\ timers \subseteq timers' /\ is_ready' \subseteq is_ready \cup timers'
  BY <1>3 DEF Take, Instruction, ProcessMessage, Timer, WhenRegister, WheneverRegister, FirstReturn
<1>4. ASSUME NEW pr \in Ids, Expire(pr)
      PROVE  UNCHANGED <<pc, current, value>> /\ timers \subseteq timers' /\ is_ready' \subseteq is_ready \cup timers'
  BY <1>4 DEF Expire
<1>5. ASSUME NEW p \in Procs, CoreStep(p) PROVE AnswerStored' /\ ReadyHasValue'
  <2>1. \A q \in Procs : q # p => pc'[q] = pc[q] /\ current'[q] = current[q]
    BY <1>1, <1>5, CoreFrame
  <2>2. UNCHANGED timers
    BY <1>1, <1>5, CoreFrame
  <2>3. CASE StoreValue(p)
    <3>1. value' = value \cup {current[p].promise} /\ UNCHANGED <<current, is_ready>>
      BY <2>3 DEF StoreValue
    <3> QED
      BY <2>1, <2>2, <3>1 DEF AnswerStored, ReadyHasValue
  <2>4. CASE MarkReady(p)
    <3>1. /\ pc[p] = "ready" /\ pc'[p] = "notify" /\ UNCHANGED <<current, value>>
          /\ is_ready' = is_ready \cup {current[p].promise}
      BY <1>1, <2>4, Moves DEF MarkReady, Pcs
    <3> QED
      BY <2>1, <2>2, <3>1 DEF AnswerStored, ReadyHasValue
  <2>5. CASE ~StoreValue(p) /\ ~MarkReady(p)
    <3>1. pc'[p] # "ready" /\ UNCHANGED <<value, is_ready>>
      <4>1. pc \in [Procs -> Pcs]
        BY <1>1 DEF TypeOK, Pcs
      <4> QED
        BY <1>5, <2>5, <4>1 DEF CoreStep, Begin, Return, Notify, When, WhenNotYet, EndWhen, WhensDone, Whenever,
              WheneverNotYet, EndWhenever, WheneversDone, Goto, GotoAt
    <3> QED
      BY <2>1, <2>2, <3>1 DEF AnswerStored, ReadyHasValue
  <2> QED
    BY <2>3, <2>4, <2>5
<1>6. CASE UNCHANGED vars
  BY <1>6, <1>2 DEF vars
<1> QED
  BY <1>2, <1>3, <1>4, <1>5, <1>6 DEF Next

(* The flag of a promise goes up after its value is there: GetValue in a   *)
(* block that another message set off never reads a promise that is ready  *)
(* and has no value, whichever core stores it.                             *)
THEOREM ValueBeforeFlag == Spec => []ReadyHasValue
<1>1. Init => AnswerStored /\ ReadyHasValue
  BY DEF Init, AnswerStored, ReadyHasValue
<1> QED
  BY <1>1, Invariance, StoredStep, PTL DEF Spec

-----------------------------------------------------------------------------
(* What is in a queue. *)
LEMMA Member ==
  ASSUME NEW S, NEW s \in Seq(S)
  PROVE  /\ \A x : x \in ToSet(s) <=> \E i \in 1 .. Len(s) : s[i] = x
         /\ ToSet(s) \subseteq S
<1>1. DOMAIN s = 1 .. Len(s) /\ \A i \in 1 .. Len(s) : s[i] \in S
  BY LenProperties, ElementOfSeq
<1> QED
  BY <1>1 DEF ToSet

LEMMA AppendSet ==
  ASSUME NEW S, NEW s \in Seq(S), NEW m \in S
  PROVE  ToSet(Append(s, m)) = ToSet(s) \cup {m}
<1>1. PICK t : t = Append(s, m)
  OBVIOUS
<1>2. /\ t \in Seq(S) /\ Len(s) \in Nat /\ Len(t) = Len(s) + 1
      /\ \A i \in 1 .. Len(s) : t[i] = s[i]
      /\ t[Len(s) + 1] = m
  BY <1>1, LenProperties, AppendProperties
<1>3. \A x : x \in ToSet(t) <=> \E i \in 1 .. Len(t) : t[i] = x
  BY <1>2, Member
<1>4. \A x : x \in ToSet(s) <=> \E i \in 1 .. Len(s) : s[i] = x
  BY Member
<1>5. ASSUME NEW x PROVE x \in ToSet(t) <=> x \in ToSet(s) \cup {m}
  <2>1. ASSUME x \in ToSet(t) PROVE x \in ToSet(s) \cup {m}
    <3>1. PICK i \in 1 .. Len(s) + 1 : t[i] = x
      BY <1>2, <1>3, <2>1
    <3>2. CASE i = Len(s) + 1
      BY <1>2, <3>1, <3>2
    <3>3. CASE i # Len(s) + 1
      <4>1. i \in 1 .. Len(s)
        BY <1>2, <3>3
      <4> QED
        BY <1>2, <1>4, <3>1, <4>1
    <3> QED
      BY <3>2, <3>3
  <2>2. ASSUME x \in ToSet(s) \cup {m} PROVE x \in ToSet(t)
    <3>1. CASE x = m
      <4>1. Len(s) + 1 \in 1 .. Len(t)
        BY <1>2
      <4> QED
        BY <1>2, <1>3, <3>1, <4>1
    <3>2. CASE x \in ToSet(s)
      <4>1. PICK i \in 1 .. Len(s) : s[i] = x
        BY <1>4, <3>2
      <4>2. i \in 1 .. Len(t)
        BY <1>2
      <4> QED
        BY <1>2, <1>3, <4>1, <4>2
    <3> QED
      BY <2>2, <3>1, <3>2
  <2> QED
    BY <2>1, <2>2
<1> QED
  BY <1>1, <1>5

LEMMA ConcatSet ==
  ASSUME NEW S, NEW s \in Seq(S), NEW t \in Seq(S)
  PROVE  ToSet(s \o t) = ToSet(s) \cup ToSet(t)
<1>1. PICK u : u = s \o t
  OBVIOUS
<1>2. /\ u \in Seq(S) /\ Len(s) \in Nat /\ Len(t) \in Nat /\ Len(u) = Len(s) + Len(t)
      /\ \A i \in 1 .. Len(s) + Len(t) : u[i] = IF i <= Len(s) THEN s[i] ELSE t[i - Len(s)]
  BY <1>1, LenProperties, ConcatProperties
<1>3. \A x : /\ x \in ToSet(u) <=> \E i \in 1 .. Len(u) : u[i] = x
             /\ x \in ToSet(s) <=> \E i \in 1 .. Len(s) : s[i] = x
             /\ x \in ToSet(t) <=> \E i \in 1 .. Len(t) : t[i] = x
  BY <1>2, Member
<1>4. ASSUME NEW x, x \in ToSet(u) PROVE x \in ToSet(s) \cup ToSet(t)
  <2>1. PICK i \in 1 .. Len(s) + Len(t) : u[i] = x
    BY <1>2, <1>3, <1>4
  <2>2. CASE i <= Len(s)
    <3>1. i \in 1 .. Len(s) /\ s[i] = x
      BY <1>2, <2>1, <2>2
    <3> QED
      BY <1>3, <3>1
  <2>3. CASE ~(i <= Len(s))
    <3>1. i - Len(s) \in 1 .. Len(t) /\ t[i - Len(s)] = x
      BY <1>2, <2>1, <2>3
    <3> QED
      BY <1>3, <3>1
  <2> QED
    BY <2>2, <2>3
<1>5. ASSUME NEW x, x \in ToSet(s) PROVE x \in ToSet(u)
  <2>1. PICK i \in 1 .. Len(s) : s[i] = x
    BY <1>3, <1>5
  <2>2. i \in 1 .. Len(s) + Len(t) /\ u[i] = x
    BY <1>2, <2>1
  <2> QED
    BY <1>2, <1>3, <2>2
<1>6. ASSUME NEW x, x \in ToSet(t) PROVE x \in ToSet(u)
  <2>1. PICK i \in 1 .. Len(t) : t[i] = x
    BY <1>3, <1>6
  <2>2. i + Len(s) \in 1 .. Len(s) + Len(t) /\ ~(i + Len(s) <= Len(s)) /\ (i + Len(s)) - Len(s) = i
    BY <1>2
  <2>3. u[i + Len(s)] = x
    BY <1>2, <2>1, <2>2
  <2> QED
    BY <1>2, <1>3, <2>2, <2>3
<1> QED
  BY <1>1, <1>4, <1>5, <1>6

(* A queue cut in two. *)
LEMMA CutSet ==
  ASSUME NEW S, NEW s \in Seq(S), NEW n \in 0 .. Len(s)
  PROVE  /\ SubSeq(s, 1, n) \in Seq(S) /\ SubSeq(s, n + 1, Len(s)) \in Seq(S)
         /\ ToSet(s) = ToSet(SubSeq(s, 1, n)) \cup ToSet(SubSeq(s, n + 1, Len(s)))
<1>1. Len(s) \in Nat /\ n \in Nat /\ \A i \in 1 .. Len(s) : s[i] \in S
  BY LenProperties, ElementOfSeq
<1>2. PICK f : f = SubSeq(s, 1, n)
  OBVIOUS
<1>3. PICK r : r = SubSeq(s, n + 1, Len(s))
  OBVIOUS
<1>4. f \in Seq(S) /\ Len(f) = n /\ \A i \in 1 .. n : f[i] = s[i]
  <2>1. (\A i \in 1 .. n : s[i] \in S) /\ 1 \in Int /\ n \in Int
    BY <1>1
  <2>2. /\ f \in Seq(S) /\ Len(f) = IF 1 <= n THEN n - 1 + 1 ELSE 0
        /\ \A i \in 1 .. n - 1 + 1 : f[i] = s[1 + i - 1]
    BY <1>2, <2>1, SubSeqProperties
  <2>3. n - 1 + 1 = n /\ \A i \in 1 .. n : 1 + i - 1 = i
    BY <1>1
  <2> QED
    BY <1>1, <2>2, <2>3
<1>5. r \in Seq(S) /\ Len(r) = Len(s) - n /\ \A i \in 1 .. Len(s) - n : r[i] = s[n + i]
  <2>1. (\A i \in n + 1 .. Len(s) : s[i] \in S) /\ n + 1 \in Int /\ Len(s) \in Int
    BY <1>1
  <2>2. /\ r \in Seq(S) /\ Len(r) = IF n + 1 <= Len(s) THEN Len(s) - (n + 1) + 1 ELSE 0
        /\ \A i \in 1 .. Len(s) - (n + 1) + 1 : r[i] = s[n + 1 + i - 1]
    BY <1>3, <2>1, SubSeqProperties
  <2>3. \A i \in 1 .. Len(s) - n : i \in 1 .. Len(s) - (n + 1) + 1 /\ n + 1 + i - 1 = n + i
    BY <1>1
  <2>4. Len(r) = Len(s) - n
    BY <1>1, <2>2
  <2>5. \A i \in 1 .. Len(s) - n : r[i] = s[n + i]
    BY <2>2, <2>3
  <2> QED
    BY <2>2, <2>4, <2>5
<1>6. \A x : /\ x \in ToSet(s) <=> \E i \in 1 .. Len(s) : s[i] = x
             /\ x \in ToSet(f) <=> \E i \in 1 .. Len(f) : f[i] = x
             /\ x \in ToSet(r) <=> \E i \in 1 .. Len(r) : r[i] = x
  <2>1. \A x : x \in ToSet(s) <=> \E i \in 1 .. Len(s) : s[i] = x
    BY Member
  <2>2. \A x : x \in ToSet(f) <=> \E i \in 1 .. Len(f) : f[i] = x
    BY <1>4, Member
  <2>3. \A x : x \in ToSet(r) <=> \E i \in 1 .. Len(r) : r[i] = x
    BY <1>5, Member
  <2> QED
    BY <2>1, <2>2, <2>3
<1>7. ASSUME NEW x, x \in ToSet(s) PROVE x \in ToSet(f) \cup ToSet(r)
  <2>1. PICK i \in 1 .. Len(s) : s[i] = x
    BY <1>6, <1>7
  <2>2. CASE i <= n
    <3>1. i \in 1 .. n
      BY <1>1, <2>2
    <3> QED
      BY <1>4, <1>6, <2>1, <3>1
  <2>3. CASE ~(i <= n)
    <3>1. i - n \in 1 .. Len(s) - n /\ n + (i - n) = i
      BY <1>1, <2>3
    <3>2. PICK k : k = i - n
      OBVIOUS
    <3>3. k \in 1 .. Len(s) - n /\ n + k = i
      BY <3>1, <3>2
    <3>4. k \in 1 .. Len(r) /\ r[k] = s[i]
      BY <1>5, <3>3
    <3> QED
      BY <1>6, <2>1, <3>4
  <2> QED
    BY <2>2, <2>3
<1>8. ASSUME NEW x, x \in ToSet(f) \cup ToSet(r) PROVE x \in ToSet(s)
  <2>1. CASE x \in ToSet(f)
    <3>1. PICK i \in 1 .. n : f[i] = x
      BY <1>4, <1>6, <2>1
    <3>2. i \in 1 .. Len(s)
      BY <1>1
    <3> QED
      BY <1>4, <1>6, <3>1, <3>2
  <2>2. CASE x \in ToSet(r)
    <3>1. PICK i \in 1 .. Len(s) - n : r[i] = x
      BY <1>5, <1>6, <2>2
    <3>2. n + i \in 1 .. Len(s)
      BY <1>1
    <3> QED
      BY <1>5, <1>6, <3>1, <3>2
  <2> QED
    BY <1>8, <2>1, <2>2
<1> QED
  BY <1>2, <1>3, <1>4, <1>5, <1>7, <1>8

LEMMA InsertSet ==
  ASSUME NEW S, NEW s \in Seq(S), NEW m \in S, NEW i \in 1 .. Len(s) + 1
  PROVE  ToSet(InsertAt(s, i, m)) = ToSet(s) \cup {m}
<1>1. Len(s) \in Nat /\ i - 1 \in 0 .. Len(s) /\ (i - 1) + 1 = i
  BY LenProperties
<1>2. PICK f : f = SubSeq(s, 1, i - 1)
  OBVIOUS
<1>3. PICK r : r = SubSeq(s, i, Len(s))
  OBVIOUS
<1>4. f \in Seq(S) /\ r \in Seq(S) /\ ToSet(s) = ToSet(f) \cup ToSet(r)
  <2>1. /\ SubSeq(s, 1, i - 1) \in Seq(S) /\ SubSeq(s, i - 1 + 1, Len(s)) \in Seq(S)
        /\ ToSet(s) = ToSet(SubSeq(s, 1, i - 1)) \cup ToSet(SubSeq(s, i - 1 + 1, Len(s)))
    BY <1>1, CutSet
  <2>2. SubSeq(s, i - 1 + 1, Len(s)) = r
    BY <1>1, <1>3
  <2> QED
    BY <1>2, <2>1, <2>2
<1>5. <<m>> \in Seq(S) /\ ToSet(<<m>>) = {m}
  <2>1. ToSet(<<m>>) = {<<m>>[k] : k \in 1 .. 1}
    BY DEF ToSet
  <2> QED
    BY <2>1
<1>6. PICK e : e = <<m>>
  OBVIOUS
<1>7. PICK g : g = f \o e
  OBVIOUS
<1>8. ToSet(g \o r) = ToSet(f) \cup {m} \cup ToSet(r)
  <2>1. e \in Seq(S) /\ ToSet(e) = {m}
    BY <1>5, <1>6
  <2>2. f \o e \in Seq(S)
    BY <1>4, <2>1, ConcatProperties
  <2>3. ToSet(f \o e) = ToSet(f) \cup ToSet(e)
    BY <1>4, <2>1, ConcatSet
  <2>4. g \in Seq(S) /\ r \in Seq(S)
    BY <1>4, <1>7, <2>2
  <2>5. ToSet(g \o r) = ToSet(g) \cup ToSet(r)
    BY <2>4, ConcatSet
  <2> QED
    BY <1>7, <2>1, <2>3, <2>5
<1>9. InsertAt(s, i, m) = g \o r
  BY <1>2, <1>3, <1>6, <1>7 DEF InsertAt
<1> QED
  BY <1>4, <1>8, <1>9

LEMMA TailSet ==
  ASSUME NEW S, NEW s \in Seq(S), s # << >>
  PROVE  Head(s) \in S /\ Tail(s) \in Seq(S) /\ ToSet(s) = {Head(s)} \cup ToSet(Tail(s))
<1>1. PICK h : h = Head(s)
  OBVIOUS
<1>2. PICK t : t = Tail(s)
  OBVIOUS
<1>3. /\ h \in S /\ t \in Seq(S) /\ Len(t) = Len(s) - 1 /\ Len(s) \in Nat \ {0} /\ h = s[1]
      /\ \A i \in 1 .. Len(t) : t[i] = s[i + 1]
  <2>1. Head(s) = s[1]
    OBVIOUS
  <2> QED
    BY <1>1, <1>2, <2>1, HeadTailProperties, EmptySeq
<1>4. \A x : /\ x \in ToSet(s) <=> \E i \in 1 .. Len(s) : s[i] = x
             /\ x \in ToSet(t) <=> \E i \in 1 .. Len(t) : t[i] = x
  BY <1>3, Member
<1>5. ASSUME NEW x, x \in ToSet(s) PROVE x \in {h} \cup ToSet(t)
  <2>1. PICK i \in 1 .. Len(s) : s[i] = x
    BY <1>4, <1>5
  <2>2. CASE i = 1
    BY <1>3, <2>1, <2>2
  <2>3. CASE i # 1
    <3>1. i - 1 \in 1 .. Len(t) /\ (i - 1) + 1 = i
      BY <1>3, <2>3
    <3> QED
      BY <1>3, <1>4, <2>1, <3>1
  <2> QED
    BY <2>2, <2>3
<1>6. ASSUME NEW x, x \in {h} \cup ToSet(t) PROVE x \in ToSet(s)
  <2>1. CASE x = h
    <3>1. 1 \in 1 .. Len(s)
      BY <1>3
    <3> QED
      BY <1>3, <1>4, <2>1, <3>1
  <2>2. CASE x \in ToSet(t)
    <3>1. PICK i \in 1 .. Len(t) : t[i] = x
      BY <1>4, <2>2
    <3>2. i + 1 \in 1 .. Len(s)
      BY <1>3
    <3> QED
      BY <1>3, <1>4, <3>1, <3>2
  <2> QED
    BY <1>6, <2>1, <2>2
<1> QED
  BY <1>1, <1>2, <1>3, <1>5, <1>6

-----------------------------------------------------------------------------
(* Promises are made in order, and whatever is ready, dated, sent or in    *)
(* execution was made.                                                     *)
Numbered == Made = 1 .. Cardinality(Made)
Marked == timers \subseteq Made /\ is_ready \subseteq Made

(* A message that names a promise of a timer is its notice, and it is with *)
(* the owner.                                                              *)
Fits(p, m) == /\ m.promise \in Made \cup {None}
              /\ m.promise \in timers => m = Notice(m.promise) /\ owner[m.promise] = p
Queued == \A p \in Procs : \A m \in ToSet(mailbox[p]) : Fits(p, m)
Taken == \A p \in Procs : \A m \in ToSet(batch[p]) \cup {current[p]} : m.promise \in Made \cup {None}

Known == Numbered /\ Marked /\ Queued /\ Taken

LEMMA FirstNumbers ==
  ASSUME NEW n \in Nat
  PROVE  IsFiniteSet(1 .. n) /\ Cardinality(1 .. n) = n
<1>1. PICK v : v = Cardinality(1 .. n)
  OBVIOUS
<1>2. 1 \in Int /\ n \in Int
  OBVIOUS
<1>3. IsFiniteSet(1 .. n) /\ v = IF 1 > n THEN 0 ELSE n - 1 + 1
  BY <1>1, <1>2, FS_Interval, Zenon
<1> QED
  BY <1>1, <1>3

(* A new promise is the next one, and every other keeps its owner. *)
LEMMA NewOne ==
  ASSUME TypeOK, Numbered, NEW p \in Procs, NEW pr \in Fresh, NewPromise(p, pr)
  PROVE  /\ pr \in Ids /\ pr \notin Made /\ Made' = Made \cup {pr} /\ owner'[pr] = p
         /\ \A x \in Made : owner'[x] = owner[x]
         /\ Numbered'
<1>1. PICK n : n = Cardinality(Made)
  OBVIOUS
<1>2. n \in Nat /\ pr = n + 1 /\ Made = 1 .. n /\ pr \in Ids
  BY <1>1, MadeFinite DEF Fresh, Numbered
<1>3. owner \in [Ids -> Procs \cup {None}] /\ owner' = [owner EXCEPT ![pr] = p] /\ p # None
  BY PromisesAssumption DEF TypeOK, NewPromise
<1>4. \A x \in Ids : owner'[x] = IF x = pr THEN p ELSE owner[x]
  BY <1>2, <1>3
<1>5. pr \notin Made
  BY <1>2
<1>6. Made' = Made \cup {pr}
  BY <1>2, <1>3, <1>4 DEF Made
<1>7. Made' = 1 .. n + 1
  BY <1>2, <1>6
<1>8. Cardinality(Made') = n + 1
  BY <1>2, <1>7, FirstNumbers
<1>9. Numbered'
  BY <1>7, <1>8 DEF Numbered
<1> QED
  BY <1>2, <1>3, <1>4, <1>5, <1>6, <1>9 DEF Made

(* What any step does to the promises that were made. *)
Kept == /\ Made \subseteq Made' /\ \A x \in Made : owner'[x] = owner[x]
        /\ Numbered'
        /\ timers' \cap Made = timers \cap Made /\ timers' \subseteq Made'

LEMMA KeptSame ==
  ASSUME Known, UNCHANGED <<owner, timers>>
  PROVE  Kept /\ Made' = Made
BY DEF Known, Kept, Numbered, Marked, Made

LEMMA KnownKept ==
  ASSUME Known, Kept, is_ready' \subseteq Made',
         \A p \in Procs : \A m \in ToSet(mailbox'[p]) : m \in ToSet(mailbox[p]) \/ Fits(p, m)',
         \A p \in Procs : \A m \in ToSet(batch'[p]) : m \in ToSet(batch[p]) \cup ToSet(mailbox[p]),
         \A p \in Procs : current'[p] \in {current[p]} \cup ToSet(batch[p])
  PROVE  Known'
<1>1. Queued'
  <2>1. ASSUME NEW p \in Procs, NEW m, Fits(p, m) PROVE Fits(p, m)'
    <3>1. m.promise \in Made' \cup {None}
      BY <2>1 DEF Fits, Kept
    <3>2. ASSUME m.promise \in timers' PROVE m = Notice(m.promise) /\ owner'[m.promise] = p
      <4>1. CASE m.promise \in Made
        BY <2>1, <3>2, <4>1 DEF Fits, Kept
      <4>2. CASE m.promise = None
        <5>1. None \notin timers'
          BY DEF Kept, Made, Ids, None
        <5> QED
          BY <3>2, <4>2, <5>1
      <4> QED
        BY <2>1, <4>1, <4>2 DEF Fits
    <3> QED
      BY <3>1, <3>2 DEF Fits, Notice
  <2>2. \A p \in Procs : \A m \in ToSet(mailbox[p]) : Fits(p, m)
    BY DEF Known, Queued
  <2>3. \A p \in Procs : \A m \in ToSet(mailbox'[p]) : Fits(p, m)'
    BY <2>1, <2>2
  <2> QED
    BY <2>3 DEF Queued
<1>2. Taken'
  <2>1. \A p \in Procs : \A m \in ToSet(batch[p]) \cup ToSet(mailbox[p]) \cup {current[p]} :
          m.promise \in Made \cup {None}
    BY DEF Known, Queued, Taken, Fits
  <2>2. \A p \in Procs : \A m \in ToSet(batch'[p]) \cup {current'[p]} : m.promise \in Made' \cup {None}
    BY <2>1 DEF Kept
  <2> QED
    BY <2>2 DEF Taken
<1> QED
  BY <1>1, <1>2 DEF Known, Marked, Kept

(* The steps that move no message and make no promise ready. *)
LEMMA StillKnown ==
  ASSUME Known, Kept, UNCHANGED <<mailbox, batch, current, is_ready>>
  PROVE  Known'
<1>1. is_ready' \subseteq Made'
  BY DEF Known, Marked, Kept
<1> QED
  BY <1>1, KnownKept

(* What the steps that move messages do to the queues. *)
LEMMA SentSet ==
  ASSUME TypeOK, NEW q, NEW m \in Messages, SendMessage(q, m)
  PROVE  \A p \in Procs : ToSet(mailbox'[p]) = IF p = q THEN ToSet(mailbox[p]) \cup {m} ELSE ToSet(mailbox[p])
<1>1. \A p \in Procs : mailbox'[p] = IF p = q THEN Append(mailbox[p], m) ELSE mailbox[p]
  BY Sent
<1>2. \A p \in Procs : mailbox[p] \in Seq(Messages)
  BY DEF TypeOK
<1>3. \A p \in Procs : ToSet(Append(mailbox[p], m)) = ToSet(mailbox[p]) \cup {m}
  BY <1>2, AppendSet
<1> QED
  BY <1>1, <1>3

LEMMA ExpiredSet ==
  ASSUME TypeOK, NEW pr \in Ids, Expire(pr)
  PROVE  \A p \in Procs : ToSet(mailbox'[p]) = IF p = owner[pr] THEN ToSet(mailbox[p]) \cup {Notice(pr)}
                                                                ELSE ToSet(mailbox[p])
<1>1. PICK q : q = owner[pr]
  OBVIOUS
<1>2. PICK i \in 1 .. Len(mailbox[q]) + 1 :
        mailbox' = [mailbox EXCEPT ![q] = InsertAt(@, i, Notice(pr))]
  BY <1>1 DEF Expire
<1>3. mailbox \in [Procs -> Seq(Messages)] /\ Notice(pr) \in Messages
  BY MessageTypes DEF TypeOK
<1>4. CASE q \in Procs
  <2>1. PICK s : s = InsertAt(mailbox[q], i, Notice(pr))
    OBVIOUS
  <2>2. mailbox[q] \in Seq(Messages)
    BY <1>3, <1>4
  <2>3. ToSet(s) = ToSet(mailbox[q]) \cup {Notice(pr)}
    BY <1>2, <1>3, <2>1, <2>2, InsertSet
  <2>4. \A p \in Procs : mailbox'[p] = IF p = q THEN s ELSE mailbox[p]
    BY <1>2, <1>3, <1>4, <2>1
  <2> QED
    BY <1>1, <2>3, <2>4
<1>5. CASE q \notin Procs
  <2>1. \A p \in Procs : mailbox'[p] = mailbox[p]
    BY <1>2, <1>3, <1>5
  <2> QED
    BY <1>1, <1>5, <2>1
<1> QED
  BY <1>4, <1>5

LEMMA TakenSets ==
  ASSUME TypeOK, NEW p \in Procs, Take(p)
  PROVE  /\ ToSet(mailbox[p]) = ToSet(batch'[p]) \cup ToSet(mailbox'[p])
         /\ ToSet(batch[p]) = {}
         /\ \A q \in Procs : q # p => mailbox'[q] = mailbox[q] /\ batch'[q] = batch[q]
         /\ is_ready \subseteq is_ready'
         /\ \A pr \in is_ready' \ is_ready : pr \in timers /\ \E m \in ToSet(batch'[p]) : m.promise = pr
<1>1. PICK n \in 1 .. Len(mailbox[p]) :
        /\ batch' = [batch EXCEPT ![p] = SubSeq(mailbox[p], 1, n)]
        /\ mailbox' = [mailbox EXCEPT ![p] = SubSeq(@, n + 1, Len(@))]
        /\ is_ready' = is_ready \cup ({mailbox[p][i].promise : i \in 1 .. n} \cap timers)
  BY DEF Take
<1>2. /\ mailbox \in [Procs -> Seq(Messages)] /\ batch \in [Procs -> Seq(Messages)]
      /\ mailbox[p] \in Seq(Messages) /\ Len(mailbox[p]) \in Nat
  BY LenProperties DEF TypeOK
<1>3. PICK f : f = SubSeq(mailbox[p], 1, n)
  OBVIOUS
<1>4. PICK r : r = SubSeq(mailbox[p], n + 1, Len(mailbox[p]))
  OBVIOUS
<1>5. n \in 0 .. Len(mailbox[p]) /\ n \in Nat
  BY <1>2
<1>6. f \in Seq(Messages) /\ ToSet(mailbox[p]) = ToSet(f) \cup ToSet(r)
  BY <1>2, <1>3, <1>4, <1>5, CutSet
<1>7. batch' = [batch EXCEPT ![p] = f] /\ mailbox' = [mailbox EXCEPT ![p] = r]
  BY <1>1, <1>3, <1>4
<1>8. /\ batch'[p] = f /\ mailbox'[p] = r
      /\ \A q \in Procs : q # p => mailbox'[q] = mailbox[q] /\ batch'[q] = batch[q]
  BY <1>2, <1>7
<1>9. ASSUME NEW pr \in is_ready' \ is_ready PROVE pr \in timers /\ \E m \in ToSet(f) : m.promise = pr
  <2>1. PICK i \in 1 .. n : pr = mailbox[p][i].promise /\ pr \in timers
    BY <1>1, <1>9
  <2>2. f[i] = mailbox[p][i] /\ i \in 1 .. Len(f)
    <3>1. (\A j \in 1 .. n : mailbox[p][j] \in Messages) /\ 1 \in Int /\ n \in Int
      BY <1>2, <1>5, ElementOfSeq
    <3>2. Len(f) = (IF 1 <= n THEN n - 1 + 1 ELSE 0) /\ \A j \in 1 .. n - 1 + 1 : f[j] = mailbox[p][1 + j - 1]
      BY <1>3, <3>1, SubSeqProperties
    <3>3. n - 1 + 1 = n /\ 1 <= n /\ 1 + i - 1 = i
      BY <1>5
    <3> QED
      BY <3>2, <3>3
  <2>3. f[i] \in ToSet(f)
    BY <1>6, <2>2, Member
  <2> QED
    BY <2>1, <2>2, <2>3
<1>10. ToSet(batch[p]) = {}
  BY DEF Take, ToSet
<1> QED
  BY <1>1, <1>6, <1>8, <1>9, <1>10

LEMMA BegunSets ==
  ASSUME TypeOK, NEW p \in Procs, Begin(p)
  PROVE  /\ ToSet(batch[p]) = {current'[p]} \cup ToSet(batch'[p])
         /\ \A q \in Procs : q # p => batch'[q] = batch[q] /\ current'[q] = current[q]
         /\ pc[p] = "idle" /\ pc'[p] \in {"body", "whens"} /\ at'[p] = 1
         /\ UNCHANGED <<mailbox, when_blocks, whenever_blocks, owner, timers, value, is_ready, starting, calls, ran>>
<1>1. /\ batch \in [Procs -> Seq(Messages)] /\ batch[p] \in Seq(Messages) /\ batch[p] # << >>
      /\ current \in [Procs -> Messages] /\ pc \in [Procs -> Pcs] /\ at \in [Procs -> Nat \ {0}]
  BY DEF Begin, TypeOK, Pcs
<1>2. ToSet(batch[p]) = {Head(batch[p])} \cup ToSet(Tail(batch[p]))
  BY <1>1, TailSet
<1>3. PICK t : t = Tail(batch[p])
  OBVIOUS
<1>4. PICK m : m = Head(batch[p])
  OBVIOUS
<1>5. /\ batch' = [batch EXCEPT ![p] = t] /\ current' = [current EXCEPT ![p] = m] /\ pc[p] = "idle"
      /\ \E l \in {"body", "whens"} : GotoAt(p, l, 1)
      /\ UNCHANGED <<mailbox, when_blocks, whenever_blocks, owner, timers, value, is_ready, starting, calls, ran>>
  BY <1>3, <1>4 DEF Begin
<1>6. pc'[p] \in {"body", "whens"} /\ at'[p] = 1
  BY <1>1, <1>5 DEF GotoAt
<1>7. /\ batch'[p] = t /\ current'[p] = m
      /\ \A q \in Procs : q # p => batch'[q] = batch[q] /\ current'[q] = current[q]
  BY <1>1, <1>5
<1> QED
  BY <1>2, <1>3, <1>4, <1>5, <1>6, <1>7

(* The core steps that move no message and answer nobody. *)
Silently(p) == \/ Return(p) \/ StoreValue(p)
               \/ When(p) \/ WhenNotYet(p) \/ EndWhen(p) \/ WhensDone(p)
               \/ Whenever(p) \/ WheneverNotYet(p) \/ EndWhenever(p) \/ WheneversDone(p)

LEMMA SilentFrame ==
  ASSUME TypeOK, NEW p \in Procs, Silently(p)
  PROVE  /\ UNCHANGED <<mailbox, batch, current, is_ready, owner, timers>>
         /\ pc[p] # "notify" /\ pc'[p] # "notify"
<1>1. pc \in [Procs -> Pcs]
  BY DEF TypeOK, Pcs
<1> QED
  BY <1>1 DEF Silently, Return, StoreValue, When, WhenNotYet, EndWhen, WhensDone, Whenever, Whens, Whenevers,
              WheneverNotYet, EndWhenever, WheneversDone, Goto, GotoAt

LEMMA KnownStep == IInv /\ Known /\ [Next]_vars => Known'
<1> SUFFICES ASSUME IInv, Known, [Next]_vars PROVE Known'
  OBVIOUS
<1>1. TypeOK /\ Numbered
  BY DEF IInv, Known
<1>2. ASSUME NEW p \in Procs, NEW q \in Procs, ProcessMessage(p, q) PROVE Known'
  <2>1. PICK a \in {None} \cup holds[p] :
          \/ \E pr \in Fresh : NewPromise(p, pr) /\ SendMessage(q, Call(pr, a))
          \/ SendMessage(q, Call(None, a)) /\ UNCHANGED owner
    BY <1>2 DEF ProcessMessage
  <2>2. UNCHANGED <<batch, current, timers, is_ready>> /\ a \in Ids \cup {None}
    BY <1>1, <1>2, <2>1 DEF ProcessMessage, TypeOK
  <2>3. \E pr \in Made' \cup {None} : Kept /\ pr \notin timers /\ SendMessage(q, Call(pr, a)) /\ pr \in Ids \cup {None}
    <3>1. CASE \E pr \in Fresh : NewPromise(p, pr) /\ SendMessage(q, Call(pr, a))
      <4>1. PICK pr \in Fresh : NewPromise(p, pr) /\ SendMessage(q, Call(pr, a))
        BY <3>1
      <4>2. /\ pr \in Ids /\ pr \notin Made /\ Made' = Made \cup {pr}
            /\ \A x \in Made : owner'[x] = owner[x]
            /\ Numbered'
        BY <1>1, <4>1, NewOne
      <4> QED
        BY <2>2, <4>1, <4>2 DEF Known, Marked, Kept
    <3>2. CASE SendMessage(q, Call(None, a)) /\ UNCHANGED owner
      <4>1. Kept /\ None \notin timers
        BY <2>2, <3>2, KeptSame DEF Known, Marked, Made, Ids, None
      <4> QED
        BY <3>2, <4>1
    <3> QED
      BY <2>1, <3>1, <3>2
  <2>4. PICK pr \in Made' \cup {None} :
          Kept /\ pr \notin timers /\ SendMessage(q, Call(pr, a)) /\ pr \in Ids \cup {None}
    BY <2>3
  <2>5. \A x \in Procs : ToSet(mailbox'[x]) =
          IF x = q THEN ToSet(mailbox[x]) \cup {Call(pr, a)} ELSE ToSet(mailbox[x])
    BY <1>1, <2>2, <2>4, MessageTypes, SentSet
  <2>6. Fits(q, Call(pr, a))'
    BY <2>2, <2>4 DEF Fits, Call
  <2>7. is_ready' \subseteq Made'
    BY <2>2, <2>4 DEF Kept, Known, Marked
  <2> QED
    BY <2>2, <2>4, <2>5, <2>6, <2>7, KnownKept
<1>3. ASSUME NEW p \in Procs, Timer(p) PROVE Known'
  <2>1. PICK pr \in Fresh : NewPromise(p, pr) /\ timers' = timers \cup {pr}
    BY <1>3 DEF Timer
  <2>2. /\ pr \in Ids /\ pr \notin Made /\ Made' = Made \cup {pr}
        /\ \A x \in Made : owner'[x] = owner[x]
        /\ Numbered'
    BY <1>1, <2>1, NewOne
  <2>3. Kept
    BY <2>1, <2>2 DEF Kept, Known, Marked
  <2>4. UNCHANGED <<mailbox, batch, current, is_ready>>
    BY <1>3 DEF Timer
  <2> QED
    BY <2>3, <2>4, StillKnown
<1>4. ASSUME NEW pr \in Ids, Expire(pr) PROVE Known'
  <2>1. UNCHANGED <<batch, current, owner, timers, is_ready>> /\ pr \in timers
    BY <1>4 DEF Expire
  <2>2. Kept /\ Made' = Made
    BY <2>1, KeptSame
  <2>3. PICK q : q = owner[pr]
    OBVIOUS
  <2>4. \A p \in Procs : \A m \in ToSet(mailbox'[p]) : m \in ToSet(mailbox[p]) \/ Fits(p, m)'
    <3>1. \A p \in Procs : ToSet(mailbox'[p]) = IF p = q THEN ToSet(mailbox[p]) \cup {Notice(pr)}
                                                         ELSE ToSet(mailbox[p])
      BY <1>1, <1>4, <2>3, ExpiredSet
    <3>2. Fits(q, Notice(pr))'
      BY <2>1, <2>2, <2>3 DEF Fits, Notice, Known, Marked
    <3> QED
      BY <3>1, <3>2
  <2>5. is_ready' \subseteq Made'
    BY <2>1, <2>2 DEF Known, Marked
  <2> QED
    BY <2>1, <2>2, <2>4, <2>5, KnownKept
<1>5. ASSUME NEW p \in Procs, Take(p) PROVE Known'
  <2>1. UNCHANGED <<current, owner, timers>>
    BY <1>5 DEF Take
  <2>2. Kept /\ Made' = Made
    BY <2>1, KeptSame
  <2>3. is_ready' \subseteq Made'
    BY <1>1, <1>5, <2>2, TakenSets DEF Known, Marked
  <2>4. ASSUME NEW q \in Procs
        PROVE  ToSet(mailbox'[q]) \subseteq ToSet(mailbox[q])
               /\ ToSet(batch'[q]) \subseteq ToSet(batch[q]) \cup ToSet(mailbox[q])
    <3>1. CASE q = p
      BY <1>1, <1>5, <3>1, TakenSets
    <3>2. CASE q # p
      <4>1. mailbox'[q] = mailbox[q] /\ batch'[q] = batch[q]
        BY <1>1, <1>5, <3>2, TakenSets
      <4> QED
        BY <4>1
    <3> QED
      BY <3>1, <3>2
  <2> QED
    BY <2>1, <2>2, <2>3, <2>4, KnownKept
<1>6. ASSUME NEW p \in Procs, Begin(p) PROVE Known'
  <2>1. UNCHANGED <<mailbox, owner, timers, is_ready>>
    BY <1>1, <1>6, BegunSets
  <2>2. Kept /\ is_ready' \subseteq Made'
    BY <2>1, KeptSame DEF Known, Marked
  <2>3. ASSUME NEW q \in Procs
        PROVE  current'[q] \in {current[q]} \cup ToSet(batch[q]) /\ ToSet(batch'[q]) \subseteq ToSet(batch[q])
    <3>1. CASE q = p
      BY <1>1, <1>6, <3>1, BegunSets
    <3>2. CASE q # p
      <4>1. batch'[q] = batch[q] /\ current'[q] = current[q]
        BY <1>1, <1>6, <3>2, BegunSets
      <4> QED
        BY <4>1
    <3> QED
      BY <3>1, <3>2
  <2> QED
    BY <2>1, <2>2, <2>3, KnownKept
<1>7. ASSUME NEW p \in Procs, MarkReady(p) PROVE Known'
  <2>1. UNCHANGED <<mailbox, batch, current, owner, timers>> /\ is_ready' = is_ready \cup {current[p].promise}
    BY <1>7 DEF MarkReady
  <2>2. Kept /\ Made' = Made
    BY <2>1, KeptSame
  <2>3. current[p].promise \in Made
    <3>1. current[p].promise \in Ids /\ current[p].promise \in Made \cup {None}
      BY <1>7 DEF MarkReady, IInv, BodyShape, Known, Taken
    <3>2. None \notin Ids
      BY DEF Ids, None
    <3> QED
      BY <3>1, <3>2
  <2>4. is_ready' \subseteq Made'
    BY <2>1, <2>2, <2>3 DEF Known, Marked
  <2> QED
    BY <2>1, <2>2, <2>4, KnownKept
<1>8. ASSUME NEW p \in Procs, Notify(p) PROVE Known'
  <2>1. /\ UNCHANGED <<batch, current, owner, timers, is_ready>> /\ current[p].promise \in Ids
        /\ SendMessage(owner[current[p].promise], Notice(current[p].promise))
    BY <1>8 DEF Notify, IInv, BodyShape
  <2>2. Kept /\ Made' = Made /\ is_ready' \subseteq Made'
    BY <2>1, KeptSame DEF Known, Marked
  <2>3. current[p].promise \in Made \cup {None}
    BY DEF Known, Taken
  <2>4. PICK pr : pr = current[p].promise
    OBVIOUS
  <2>5. PICK o : o = owner[pr]
    OBVIOUS
  <2>6. \A q \in Procs : \A m \in ToSet(mailbox'[q]) : m \in ToSet(mailbox[q]) \/ Fits(q, m)'
    <3>1. Notice(pr) \in Messages /\ SendMessage(o, Notice(pr))
      BY <2>1, <2>4, <2>5, MessageTypes
    <3>2. \A q \in Procs : ToSet(mailbox'[q]) = IF q = o THEN ToSet(mailbox[q]) \cup {Notice(pr)}
                                                         ELSE ToSet(mailbox[q])
      BY <1>1, <3>1, SentSet
    <3>3. Fits(o, Notice(pr))'
      BY <2>1, <2>2, <2>3, <2>4, <2>5 DEF Fits, Notice
    <3> QED
      BY <3>2, <3>3
  <2> QED
    BY <2>1, <2>2, <2>6, KnownKept
<1>9. ASSUME NEW p \in Procs, Silently(p) PROVE Known'
  <2>1. UNCHANGED <<mailbox, batch, current, is_ready, owner, timers>>
    BY <1>1, <1>9, SilentFrame
  <2> QED
    BY <2>1, KeptSame, StillKnown
<1>10. ASSUME NEW p \in Procs, WhenRegister(p) \/ WheneverRegister(p) \/ FirstReturn(p) PROVE Known'
  <2>1. UNCHANGED <<mailbox, batch, current, is_ready, owner, timers>>
    BY <1>10 DEF WhenRegister, WheneverRegister, FirstReturn
  <2> QED
    BY <2>1, KeptSame, StillKnown
<1>11. CASE UNCHANGED vars
  <2>1. UNCHANGED <<mailbox, batch, current, is_ready, owner, timers>>
    BY <1>11 DEF vars
  <2> QED
    BY <2>1, KeptSame, StillKnown
<1> QED
  BY <1>2, <1>3, <1>4, <1>5, <1>6, <1>7, <1>8, <1>9, <1>10, <1>11 DEF Next, CoreStep, Instruction, Silently

LEMMA InitKnown == Init => Known
<1> SUFFICES ASSUME Init PROVE Known
  OBVIOUS
<1>1. Made = 1 .. 0 /\ Made = {} /\ Numbered
  <2>1. Made = {}
    BY DEF Init, Made
  <2>2. Cardinality(1 .. 0) = 0 /\ 1 .. 0 = {}
    BY FirstNumbers
  <2> QED
    BY <2>1, <2>2 DEF Numbered
<1>2. Queued
  <2>1. ASSUME NEW p \in Procs, NEW m \in ToSet(mailbox[p]) PROVE m.promise = None
    <3>1. mailbox[p] = <<Call(None, None)>> \/ mailbox[p] = << >>
      BY DEF Init
    <3>2. m = Call(None, None)
      BY <2>1, <3>1 DEF ToSet
    <3> QED
      BY <3>2 DEF Call
  <2>2. timers = {}
    BY DEF Init
  <2> QED
    BY <2>1, <2>2 DEF Queued, Fits
<1>3. Taken
  <2>1. ASSUME NEW p \in Procs, NEW m \in ToSet(batch[p]) \cup {current[p]} PROVE m.promise = None
    <3>1. batch[p] = << >> /\ current[p] = Notice(None)
      BY DEF Init
    <3>2. m = Notice(None)
      BY <2>1, <3>1 DEF ToSet
    <3> QED
      BY <3>2 DEF Notice
  <2> QED
    BY <2>1 DEF Taken
<1>4. Marked
  BY DEF Init, Marked
<1> QED
  BY <1>1, <1>2, <1>3, <1>4 DEF Known

-----------------------------------------------------------------------------
(* A process hears of its promises: when all of a set it owns are ready,   *)
(* the notice of one of them is still to come to it.                       *)
Coming(p, pr) == \/ Notice(pr) \in ToSet(mailbox[p]) \cup ToSet(batch[p])
                 \/ \E q \in Procs : pc[q] = "notify" /\ current[q].promise = pr
Hears(p, S) == S \subseteq is_ready \cap Own(p) => \E pr \in S : Coming(p, pr)

LEMMA HearsTold == \A p \in Procs : \A S : (\E pr \in S : Coming(p, pr)) <=> Told(p, S)
BY DEF Coming, Told

(* What a step must do to be heard: no new promise is ready, a notice      *)
(* stays, and a promise that becomes ready is announced.                   *)
LEMMA HearsKept ==
  ASSUME Known, Kept, NEW p \in Procs, NEW S, S # {}, Hears(p, S),
         is_ready' \subseteq Made,
         \A pr \in Made : owner[pr] = p /\ Coming(p, pr) => Coming(p, pr)',
         \A pr \in is_ready' \ is_ready : owner[pr] = p => Coming(p, pr)'
  PROVE  Hears(p, S)'
<1> SUFFICES ASSUME S \subseteq is_ready', S \subseteq Own(p)' PROVE \E pr \in S : Coming(p, pr)'
  BY DEF Hears
<1>1. \A pr \in S : pr \in Made /\ pr \in Ids /\ owner[pr] = p
  <2>1. S \subseteq Made
    OBVIOUS
  <2>2. \A pr \in S : pr \in Ids /\ owner'[pr] = p
    BY DEF Own
  <2> QED
    BY <2>1, <2>2 DEF Kept
<1>2. CASE S \subseteq is_ready
  <2>1. S \subseteq Own(p)
    BY <1>1 DEF Own
  <2>2. PICK pr \in S : Coming(p, pr)
    BY <1>2, <2>1 DEF Hears
  <2> QED
    BY <1>1, <2>2
<1>3. CASE ~(S \subseteq is_ready)
  <2>1. PICK pr \in S : pr \notin is_ready
    BY <1>3
  <2> QED
    BY <1>1, <2>1
<1> QED
  BY <1>2, <1>3

(* Every step is heard but the one that takes the next message. *)
LEMMA StepHeard ==
  ASSUME IInv, Known, NEW p \in Procs, NEW S, S # {}, Hears(p, S), [Next]_vars, ~Begin(p)
  PROVE  Hears(p, S)'
<1>1. TypeOK /\ Numbered /\ is_ready \subseteq Made
  BY DEF IInv, Known, Marked
<1>2. ASSUME Kept, UNCHANGED <<batch, current, is_ready>>,
             \A q \in Procs : pc[q] = "notify" <=> pc'[q] = "notify",
             ToSet(mailbox[p]) \subseteq ToSet(mailbox'[p])
      PROVE  Hears(p, S)'
  <2>1. \A pr : Coming(p, pr) => Coming(p, pr)'
    BY <1>2 DEF Coming, Notice
  <2> QED
    BY <1>1, <1>2, <2>1, HearsKept
<1>3. ASSUME NEW x \in Procs, NEW q \in Procs, ProcessMessage(x, q) PROVE Hears(p, S)'
  <2>1. PICK a \in {None} \cup holds[x] :
          \/ \E pr \in Fresh : NewPromise(x, pr) /\ SendMessage(q, Call(pr, a))
          \/ SendMessage(q, Call(None, a)) /\ UNCHANGED owner
    BY <1>3 DEF ProcessMessage
  <2>2. UNCHANGED <<batch, current, timers, is_ready, pc>> /\ a \in Ids \cup {None}
    BY <1>1, <1>3, <2>1 DEF ProcessMessage, TypeOK
  <2>3. \E pr \in Ids \cup {None} : Kept /\ SendMessage(q, Call(pr, a))
    <3>1. CASE \E pr \in Fresh : NewPromise(x, pr) /\ SendMessage(q, Call(pr, a))
      <4>1. PICK pr \in Fresh : NewPromise(x, pr) /\ SendMessage(q, Call(pr, a))
        BY <3>1
      <4>2. /\ pr \in Ids /\ pr \notin Made /\ Made' = Made \cup {pr}
            /\ \A y \in Made : owner'[y] = owner[y]
            /\ Numbered'
        BY <1>1, <4>1, NewOne
      <4> QED
        BY <2>2, <4>1, <4>2 DEF Known, Marked, Kept
    <3>2. CASE SendMessage(q, Call(None, a)) /\ UNCHANGED owner
      BY <2>2, <3>2, KeptSame
    <3> QED
      BY <2>1, <3>1, <3>2
  <2>4. PICK pr \in Ids \cup {None} : Kept /\ SendMessage(q, Call(pr, a))
    BY <2>3
  <2>5. \A y \in Procs : ToSet(mailbox'[y]) =
          IF y = q THEN ToSet(mailbox[y]) \cup {Call(pr, a)} ELSE ToSet(mailbox[y])
    BY <1>1, <2>2, <2>4, MessageTypes, SentSet
  <2> QED
    BY <1>2, <2>2, <2>4, <2>5
<1>4. ASSUME NEW x \in Procs, Timer(x) PROVE Hears(p, S)'
  <2>1. PICK pr \in Fresh : NewPromise(x, pr) /\ timers' = timers \cup {pr}
    BY <1>4 DEF Timer
  <2>2. /\ pr \in Ids /\ pr \notin Made /\ Made' = Made \cup {pr}
        /\ \A y \in Made : owner'[y] = owner[y]
        /\ Numbered'
    BY <1>1, <2>1, NewOne
  <2>3. Kept
    BY <2>1, <2>2 DEF Kept, Known, Marked
  <2>4. UNCHANGED <<mailbox, batch, current, is_ready, pc>>
    BY <1>4 DEF Timer
  <2> QED
    BY <1>2, <2>3, <2>4
<1>5. ASSUME NEW pr \in Ids, Expire(pr) PROVE Hears(p, S)'
  <2>1. UNCHANGED <<batch, current, owner, timers, is_ready, pc>>
    BY <1>5 DEF Expire
  <2>2. ToSet(mailbox[p]) \subseteq ToSet(mailbox'[p])
    BY <1>1, <1>5, ExpiredSet
  <2> QED
    BY <1>2, <2>1, <2>2, KeptSame
<1>6. ASSUME NEW x \in Procs, Take(x) PROVE Hears(p, S)'
  <2>1. UNCHANGED <<current, owner, timers, pc>>
    BY <1>6 DEF Take
  <2>2. Kept /\ Made' = Made
    BY <2>1, KeptSame
  <2>3. /\ is_ready \subseteq is_ready'
        /\ \A pr \in is_ready' \ is_ready : pr \in timers /\ \E m \in ToSet(batch'[x]) : m.promise = pr
    BY <1>1, <1>6, TakenSets
  <2>4. is_ready' \subseteq Made
    BY <1>1, <2>3 DEF Known, Marked
  <2>5. ToSet(mailbox[p]) \cup ToSet(batch[p]) \subseteq ToSet(mailbox'[p]) \cup ToSet(batch'[p])
    <3>1. CASE x = p
      BY <1>1, <1>6, <3>1, TakenSets
    <3>2. CASE x # p
      <4>1. mailbox'[p] = mailbox[p] /\ batch'[p] = batch[p]
        BY <1>1, <1>6, <3>2, TakenSets
      <4> QED
        BY <4>1
    <3> QED
      BY <3>1, <3>2
  <2>6. \A pr : Coming(p, pr) => Coming(p, pr)'
    BY <2>1, <2>5 DEF Coming, Notice
  <2>7. ASSUME NEW pr \in is_ready' \ is_ready, owner[pr] = p PROVE Coming(p, pr)'
    <3>1. PICK m \in ToSet(batch'[x]) : m.promise = pr /\ pr \in timers
      BY <2>3
    <3>2. m \in ToSet(mailbox[x])
      BY <1>1, <1>6, TakenSets
    <3>3. m = Notice(pr) /\ owner[pr] = x
      BY <3>1, <3>2 DEF Known, Queued, Fits
    <3> QED
      BY <2>7, <3>1, <3>3 DEF Coming, Notice
  <2> QED
    BY <2>2, <2>4, <2>6, <2>7, HearsKept
<1>7. ASSUME NEW x \in Procs, Begin(x) PROVE Hears(p, S)'
  <2>1. x # p /\ UNCHANGED <<mailbox, owner, timers, is_ready>> /\ pc[x] # "notify" /\ batch'[p] = batch[p]
    BY <1>1, <1>7, BegunSets
  <2>2. \A y \in Procs : y # x => pc'[y] = pc[y] /\ current'[y] = current[y]
    BY <1>1, <1>7, CoreFrame DEF CoreStep
  <2>3. \A pr : Coming(p, pr) => Coming(p, pr)'
    BY <2>1, <2>2 DEF Coming, Notice
  <2> QED
    BY <1>1, <2>1, <2>3, KeptSame, HearsKept
<1>8. ASSUME NEW x \in Procs, MarkReady(x) PROVE Hears(p, S)'
  <2>1. /\ UNCHANGED <<mailbox, batch, current, owner, timers>> /\ pc[x] = "ready"
        /\ is_ready' = is_ready \cup {current[x].promise}
    BY <1>8 DEF MarkReady
  <2>2. \A y \in Procs : y # x => pc'[y] = pc[y]
    BY <1>1, <1>8, CoreFrame DEF CoreStep
  <2>3. pc'[x] = "notify"
    BY <1>1, <1>8, Moves DEF MarkReady, Pcs
  <2>4. current[x].promise \in Made
    <3>1. current[x].promise \in Ids /\ current[x].promise \in Made \cup {None}
      BY <1>8 DEF MarkReady, IInv, BodyShape, Known, Taken
    <3>2. None \notin Ids
      BY DEF Ids, None
    <3> QED
      BY <3>1, <3>2
  <2>5. \A pr : Coming(p, pr) => Coming(p, pr)'
    BY <2>1, <2>2 DEF Coming, Notice
  <2>6. \A pr \in is_ready' \ is_ready : Coming(p, pr)'
    BY <2>1, <2>3 DEF Coming
  <2>7. is_ready' \subseteq Made
    BY <1>1, <2>1, <2>4
  <2> QED
    BY <2>1, <2>5, <2>6, <2>7, KeptSame, HearsKept
<1>9. ASSUME NEW x \in Procs, Notify(x) PROVE Hears(p, S)'
  <2>1. PICK k : k = current[x].promise
    OBVIOUS
  <2>2. PICK o : o = owner[k]
    OBVIOUS
  <2>3. /\ UNCHANGED <<batch, current, owner, timers, is_ready>> /\ k \in Ids
        /\ SendMessage(o, Notice(k))
    BY <1>9, <2>1, <2>2 DEF Notify, IInv, BodyShape
  <2>4. \A y \in Procs : ToSet(mailbox'[y]) = IF y = o THEN ToSet(mailbox[y]) \cup {Notice(k)} ELSE ToSet(mailbox[y])
    BY <1>1, <2>3, MessageTypes, SentSet
  <2>5. \A y \in Procs : y # x => pc'[y] = pc[y]
    BY <1>1, <1>9, CoreFrame DEF CoreStep
  <2>6. ASSUME NEW pr \in Made, owner[pr] = p, Coming(p, pr) PROVE Coming(p, pr)'
    <3>1. CASE Notice(pr) \in ToSet(mailbox[p]) \cup ToSet(batch[p])
      BY <2>3, <2>4, <3>1 DEF Coming, Notice
    <3>2. CASE \E y \in Procs : pc[y] = "notify" /\ current[y].promise = pr
      <4>1. PICK y \in Procs : pc[y] = "notify" /\ current[y].promise = pr
        BY <3>2
      <4>2. CASE y = x
        <5>1. pr = k /\ o = p
          BY <2>1, <2>2, <2>6, <4>1, <4>2
        <5> QED
          BY <2>4, <5>1 DEF Coming, Notice
      <4>3. CASE y # x
        BY <2>3, <2>5, <4>1, <4>3 DEF Coming
      <4> QED
        BY <4>2, <4>3
    <3> QED
      BY <2>6, <3>1, <3>2 DEF Coming
  <2> QED
    BY <1>1, <2>3, <2>6, KeptSame, HearsKept
<1>10. ASSUME NEW x \in Procs, Silently(x) PROVE Hears(p, S)'
  <2>1. UNCHANGED <<mailbox, batch, current, is_ready, owner, timers>> /\ pc[x] # "notify" /\ pc'[x] # "notify"
    BY <1>1, <1>10, SilentFrame
  <2>2. \A y \in Procs : y # x => pc'[y] = pc[y]
    BY <1>1, <1>10, CoreFrame DEF CoreStep, Silently
  <2> QED
    BY <1>2, <2>1, <2>2, KeptSame
<1>11. ASSUME NEW x \in Procs, WhenRegister(x) \/ WheneverRegister(x) \/ FirstReturn(x) PROVE Hears(p, S)'
  <2>1. UNCHANGED <<mailbox, batch, current, is_ready, owner, timers, pc>>
    BY <1>11 DEF WhenRegister, WheneverRegister, FirstReturn
  <2> QED
    BY <1>2, <2>1, KeptSame
<1>12. CASE UNCHANGED vars
  <2>1. UNCHANGED <<mailbox, batch, current, is_ready, owner, timers, pc>>
    BY <1>12 DEF vars
  <2> QED
    BY <1>2, <2>1, KeptSame
<1> QED
  BY <1>3, <1>4, <1>5, <1>6, <1>7, <1>8, <1>9, <1>10, <1>11, <1>12 DEF Next, CoreStep, Instruction, Silently

-----------------------------------------------------------------------------
(* Every condition names a promise. *)
Named == \A p \in Procs :
           /\ \A i \in 1 .. Len(when_blocks[p]) : when_blocks[p][i].on # << >>
           /\ \A i \in 1 .. Len(whenever_blocks[p]) : whenever_blocks[p][i].on # << >>

(* The ways the blocks of a process change. *)
Registers(f, g, p) == \E b \in BlockRecords : b.on # << >> /\ g = [f EXCEPT ![p] = Append(@, b)]

LEMMA BlockChanges ==
  ASSUME IInv, [Next]_vars, NEW p \in Procs
  PROVE  /\ \/ when_blocks'[p] = when_blocks[p]
            \/ Registering(p) /\ Registers(when_blocks, when_blocks', p)
            \/ EndWhen(p)
         /\ \/ whenever_blocks'[p] = whenever_blocks[p]
            \/ Registering(p) /\ Registers(whenever_blocks, whenever_blocks', p)
            \/ EndWhenever(p)
<1>1. TypeOK
  BY DEF IInv
<1>2. /\ when_blocks \in [Procs -> Seq(BlockRecords)] /\ whenever_blocks \in [Procs -> Seq(BlockRecords)]
  BY <1>1 DEF TypeOK
<1>3. ASSUME UNCHANGED <<when_blocks, whenever_blocks>>
      PROVE  when_blocks'[p] = when_blocks[p] /\ whenever_blocks'[p] = whenever_blocks[p]
  BY <1>3
<1>4. ASSUME NEW x \in Procs, CoreStep(x)
      PROVE  \/ when_blocks'[p] = when_blocks[p] /\ whenever_blocks'[p] = whenever_blocks[p]
             \/ EndWhen(p) /\ whenever_blocks'[p] = whenever_blocks[p]
             \/ EndWhenever(p) /\ when_blocks'[p] = when_blocks[p]
  <2>1. CASE x # p
    BY <1>1, <1>4, <2>1, CoreFrame
  <2>2. CASE x = p
    BY <1>4, <2>2 DEF CoreStep, Begin, Return, StoreValue, MarkReady, Notify, When, WhenNotYet, EndWhen,
          WhensDone, Whenever, WheneverNotYet, EndWhenever, WheneversDone
  <2> QED
    BY <2>1, <2>2
<1>5. ASSUME NEW x \in Procs, WhenRegister(x)
      PROVE  /\ whenever_blocks'[p] = whenever_blocks[p]
             /\ \/ when_blocks'[p] = when_blocks[p]
                \/ Registering(p) /\ Registers(when_blocks, when_blocks', p)
  <2>1. PICK b \in NewBlocks(x) : when_blocks' = [when_blocks EXCEPT ![x] = Append(@, b)]
    BY <1>5 DEF WhenRegister
  <2>2. Registering(x) /\ UNCHANGED whenever_blocks
    BY <1>5 DEF WhenRegister
  <2>3. b \in BlockRecords /\ b.on # << >>
    BY <1>1, NewBlockTypes
  <2>4. CASE x = p
    BY <2>1, <2>2, <2>3, <2>4 DEF Registers
  <2>5. CASE x # p
    BY <1>2, <2>1, <2>2, <2>5
  <2> QED
    BY <2>4, <2>5
<1>6. ASSUME NEW x \in Procs, WheneverRegister(x)
      PROVE  /\ when_blocks'[p] = when_blocks[p]
             /\ \/ whenever_blocks'[p] = whenever_blocks[p]
                \/ Registering(p) /\ Registers(whenever_blocks, whenever_blocks', p)
  <2>1. PICK b \in NewBlocks(x) : whenever_blocks' = [whenever_blocks EXCEPT ![x] = Append(@, b)]
    BY <1>6 DEF WheneverRegister
  <2>2. Registering(x) /\ UNCHANGED when_blocks
    BY <1>6 DEF WheneverRegister
  <2>3. b \in BlockRecords /\ b.on # << >>
    BY <1>1, NewBlockTypes
  <2>4. CASE x = p
    BY <2>1, <2>2, <2>3, <2>4 DEF Registers
  <2>5. CASE x # p
    BY <1>2, <2>1, <2>2, <2>5
  <2> QED
    BY <2>4, <2>5
<1>7. ASSUME \/ UNCHANGED vars
             \/ \E x \in Procs : Take(x) \/ FirstReturn(x) \/ Timer(x) \/ \E q \in Procs : ProcessMessage(x, q)
             \/ \E pr \in Ids : Expire(pr)
      PROVE  UNCHANGED <<when_blocks, whenever_blocks>>
  BY <1>7 DEF vars, Take, FirstReturn, Timer, ProcessMessage, Expire
<1> QED
  BY <1>3, <1>4, <1>5, <1>6, <1>7 DEF Next, Instruction

(* One more block at the end. *)
LEMMA RegistersOne ==
  ASSUME NEW f \in [Procs -> Seq(BlockRecords)], NEW g, NEW p \in Procs, Registers(f, g, p)
  PROVE  /\ Len(f[p]) \in Nat /\ Len(g[p]) = Len(f[p]) + 1
         /\ \A i \in 1 .. Len(f[p]) : g[p][i] = f[p][i]
         /\ g[p][Len(f[p]) + 1].on # << >>
<1>1. PICK b \in BlockRecords : b.on # << >> /\ g = [f EXCEPT ![p] = Append(@, b)]
  BY DEF Registers
<1>2. g[p] = Append(f[p], b) /\ f[p] \in Seq(BlockRecords)
  BY <1>1
<1> QED
  BY <1>1, <1>2, AppendProperties, LenProperties

(* What the end of a body does to the blocks of its process. *)
LEMMA EndWhenBlocks ==
  ASSUME IInv, NEW p \in Procs, EndWhen(p)
  PROVE  /\ Len(when_blocks[p]) \in Nat /\ at[p] \in 1 .. Len(when_blocks[p])
         /\ Len(when_blocks'[p]) = Len(when_blocks[p]) - 1
         /\ \A j \in 1 .. Len(when_blocks[p]) - 1 :
              when_blocks'[p][j] = IF j = at[p] THEN when_blocks[p][Len(when_blocks[p])] ELSE when_blocks[p][j]
<1>1. /\ when_blocks \in [Procs -> Seq(BlockRecords)]
      /\ when_blocks[p] \in Seq(BlockRecords) /\ at[p] \in Nat \ {0} /\ Len(when_blocks[p]) \in Nat
  BY LenProperties DEF IInv, TypeOK
<1>2. at[p] \in 1 .. Len(when_blocks[p])
  BY <1>1 DEF IInv, BodyShape, EndWhen
<1>3. when_blocks'[p] = SwapRemove(when_blocks[p], at[p])
  BY <1>1 DEF EndWhen
<1>4. PICK s : s = when_blocks[p]
  OBVIOUS
<1>5. PICK i : i = at[p]
  OBVIOUS
<1>6. s \in Seq(BlockRecords) /\ i \in 1 .. Len(s)
  BY <1>1, <1>2, <1>4, <1>5
<1>7. /\ Len(SwapRemove(s, i)) = Len(s) - 1
      /\ \A j \in 1 .. Len(s) - 1 : SwapRemove(s, i)[j] = IF j = i THEN s[Len(s)] ELSE s[j]
  BY <1>6, SwapTypes
<1>8. when_blocks'[p] = SwapRemove(s, i)
  BY <1>3, <1>4, <1>5
<1> QED
  BY <1>1, <1>2, <1>4, <1>5, <1>7, <1>8

LEMMA EndWheneverBlocks ==
  ASSUME IInv, NEW p \in Procs, EndWhenever(p)
  PROVE  /\ Len(whenever_blocks[p]) \in Nat /\ at[p] \in 1 .. Len(whenever_blocks[p])
         /\ Len(whenever_blocks'[p]) = Len(whenever_blocks[p])
         /\ \A j \in 1 .. Len(whenever_blocks[p]) :
              /\ whenever_blocks'[p][j].id = whenever_blocks[p][j].id
              /\ j # at[p] => whenever_blocks'[p][j] = whenever_blocks[p][j]
              /\ whenever_blocks[p][j].on # << >> => whenever_blocks'[p][j].on # << >>
<1>1. whenever_blocks \in [Procs -> Seq(BlockRecords)] /\ Len(whenever_blocks[p]) \in Nat
  BY LenProperties DEF IInv, TypeOK
<1>2. PICK b \in BlockRecords : /\ whenever_blocks' = [whenever_blocks EXCEPT ![p][at[p]] = b]
                                /\ b.id = whenever_blocks[p][at[p]].id
                                /\ whenever_blocks[p][at[p]].on # << >> => b.on # << >>
  BY EndOfWhenever
<1>3. at[p] \in 1 .. Len(whenever_blocks[p])
  BY EndOfWhenever
<1>4. /\ Len(whenever_blocks'[p]) = Len(whenever_blocks[p])
      /\ \A j \in 1 .. Len(whenever_blocks[p]) :
           whenever_blocks'[p][j] = IF j = at[p] THEN b ELSE whenever_blocks[p][j]
  BY <1>1, <1>2, <1>3, Replaced
<1> QED
  BY <1>1, <1>2, <1>3, <1>4

LEMMA NamedStep == IInv /\ Named /\ [Next]_vars => Named'
<1> SUFFICES ASSUME IInv, Named, [Next]_vars, NEW p \in Procs
             PROVE  /\ \A i \in 1 .. Len(when_blocks'[p]) : when_blocks'[p][i].on # << >>
                    /\ \A i \in 1 .. Len(whenever_blocks'[p]) : whenever_blocks'[p][i].on # << >>
  BY DEF Named
<1>1. /\ when_blocks \in [Procs -> Seq(BlockRecords)] /\ whenever_blocks \in [Procs -> Seq(BlockRecords)]
      /\ \A i \in 1 .. Len(when_blocks[p]) : when_blocks[p][i].on # << >>
      /\ \A i \in 1 .. Len(whenever_blocks[p]) : whenever_blocks[p][i].on # << >>
  BY DEF IInv, TypeOK, Named
<1>2. \A i \in 1 .. Len(when_blocks'[p]) : when_blocks'[p][i].on # << >>
  <2>1. CASE when_blocks'[p] = when_blocks[p]
    BY <1>1, <2>1
  <2>2. CASE Registers(when_blocks, when_blocks', p)
    <3>1. /\ Len(when_blocks[p]) \in Nat /\ Len(when_blocks'[p]) = Len(when_blocks[p]) + 1
          /\ \A i \in 1 .. Len(when_blocks[p]) : when_blocks'[p][i] = when_blocks[p][i]
          /\ when_blocks'[p][Len(when_blocks[p]) + 1].on # << >>
      BY <1>1, <2>2, RegistersOne, SMTT(30)
    <3>2. ASSUME NEW i \in 1 .. Len(when_blocks'[p]) PROVE when_blocks'[p][i].on # << >>
      <4>1. CASE i = Len(when_blocks[p]) + 1
        BY <3>1, <4>1
      <4>2. CASE i # Len(when_blocks[p]) + 1
        <5>1. i \in 1 .. Len(when_blocks[p])
          BY <3>1, <4>2
        <5> QED
          BY <1>1, <3>1, <5>1
      <4> QED
        BY <4>1, <4>2
    <3> QED
      BY <3>2
  <2>3. CASE EndWhen(p)
    <3>1. ASSUME NEW i \in 1 .. Len(when_blocks'[p]) PROVE when_blocks'[p][i].on # << >>
      <4>1. /\ Len(when_blocks[p]) \in Nat /\ i \in 1 .. Len(when_blocks[p]) - 1
            /\ when_blocks'[p][i] = IF i = at[p] THEN when_blocks[p][Len(when_blocks[p])] ELSE when_blocks[p][i]
        BY <2>3, EndWhenBlocks
      <4>2. i \in 1 .. Len(when_blocks[p]) /\ Len(when_blocks[p]) \in 1 .. Len(when_blocks[p])
        BY <4>1
      <4> QED
        BY <1>1, <4>1, <4>2
    <3> QED
      BY <3>1
  <2> QED
    BY <2>1, <2>2, <2>3, BlockChanges
<1>3. \A i \in 1 .. Len(whenever_blocks'[p]) : whenever_blocks'[p][i].on # << >>
  <2>1. CASE whenever_blocks'[p] = whenever_blocks[p]
    BY <1>1, <2>1
  <2>2. CASE Registers(whenever_blocks, whenever_blocks', p)
    <3>1. /\ Len(whenever_blocks[p]) \in Nat /\ Len(whenever_blocks'[p]) = Len(whenever_blocks[p]) + 1
          /\ \A i \in 1 .. Len(whenever_blocks[p]) : whenever_blocks'[p][i] = whenever_blocks[p][i]
          /\ whenever_blocks'[p][Len(whenever_blocks[p]) + 1].on # << >>
      BY <1>1, <2>2, RegistersOne
    <3>2. ASSUME NEW i \in 1 .. Len(whenever_blocks'[p]) PROVE whenever_blocks'[p][i].on # << >>
      <4>1. CASE i = Len(whenever_blocks[p]) + 1
        BY <3>1, <4>1
      <4>2. CASE i # Len(whenever_blocks[p]) + 1
        <5>1. i \in 1 .. Len(whenever_blocks[p])
          BY <3>1, <4>2
        <5> QED
          BY <1>1, <3>1, <5>1
      <4> QED
        BY <4>1, <4>2
    <3> QED
      BY <3>2
  <2>3. CASE EndWhenever(p)
    BY <1>1, <2>3, EndWheneverBlocks
  <2> QED
    BY <2>1, <2>2, <2>3, BlockChanges
<1> QED
  BY <1>2, <1>3

-----------------------------------------------------------------------------
(* A block heeds its promises: ready or not, its process will hear.        *)
Heeds(p, b) == Hears(p, ToSet(b.on))

LEMMA BlocksHeed ==
  ASSUME IInv, Known, NEW p \in Procs, [Next]_vars, ~Begin(p)
  PROVE  \A b \in BlockRecords : b.on # << >> /\ Heeds(p, b) => Heeds(p, b)'
<1> SUFFICES ASSUME NEW b \in BlockRecords, b.on # << >>, Heeds(p, b) PROVE Heeds(p, b)'
  OBVIOUS
<1>1. PICK S : S = ToSet(b.on)
  OBVIOUS
<1>2. S # {}
  <2>1. b.on \in Seq(Ids)
    BY DEF BlockRecords
  <2>2. Len(b.on) \in Nat \ {0}
    BY <2>1, EmptySeq
  <2>3. 1 \in 1 .. Len(b.on)
    BY <2>2
  <2>4. b.on[1] \in S
    BY <1>1, <2>1, <2>3, Member
  <2> QED
    BY <2>4
<1>3. Hears(p, S)'
  BY <1>1, <1>2, StepHeard DEF Heeds
<1> QED
  BY <1>1, <1>3 DEF Heeds

LEMMA NotReadyHeeds ==
  ASSUME NEW p \in Procs, NEW b \in BlockRecords, b.on # << >>, ~Ready(b)
  PROVE  Heeds(p, b)
<1>1. b.on \in Seq(Ids) /\ Len(b.on) \in Nat \ {0}
  BY EmptySeq DEF BlockRecords
<1>2. Len(b.on) \in 1 .. Len(b.on)
  BY <1>1
<1>3. b.on[Len(b.on)] \in ToSet(b.on)
  BY <1>1, <1>2, Member
<1> QED
  BY <1>3 DEF Heeds, Hears, Ready, Last

(* How a process moves. *)
LEMMA ControlMoves ==
  ASSUME TypeOK, NEW p \in Procs, CoreStep(p)
  PROVE  \/ Begin(p)
         \/ pc[p] \in {"body", "value", "ready"} /\ pc'[p] \in {"value", "ready", "notify", "whens"} /\ at'[p] = at[p]
         \/ pc[p] = "notify" /\ pc'[p] = "whens" /\ at'[p] = 1
         \/ When(p) /\ pc[p] = "whens" /\ pc'[p] = "when_body" /\ at'[p] = at[p] /\ at[p] <= Len(when_blocks[p])
         \/ /\ WhenNotYet(p) /\ pc[p] = "whens" /\ pc'[p] = "whens" /\ at'[p] = at[p] + 1
            /\ at[p] <= Len(when_blocks[p]) /\ ~Ready(when_blocks[p][at[p]])
         \/ EndWhen(p) /\ pc[p] = "when_body" /\ pc'[p] = "whens" /\ at'[p] = at[p]
         \/ WhensDone(p) /\ pc[p] = "whens" /\ pc'[p] = "whenevers" /\ at'[p] = 1 /\ at[p] > Len(when_blocks[p])
         \/ /\ Whenever(p) /\ pc[p] = "whenevers" /\ pc'[p] = "whenever_body" /\ at'[p] = at[p]
            /\ at[p] <= Len(whenever_blocks[p])
         \/ /\ WheneverNotYet(p) /\ pc[p] = "whenevers" /\ pc'[p] = "whenevers" /\ at'[p] = at[p] + 1
            /\ at[p] <= Len(whenever_blocks[p]) /\ ~Ready(whenever_blocks[p][at[p]])
         \/ EndWhenever(p) /\ pc[p] = "whenever_body" /\ pc'[p] = "whenevers" /\ at'[p] = at[p] + 1
         \/ WheneversDone(p) /\ pc[p] = "whenevers" /\ pc'[p] = "idle" /\ at[p] > Len(whenever_blocks[p])
<1>1. pc \in [Procs -> Pcs] /\ at \in [Procs -> Nat \ {0}]
  BY DEF TypeOK, Pcs
<1>2. CASE Return(p) \/ StoreValue(p) \/ MarkReady(p) \/ Notify(p)
  BY <1>1, <1>2 DEF Return, StoreValue, MarkReady, Notify, Goto, GotoAt
<1>3. CASE When(p) \/ WhenNotYet(p) \/ EndWhen(p) \/ WhensDone(p)
  BY <1>1, <1>3 DEF When, Whens, WhenNotYet, EndWhen, WhensDone, Goto, GotoAt
<1>4. CASE Whenever(p) \/ WheneverNotYet(p) \/ EndWhenever(p) \/ WheneversDone(p)
  BY <1>1, <1>4 DEF Whenever, Whenevers, WheneverNotYet, EndWhenever, WheneversDone, Goto, GotoAt
<1> QED
  BY <1>2, <1>3, <1>4 DEF CoreStep

LEMMA OthersMoves ==
  ASSUME TypeOK, NEW p \in Procs, [Next]_vars, ~CoreStep(p)
  PROVE  pc'[p] = pc[p] /\ at'[p] = at[p]
<1>1. CASE UNCHANGED <<pc, at>>
  BY <1>1
<1>2. ASSUME NEW x \in Procs, CoreStep(x) PROVE pc'[p] = pc[p] /\ at'[p] = at[p]
  BY <1>2, CoreFrame
<1>3. ASSUME NEW x \in Procs, Take(x) \/ Instruction(x) \/ FirstReturn(x) PROVE UNCHANGED <<pc, at>>
  BY <1>3 DEF Take, Instruction, ProcessMessage, Timer, WhenRegister, WheneverRegister, FirstReturn
<1>4. ASSUME NEW pr \in Ids, Expire(pr) PROVE UNCHANGED <<pc, at>>
  BY <1>4 DEF Expire
<1> QED
  BY <1>1, <1>2, <1>3, <1>4 DEF Next, vars

(* The `when` blocks behind the index of a process that goes through them  *)
(* are heeded.                                                             *)
PassedWhens(p) ==
  /\ pc[p] \in {"body", "value", "ready", "notify"} => at[p] = 1
  /\ pc[p] = "whens" => at[p] <= Len(when_blocks[p]) + 1
  /\ pc[p] \in {"whens", "when_body"} =>
       \A i \in 1 .. Len(when_blocks[p]) : i < at[p] => Heeds(p, when_blocks[p][i])

LEMMA PassedStep ==
  ASSUME IInv, Known, Named, NEW p \in Procs, PassedWhens(p), [Next]_vars
  PROVE  PassedWhens(p)'
<1>1. /\ TypeOK /\ at[p] \in Nat \ {0} /\ Len(when_blocks[p]) \in Nat /\ pc[p] \in Pcs
      /\ when_blocks \in [Procs -> Seq(BlockRecords)]
      /\ \A i \in 1 .. Len(when_blocks[p]) : when_blocks[p][i] \in BlockRecords /\ when_blocks[p][i].on # << >>
  <2>1. TypeOK /\ when_blocks \in [Procs -> Seq(BlockRecords)] /\ at[p] \in Nat \ {0} /\ pc[p] \in Pcs
    BY DEF IInv, TypeOK, Pcs
  <2>2. when_blocks[p] \in Seq(BlockRecords)
    BY <2>1
  <2> QED
    BY <2>1, <2>2, LenProperties, ElementOfSeq DEF Named
<1>2. CASE Begin(p)
  <2>1. pc'[p] \in {"body", "whens"} /\ at'[p] = 1 /\ when_blocks'[p] = when_blocks[p]
    BY <1>1, <1>2, BegunSets
  <2> QED
    BY <1>1, <2>1 DEF PassedWhens
<1>3. ASSUME ~Begin(p) PROVE \A b \in BlockRecords : b.on # << >> /\ Heeds(p, b) => Heeds(p, b)'
  BY <1>3, BlocksHeed
<1>4. CASE EndWhen(p)
  <2>1. ~Begin(p) /\ pc[p] = "when_body" /\ pc'[p] = "whens" /\ at'[p] = at[p]
    <3>1. pc \in [Procs -> Pcs] /\ at \in [Procs -> Nat \ {0}]
      BY <1>1 DEF TypeOK, Pcs
    <3> QED
      BY <1>4, <3>1 DEF EndWhen, Begin, Goto
  <2>2. /\ at[p] \in 1 .. Len(when_blocks[p])
        /\ Len(when_blocks'[p]) = Len(when_blocks[p]) - 1
        /\ \A j \in 1 .. Len(when_blocks[p]) - 1 :
             when_blocks'[p][j] = IF j = at[p] THEN when_blocks[p][Len(when_blocks[p])] ELSE when_blocks[p][j]
    BY <1>4, EndWhenBlocks
  <2>3. ASSUME NEW i \in 1 .. Len(when_blocks'[p]), i < at[p] PROVE Heeds(p, when_blocks[p][i])'
    <3>1. i \in 1 .. Len(when_blocks[p]) - 1 /\ i \in 1 .. Len(when_blocks[p]) /\ i # at[p]
      BY <1>1, <2>2, <2>3
    <3>2. Heeds(p, when_blocks[p][i])
      BY <2>1, <2>3, <3>1 DEF PassedWhens
    <3>3. PICK b \in BlockRecords : b = when_blocks[p][i] /\ b.on # << >>
      BY <1>1, <3>1
    <3>4. Heeds(p, b)' /\ when_blocks'[p][i] = b
      BY <1>3, <2>1, <2>2, <3>1, <3>2, <3>3
    <3> QED
      BY <3>4
  <2> QED
    BY <1>1, <2>1, <2>2, <2>3 DEF PassedWhens
<1>5. CASE ~Begin(p) /\ ~EndWhen(p)
  <2>1. /\ Len(when_blocks'[p]) \in Nat /\ Len(when_blocks[p]) <= Len(when_blocks'[p])
        /\ \A i \in 1 .. Len(when_blocks[p]) : when_blocks'[p][i] = when_blocks[p][i]
        /\ CoreStep(p) => when_blocks'[p] = when_blocks[p]
    <3>1. CASE when_blocks'[p] = when_blocks[p]
      BY <1>1, <3>1
    <3>2. CASE Registers(when_blocks, when_blocks', p) /\ ~CoreStep(p)
      BY <1>1, <3>2, RegistersOne
    <3>3. CoreStep(p) => when_blocks'[p] = when_blocks[p]
      BY <1>5 DEF CoreStep, Return, StoreValue, MarkReady, Notify, When, WhenNotYet,
            WhensDone, Whenever, WheneverNotYet, EndWhenever, WheneversDone
    <3> QED
      BY <1>5, <3>1, <3>2, <3>3, BlockChanges
  <2>2. ASSUME NEW i \in 1 .. Len(when_blocks[p]), Heeds(p, when_blocks[p][i])
        PROVE  Heeds(p, when_blocks[p][i])'
    <3>1. PICK b \in BlockRecords : b = when_blocks[p][i] /\ b.on # << >>
      BY <1>1
    <3>2. Heeds(p, b)' /\ when_blocks'[p][i] = b
      BY <1>3, <1>5, <2>1, <2>2, <3>1
    <3> QED
      BY <3>2
  <2>3. CASE ~CoreStep(p)
    <3>1. pc'[p] = pc[p] /\ at'[p] = at[p]
      BY <1>1, <2>3, OthersMoves
    <3>2. ASSUME pc[p] \in {"whens", "when_body"}, NEW i \in 1 .. Len(when_blocks'[p]), i < at[p]
          PROVE  Heeds(p, when_blocks[p][i])'
      <4>1. at[p] <= Len(when_blocks[p]) + 1
        BY <1>1, <3>2 DEF PassedWhens, IInv, BodyShape
      <4>2. i \in 1 .. Len(when_blocks[p])
        BY <1>1, <2>1, <3>2, <4>1
      <4> QED
        BY <2>2, <3>2, <4>2 DEF PassedWhens
    <3> QED
      BY <1>1, <2>1, <3>1, <3>2 DEF PassedWhens
  <2>4. CASE CoreStep(p)
    <3>1. when_blocks'[p] = when_blocks[p]
      BY <2>1, <2>4
    <3>2. CASE pc'[p] \notin {"body", "value", "ready", "notify", "whens", "when_body"}
      BY <3>2 DEF PassedWhens
    <3>3. CASE at'[p] = 1
      BY <1>1, <3>1, <3>3 DEF PassedWhens
    <3>4. CASE pc[p] \in {"body", "value", "ready"} /\ at'[p] = at[p]
      <4>1. at'[p] = 1
        BY <3>4 DEF PassedWhens
      <4> QED
        BY <3>3, <4>1
    <3>5. CASE pc[p] = "whens" /\ pc'[p] = "when_body" /\ at'[p] = at[p]
      BY <2>2, <3>1, <3>5 DEF PassedWhens
    <3>6. CASE /\ pc[p] = "whens" /\ pc'[p] = "whens" /\ at'[p] = at[p] + 1
               /\ at[p] <= Len(when_blocks[p]) /\ ~Ready(when_blocks[p][at[p]])
      <4>1. ASSUME NEW i \in 1 .. Len(when_blocks[p]), i < at[p] + 1 PROVE Heeds(p, when_blocks[p][i])
        <5>1. CASE i = at[p]
          BY <1>1, <3>6, <5>1, NotReadyHeeds
        <5>2. CASE i # at[p]
          <6>1. i < at[p]
            BY <1>1, <4>1, <5>2
          <6> QED
            BY <3>6, <6>1 DEF PassedWhens
        <5> QED
          BY <5>1, <5>2
      <4> QED
        BY <1>1, <2>2, <3>1, <3>6, <4>1 DEF PassedWhens
    <3> QED
      BY <1>1, <1>5, <2>4, <3>2, <3>3, <3>4, <3>5, <3>6, ControlMoves
  <2> QED
    BY <2>3, <2>4
<1> QED
  BY <1>2, <1>4, <1>5

Passed == \A p \in Procs : PassedWhens(p)
ScanInv == IInv /\ Known /\ Named /\ Passed

LEMMA InitScan == Init => ScanInv
<1>1. Init => Named /\ Passed
  BY DEF Init, Named, Passed, PassedWhens
<1> QED
  BY <1>1, InitInv, InitKnown DEF ScanInv

LEMMA ScanNext == ScanInv /\ [Next]_vars => ScanInv'
<1> SUFFICES ASSUME ScanInv, [Next]_vars PROVE ScanInv'
  OBVIOUS
<1>1. \A p \in Procs : PassedWhens(p)'
  BY PassedStep DEF ScanInv, Passed
<1>2. Passed'
  BY <1>1 DEF Passed
<1> QED
  BY <1>2, NextInv, KnownStep, NamedStep DEF ScanInv

LEMMA ScanInvariance == Spec => []ScanInv
<1> QED
  BY InitScan, ScanNext, PTL DEF Spec

(* One step of a scan. *)
Complete == \A p \in Procs : pc[p] = "whens" /\ pc'[p] = "whenevers" =>
              \A b \in ToSet(when_blocks[p]) :
                ToSet(b.on) \subseteq is_ready \cap Own(p) => Told(p, ToSet(b.on))

LEMMA HeedsTold ==
  ASSUME NEW p \in Procs, NEW b, Heeds(p, b), ToSet(b.on) \subseteq is_ready \cap Own(p)
  PROVE  Told(p, ToSet(b.on))
<1>1. \E pr \in ToSet(b.on) : Coming(p, pr)
  BY DEF Heeds, Hears
<1> QED
  BY <1>1, HearsTold

LEMMA CompleteStep == ScanInv /\ [Next]_vars => Complete
<1> SUFFICES ASSUME ScanInv, [Next]_vars, NEW p \in Procs, pc[p] = "whens", pc'[p] = "whenevers",
                    NEW b \in ToSet(when_blocks[p]), ToSet(b.on) \subseteq is_ready \cap Own(p)
             PROVE  Told(p, ToSet(b.on))
  BY DEF Complete
<1>1. /\ TypeOK /\ when_blocks[p] \in Seq(BlockRecords) /\ Len(when_blocks[p]) \in Nat /\ at[p] \in Nat
      /\ PassedWhens(p)
  BY LenProperties DEF ScanInv, IInv, TypeOK, Passed
<1>2. at[p] > Len(when_blocks[p])
  <2>1. CoreStep(p)
    BY <1>1, OthersMoves
  <2>2. ~Begin(p)
    BY DEF Begin
  <2> QED
    BY <1>1, <2>1, <2>2, ControlMoves
<1>3. PICK i \in 1 .. Len(when_blocks[p]) : when_blocks[p][i] = b
  BY <1>1, Member
<1>4. Heeds(p, b)
  BY <1>1, <1>2, <1>3 DEF PassedWhens
<1> QED
  BY <1>4, HeedsTold

(* The `when` blocks of a process are gone through completely: swapping    *)
(* the last block into the place of one that ran, and registering more on  *)
(* the way, leaves no block behind whose promises are ready and of which   *)
(* no notice is to come, for any number of promises in a condition and     *)
(* wherever blocks are registered.                                         *)
THEOREM Scans == Spec => ScanComplete
<1>1. ScanInv /\ [Next]_vars => [Complete]_vars
  BY CompleteStep
<1>2. Spec => [][Complete]_vars
  BY <1>1, ScanInvariance, PTL DEF Spec
<1> QED
  BY <1>2 DEF ScanComplete, Complete

-----------------------------------------------------------------------------
(* Where blocks are registered in methods and in `when` bodies only, a     *)
(* process that is past its scan keeps every block heeded: all its `when`  *)
(* blocks, and the `whenever` blocks behind the index that never ran.      *)
Later == RegisterIn \subseteq {"body", "when_body"}
Past == {"whenevers", "whenever_body", "idle"}
RanOrHeeds(p, b) == ran[b.id] > 0 \/ Heeds(p, b)
Rests(p) ==
  /\ pc[p] \in Past => \A i \in 1 .. Len(when_blocks[p]) : Heeds(p, when_blocks[p][i])
  /\ pc[p] \in Past => \A i \in 1 .. Len(whenever_blocks[p]) :
                         pc[p] = "idle" \/ i < at[p] => RanOrHeeds(p, whenever_blocks[p][i])
  /\ pc[p] = "whenever_body" => ran[whenever_blocks[p][at[p]].id] > 0

(* A block that ran stays one that ran. *)
LEMMA RanKept ==
  ASSUME TypeOK, [Next]_vars
  PROVE  \A id \in BlockIds : ran[id] > 0 => ran'[id] > 0
<1>1. ran \in [BlockIds -> Nat]
  BY DEF TypeOK
<1>2. CASE UNCHANGED ran
  BY <1>2
<1>3. ASSUME NEW k, ran' = [ran EXCEPT ![k] = @ + 1]
      PROVE  \A id \in BlockIds : ran[id] > 0 => ran'[id] > 0
  BY <1>1, <1>3
<1>4. \/ UNCHANGED ran
      \/ \E k : ran' = [ran EXCEPT ![k] = @ + 1]
  <2>1. ASSUME NEW p \in Procs, When(p) \/ Whenever(p)
        PROVE  \E k : ran' = [ran EXCEPT ![k] = @ + 1]
    BY <2>1 DEF When, Whenever
  <2>2. ASSUME NEW p \in Procs,
               \/ Take(p) \/ FirstReturn(p) \/ Instruction(p)
               \/ Begin(p) \/ Return(p) \/ StoreValue(p) \/ MarkReady(p) \/ Notify(p)
        PROVE  UNCHANGED ran
    BY <2>2 DEF Take, FirstReturn, Instruction, ProcessMessage, Timer, WhenRegister, WheneverRegister,
                Begin, Return, StoreValue, MarkReady, Notify
  <2>3. ASSUME NEW p \in Procs,
               \/ WhenNotYet(p) \/ EndWhen(p) \/ WhensDone(p)
               \/ WheneverNotYet(p) \/ EndWhenever(p) \/ WheneversDone(p)
        PROVE  UNCHANGED ran
    BY <2>3 DEF WhenNotYet, EndWhen, WhensDone, WheneverNotYet, EndWhenever, WheneversDone
  <2>4. ASSUME NEW pr \in Ids, Expire(pr) PROVE UNCHANGED ran
    BY <2>4 DEF Expire
  <2> QED
    BY <2>1, <2>2, <2>3, <2>4 DEF Next, vars, CoreStep
<1> QED
  BY <1>2, <1>3, <1>4

LEMMA RestsStep ==
  ASSUME Later, ScanInv, NEW p \in Procs, Rests(p), [Next]_vars
  PROVE  Rests(p)'
<1>1. /\ TypeOK /\ at[p] \in Nat \ {0} /\ Len(when_blocks[p]) \in Nat /\ Len(whenever_blocks[p]) \in Nat
      /\ ran \in [BlockIds -> Nat]
      /\ \A i \in 1 .. Len(when_blocks[p]) : when_blocks[p][i] \in BlockRecords /\ when_blocks[p][i].on # << >>
      /\ \A i \in 1 .. Len(whenever_blocks[p]) :
           whenever_blocks[p][i] \in BlockRecords /\ whenever_blocks[p][i].on # << >>
  <2>1. TypeOK /\ at[p] \in Nat \ {0} /\ ran \in [BlockIds -> Nat]
    BY DEF ScanInv, IInv, TypeOK
  <2>2. when_blocks[p] \in Seq(BlockRecords) /\ whenever_blocks[p] \in Seq(BlockRecords)
    BY <2>1 DEF TypeOK
  <2> QED
    BY <2>1, <2>2, LenProperties, ElementOfSeq DEF ScanInv, Named
<1>2. CASE Begin(p)
  BY <1>1, <1>2, BegunSets DEF Rests, Past
<1>3. CASE ~Begin(p)
  <2>1. \A b \in BlockRecords : b.on # << >> /\ Heeds(p, b) => Heeds(p, b)'
    BY <1>3, BlocksHeed DEF ScanInv
  <2>2. \A b \in BlockRecords : ran[b.id] > 0 => ran'[b.id] > 0
    BY <1>1, RanKept DEF BlockRecords
  <2>3. \A b \in BlockRecords : b.on # << >> /\ RanOrHeeds(p, b) => RanOrHeeds(p, b)'
    BY <2>1, <2>2 DEF RanOrHeeds
  <2>4. ASSUME when_blocks'[p] = when_blocks[p], NEW i \in 1 .. Len(when_blocks[p]), Heeds(p, when_blocks[p][i])
        PROVE  Heeds(p, when_blocks[p][i])'
    <3>1. PICK b \in BlockRecords : b = when_blocks[p][i] /\ b.on # << >>
      BY <1>1
    <3>2. Heeds(p, b)' /\ when_blocks'[p][i] = b
      BY <2>1, <2>4, <3>1
    <3> QED
      BY <3>2
  <2>5. ASSUME NEW i \in 1 .. Len(whenever_blocks[p]), whenever_blocks'[p][i] = whenever_blocks[p][i],
               RanOrHeeds(p, whenever_blocks[p][i])
        PROVE  RanOrHeeds(p, whenever_blocks[p][i])'
    <3>1. PICK b \in BlockRecords : b = whenever_blocks[p][i] /\ b.on # << >>
      BY <1>1
    <3>2. RanOrHeeds(p, b)' /\ whenever_blocks'[p][i] = b
      BY <2>3, <2>5, <3>1
    <3> QED
      BY <3>2
  <2>6. CASE ~CoreStep(p)
    <3>1. pc'[p] = pc[p] /\ at'[p] = at[p]
      BY <1>1, <2>6, OthersMoves
    <3>2. CASE pc[p] \in Past
      <4>1. ~Registering(p)
        BY <3>2 DEF Registering, Later, Past
      <4>2. when_blocks'[p] = when_blocks[p] /\ whenever_blocks'[p] = whenever_blocks[p]
        BY <2>6, <4>1, BlockChanges DEF ScanInv, CoreStep
      <4>3. pc[p] = "whenever_body" => ran'[whenever_blocks[p][at[p]].id] > 0
        <5>1. ASSUME pc[p] = "whenever_body" PROVE at[p] \in 1 .. Len(whenever_blocks[p])
          BY <1>1, <5>1 DEF ScanInv, IInv, BodyShape
        <5> QED
          BY <1>1, <2>2, <5>1 DEF Rests
      <4> QED
        BY <2>4, <2>5, <3>1, <3>2, <4>2, <4>3 DEF Rests
    <3>3. CASE pc[p] \notin Past
      BY <3>1, <3>3 DEF Rests, Past
    <3> QED
      BY <3>2, <3>3
  <2>7. CASE CoreStep(p) /\ pc'[p] \notin Past
    BY <2>7 DEF Rests, Past
  <2>8. CASE CoreStep(p) /\ WhensDone(p) /\ pc[p] = "whens" /\ pc'[p] = "whenevers" /\ at'[p] = 1
             /\ at[p] > Len(when_blocks[p])
    <3>1. when_blocks'[p] = when_blocks[p] /\ whenever_blocks'[p] = whenever_blocks[p]
      BY <2>8 DEF WhensDone
    <3>2. \A i \in 1 .. Len(when_blocks[p]) : Heeds(p, when_blocks[p][i])
      BY <1>1, <2>8 DEF ScanInv, Passed, PassedWhens
    <3>3. \A i \in 1 .. Len(whenever_blocks[p]) : ~(i < 1)
      BY <1>1
    <3> QED
      BY <2>4, <2>8, <3>1, <3>2, <3>3 DEF Rests
  <2>9. CASE Whenever(p) /\ pc[p] = "whenevers" /\ pc'[p] = "whenever_body" /\ at'[p] = at[p]
             /\ at[p] <= Len(whenever_blocks[p])
    <3>1. /\ when_blocks'[p] = when_blocks[p] /\ whenever_blocks'[p] = whenever_blocks[p]
          /\ ran' = [ran EXCEPT ![whenever_blocks[p][at[p]].id] = @ + 1]
      BY <2>9 DEF Whenever
    <3>2. at[p] \in 1 .. Len(whenever_blocks[p]) /\ whenever_blocks[p][at[p]].id \in BlockIds
      BY <1>1, <2>9 DEF BlockRecords
    <3>3. ran'[whenever_blocks[p][at[p]].id] > 0
      BY <1>1, <3>1, <3>2
    <3> QED
      BY <2>4, <2>5, <2>9, <3>1, <3>3 DEF Rests, Past
  <2>10. CASE /\ WheneverNotYet(p) /\ pc[p] = "whenevers" /\ pc'[p] = "whenevers" /\ at'[p] = at[p] + 1
              /\ at[p] <= Len(whenever_blocks[p]) /\ ~Ready(whenever_blocks[p][at[p]])
    <3>1. when_blocks'[p] = when_blocks[p] /\ whenever_blocks'[p] = whenever_blocks[p]
      BY <2>10 DEF WheneverNotYet
    <3>2. ASSUME NEW i \in 1 .. Len(whenever_blocks[p]), i < at[p] + 1 PROVE RanOrHeeds(p, whenever_blocks[p][i])
      <4>1. CASE i = at[p]
        BY <1>1, <2>10, <4>1, NotReadyHeeds DEF RanOrHeeds
      <4>2. CASE i # at[p]
        <5>1. i < at[p]
          BY <1>1, <3>2, <4>2
        <5> QED
          BY <2>10, <5>1 DEF Rests, Past
      <4> QED
        BY <4>1, <4>2
    <3> QED
      BY <2>4, <2>5, <2>10, <3>1, <3>2 DEF Rests, Past
  <2>11. CASE EndWhenever(p) /\ pc[p] = "whenever_body" /\ pc'[p] = "whenevers" /\ at'[p] = at[p] + 1
    <3>1. when_blocks'[p] = when_blocks[p]
      BY <2>11 DEF EndWhenever
    <3>2. /\ at[p] \in 1 .. Len(whenever_blocks[p]) /\ Len(whenever_blocks'[p]) = Len(whenever_blocks[p])
          /\ \A j \in 1 .. Len(whenever_blocks[p]) :
               /\ whenever_blocks'[p][j].id = whenever_blocks[p][j].id
               /\ j # at[p] => whenever_blocks'[p][j] = whenever_blocks[p][j]
      BY <2>11, EndWheneverBlocks DEF ScanInv
    <3>3. ASSUME NEW i \in 1 .. Len(whenever_blocks[p]), i < at[p] + 1 PROVE RanOrHeeds(p, whenever_blocks[p][i])'
      <4>1. CASE i = at[p]
        <5>1. ran'[whenever_blocks'[p][i].id] > 0
          BY <1>1, <2>2, <2>11, <3>2, <4>1 DEF Rests
        <5> QED
          BY <5>1 DEF RanOrHeeds
      <4>2. CASE i # at[p]
        <5>1. i < at[p] /\ whenever_blocks'[p][i] = whenever_blocks[p][i]
          BY <1>1, <3>2, <3>3, <4>2
        <5>2. RanOrHeeds(p, whenever_blocks[p][i])
          BY <2>11, <5>1 DEF Rests, Past
        <5> QED
          BY <2>5, <5>1, <5>2
      <4> QED
        BY <4>1, <4>2
    <3> QED
      BY <2>4, <2>11, <3>1, <3>2, <3>3 DEF Rests, Past
  <2>12. CASE WheneversDone(p) /\ pc[p] = "whenevers" /\ pc'[p] = "idle" /\ at[p] > Len(whenever_blocks[p])
    <3>1. when_blocks'[p] = when_blocks[p] /\ whenever_blocks'[p] = whenever_blocks[p]
      BY <2>12 DEF WheneversDone
    <3>2. \A i \in 1 .. Len(whenever_blocks[p]) : i < at[p]
      BY <1>1, <2>12
    <3> QED
      BY <2>4, <2>5, <2>12, <3>1, <3>2 DEF Rests, Past
  <2> QED
    BY <1>1, <1>3, <2>6, <2>7, <2>8, <2>9, <2>10, <2>11, <2>12, ControlMoves DEF Past
<1> QED
  BY <1>2, <1>3

Resting == Later => \A p \in Procs : Rests(p)

LEMMA RestingStep == ScanInv /\ Resting /\ [Next]_vars => Resting'
<1> SUFFICES ASSUME ScanInv, Resting, [Next]_vars, Later PROVE \A p \in Procs : Rests(p)'
  BY DEF Resting, Later
<1> QED
  BY RestsStep DEF Resting

LEMMA RestingNotStranded == ScanInv /\ Resting => (Later => NotStranded)
<1> SUFFICES ASSUME ScanInv, Resting, Later, NEW p \in Procs, AtRest(p), NEW b \in WaitingBlocks(p),
                    ToSet(b.on) \subseteq is_ready \cap Own(p)
             PROVE  Told(p, ToSet(b.on))
  BY DEF NotStranded
<1>1. /\ when_blocks[p] \in Seq(BlockRecords) /\ whenever_blocks[p] \in Seq(BlockRecords)
      /\ Rests(p) /\ pc[p] = "idle" /\ ran[b.id] = 0
  BY DEF ScanInv, IInv, TypeOK, Resting, AtRest, WaitingBlocks
<1>2. CASE b \in ToSet(when_blocks[p])
  <2>1. PICK i \in 1 .. Len(when_blocks[p]) : when_blocks[p][i] = b
    BY <1>1, <1>2, Member
  <2> QED
    BY <1>1, <2>1, HeedsTold DEF Rests, Past
<1>3. CASE b \in ToSet(whenever_blocks[p])
  <2>1. PICK i \in 1 .. Len(whenever_blocks[p]) : whenever_blocks[p][i] = b
    BY <1>1, <1>3, Member
  <2>2. RanOrHeeds(p, b)
    BY <1>1, <2>1 DEF Rests, Past
  <2>3. Heeds(p, b)
    BY <1>1, <2>2 DEF RanOrHeeds
  <2> QED
    BY <2>3, HeedsTold
<1> QED
  BY <1>2, <1>3 DEF WaitingBlocks

(* No block is stranded, whatever the number of processes and of promises  *)
(* in a condition, as long as programs register blocks in methods and in   *)
(* `when` bodies: a process that rests with an empty mailbox has no block  *)
(* on promises of its own that are all ready, unless a notice is to come.  *)
(* A block that main(), a constructor or a `whenever` body registers on a  *)
(* promise that is ready already does wait for the next message.           *)
THEOREM NoneStranded == Spec => [](RegisterIn \subseteq {"body", "when_body"} => NotStranded)
<1>1. Init => Resting
  BY DEF Init, Resting, Rests
<1>2. Spec => []ScanInv /\ []Resting
  BY <1>1, ScanInvariance, RestingStep, PTL DEF Spec
<1>3. ScanInv /\ Resting => (RegisterIn \subseteq {"body", "when_body"} => NotStranded)
  BY RestingNotStranded DEF Later
<1> QED
  BY <1>2, <1>3, PTL

-----------------------------------------------------------------------------
(* Blocks have numbers of their own, and a block is registered, waits and  *)
(* runs as Futures says.  Every condition names a promise, and the code     *)
(* looks at the last of them alone.                                        *)
Guarded == \A p \in Procs : \A i \in 1 .. Len(when_blocks[p]) : when_blocks[p][i].on # << >>
Unique == \A p, q \in Procs : \A i \in 1 .. Len(when_blocks[p]), j \in 1 .. Len(when_blocks[q]) :
            when_blocks[p][i].id = when_blocks[q][j].id => p = q /\ i = j
Apart == \A p, q \in Procs : \A i \in 1 .. Len(when_blocks[p]), j \in 1 .. Len(whenever_blocks[q]) :
           when_blocks[p][i].id # whenever_blocks[q][j].id
NumberedBlocks == Registered = 1 .. Cardinality(Registered)
Began == \A p \in Procs : pc[p] = "when_body" => ran[when_blocks[p][at[p]].id] > 0

(* The sets of Promises, by the places of the blocks. *)
HasWhen(id) == \E p \in Procs : \E i \in 1 .. Len(when_blocks[p]) : when_blocks[p][i].id = id
HasWhenever(id) == \E p \in Procs : \E i \in 1 .. Len(whenever_blocks[p]) : whenever_blocks[p][i].id = id
HasWaiting(w) == \E p \in Procs : \E i \in 1 .. Len(when_blocks[p]) :
                   ~(pc[p] = "when_body" /\ i = at[p]) /\ w = Entry(when_blocks[p][i])
ByPlaces == /\ \A id \in BlockIds : id \in Registered <=> ran[id] > 0 \/ HasWhen(id) \/ HasWhenever(id)
            /\ \A id \in BlockIds : id \in WheneverIds <=> HasWhenever(id)
            /\ \A id : HasWhen(id) \/ HasWhenever(id) => id \in BlockIds
            /\ \A w : w \in Waiting <=> HasWaiting(w)
            /\ Registered \subseteq BlockIds /\ WheneverIds \subseteq BlockIds

LEMMA Places == TypeOK => ByPlaces
<1> SUFFICES ASSUME TypeOK PROVE ByPlaces
  OBVIOUS
<1>1. \A p \in Procs : when_blocks[p] \in Seq(BlockRecords) /\ whenever_blocks[p] \in Seq(BlockRecords)
  BY DEF TypeOK
<1>2. ASSUME NEW p \in Procs
      PROVE  /\ \A b : b \in ToSet(when_blocks[p]) <=> \E i \in 1 .. Len(when_blocks[p]) : when_blocks[p][i] = b
             /\ \A b : b \in ToSet(whenever_blocks[p]) <=>
                         \E i \in 1 .. Len(whenever_blocks[p]) : whenever_blocks[p][i] = b
             /\ DOMAIN when_blocks[p] = 1 .. Len(when_blocks[p])
             /\ \A i \in 1 .. Len(when_blocks[p]) : when_blocks[p][i] \in BlockRecords
             /\ \A i \in 1 .. Len(whenever_blocks[p]) : whenever_blocks[p][i] \in BlockRecords
  <2>1. \A b : b \in ToSet(when_blocks[p]) <=> \E i \in 1 .. Len(when_blocks[p]) : when_blocks[p][i] = b
    BY <1>1, Member
  <2>2. \A b : b \in ToSet(whenever_blocks[p]) <=> \E i \in 1 .. Len(whenever_blocks[p]) : whenever_blocks[p][i] = b
    BY <1>1, Member
  <2> QED
    BY <1>1, <2>1, <2>2, LenProperties, ElementOfSeq
<1>3. \A b \in BlockRecords : b.id \in BlockIds
  BY DEF BlockRecords
<1>8. ASSUME NEW id PROVE HasWhen(id) <=> \E p \in Procs : \E b \in ToSet(when_blocks[p]) : b.id = id
  <2>1. ASSUME NEW p \in Procs, NEW b \in ToSet(when_blocks[p]), b.id = id PROVE HasWhen(id)
    BY <1>2, <2>1 DEF HasWhen
  <2>2. ASSUME NEW p \in Procs, NEW i \in 1 .. Len(when_blocks[p]), when_blocks[p][i].id = id
        PROVE  \E b \in ToSet(when_blocks[p]) : b.id = id
    BY <1>2, <2>2
  <2> QED
    BY <2>1, <2>2 DEF HasWhen
<1>9. ASSUME NEW id PROVE HasWhenever(id) <=> \E p \in Procs : \E b \in ToSet(whenever_blocks[p]) : b.id = id
  <2>1. ASSUME NEW p \in Procs, NEW b \in ToSet(whenever_blocks[p]), b.id = id PROVE HasWhenever(id)
    BY <1>2, <2>1 DEF HasWhenever
  <2>2. ASSUME NEW p \in Procs, NEW i \in 1 .. Len(whenever_blocks[p]), whenever_blocks[p][i].id = id
        PROVE  \E b \in ToSet(whenever_blocks[p]) : b.id = id
    BY <1>2, <2>2
  <2> QED
    BY <2>1, <2>2 DEF HasWhenever
<1>4. \A id \in BlockIds : id \in Registered <=> ran[id] > 0 \/ HasWhen(id) \/ HasWhenever(id)
  BY <1>8, <1>9 DEF Registered
<1>5. \A id \in BlockIds : id \in WheneverIds <=> HasWhenever(id)
  BY <1>9 DEF WheneverIds
<1>6. \A id : HasWhen(id) \/ HasWhenever(id) => id \in BlockIds
  BY <1>2, <1>3 DEF HasWhen, HasWhenever
<1>7. ASSUME NEW w PROVE w \in Waiting <=> HasWaiting(w)
  <2>1. (\E p \in Procs : \E j \in Waits(p) : w = Entry(when_blocks[p][j])) <=> HasWaiting(w)
    BY <1>2 DEF Waits, HasWaiting
  <2>2. w \in Waiting <=> \E p \in Procs : \E j \in Waits(p) : w = Entry(when_blocks[p][j])
    BY DEF Waiting
  <2> QED
    BY <2>1, <2>2
<1> QED
  BY <1>4, <1>5, <1>6, <1>7 DEF ByPlaces, Registered, WheneverIds

Blocks == Guarded /\ Unique /\ Apart /\ NumberedBlocks /\ Began
FuturesInv == IInv /\ Blocks

(* A new block takes the next number and names a promise. *)
LEMMA NewBlock ==
  ASSUME FuturesInv, NEW p \in Procs, NEW b \in NewBlocks(p)
  PROVE  /\ b \in BlockRecords /\ b.on # << >> /\ b.id \notin Registered
         /\ Registered \cup {b.id} = 1 .. Cardinality(Registered \cup {b.id})
<1>1. PICK id \in BlockIds, c \in Conditions(holds[p]) :
        id = Cardinality(Registered) + 1 /\ b = [id |-> id, on |-> c]
  BY DEF NewBlocks
<1>5. b \in BlockRecords /\ b.on # << >>
  BY NewBlockTypes DEF FuturesInv, IInv
<1>6. PICK n : n = Cardinality(Registered)
  OBVIOUS
<1>7. n \in Nat
  <2>1. IsFiniteSet(BlockIds)
    BY FS_Interval, PromisesAssumption DEF BlockIds
  <2>2. Registered \subseteq BlockIds
    BY DEF Registered
  <2> QED
    BY <1>6, <2>1, <2>2, FS_Subset, FS_CardinalityType
<1>8. Registered = 1 .. n /\ id = n + 1 /\ b.id = id
  BY <1>1, <1>6 DEF FuturesInv, Blocks, NumberedBlocks
<1>9. Registered \cup {b.id} = 1 .. n + 1
  BY <1>7, <1>8
<1>10. Cardinality(1 .. n + 1) = n + 1
  BY <1>7, FirstNumbers
<1>11. b.id \notin Registered
  BY <1>7, <1>8
<1> QED
  BY <1>5, <1>9, <1>10, <1>11

(* The steps that register nothing and start or end no body. *)
Steady == /\ UNCHANGED <<when_blocks, whenever_blocks, ran>>
          /\ \A p \in Procs : (pc[p] = "when_body" \/ pc'[p] = "when_body") => pc'[p] = pc[p] /\ at'[p] = at[p]

LEMMA SteadySame ==
  ASSUME TypeOK, TypeOK', Steady
  PROVE  Registered' = Registered /\ Waiting' = Waiting /\ WheneverIds' = WheneverIds
<1>1. ByPlaces /\ ByPlaces'
  BY Places, PTL
<1>2. \A id : (HasWhen(id)' <=> HasWhen(id)) /\ (HasWhenever(id)' <=> HasWhenever(id))
  BY DEF Steady, HasWhen, HasWhenever
<1>3. \A w : HasWaiting(w)' <=> HasWaiting(w)
  BY DEF Steady, HasWaiting, Entry
<1>4. UNCHANGED ran
  BY DEF Steady
<1>5. Registered' = Registered
  BY <1>1, <1>2, <1>4 DEF ByPlaces
<1>6. WheneverIds' = WheneverIds
  BY <1>1, <1>2 DEF ByPlaces
<1>7. Waiting' = Waiting
  BY <1>1, <1>3 DEF ByPlaces
<1> QED
  BY <1>5, <1>6, <1>7

LEMMA SteadyBlocks ==
  ASSUME TypeOK, TypeOK', Blocks, Steady
  PROVE  Blocks'
<1>1. Registered' = Registered
  BY SteadySame
<1>2. NumberedBlocks'
  BY <1>1 DEF Blocks, NumberedBlocks
<1>3. Guarded' /\ Unique' /\ Apart' /\ Began'
  BY DEF Blocks, Guarded, Unique, Apart, Began, Steady
<1> QED
  BY <1>2, <1>3 DEF Blocks

LEMMA SteadySteps ==
  ASSUME IInv, [Next]_vars
  PROVE  \/ Steady
         \/ \E p \in Procs : \/ WhenRegister(p) \/ WheneverRegister(p)
                             \/ When(p) \/ EndWhen(p) \/ Whenever(p) \/ EndWhenever(p)
<1>1. TypeOK
  BY DEF IInv
<1>2. ASSUME UNCHANGED <<pc, at, when_blocks, whenever_blocks, ran>> PROVE Steady
  BY <1>2 DEF Steady
<1>3. ASSUME NEW p \in Procs, Take(p) \/ FirstReturn(p) \/ Timer(p) \/ \E q \in Procs : ProcessMessage(p, q)
      PROVE  Steady
  BY <1>2, <1>3 DEF Take, FirstReturn, Timer, ProcessMessage
<1>4. ASSUME NEW pr \in Ids, Expire(pr) PROVE Steady
  BY <1>2, <1>4 DEF Expire
<1>5. CASE UNCHANGED vars
  BY <1>2, <1>5 DEF vars
<1>6. ASSUME NEW p \in Procs, CoreStep(p), ~When(p), ~EndWhen(p), ~Whenever(p), ~EndWhenever(p) PROVE Steady
  <2>1. UNCHANGED <<when_blocks, whenever_blocks, ran>>
    BY <1>6 DEF CoreStep, Begin, Return, StoreValue, MarkReady, Notify, WhenNotYet,
          WhensDone, WheneverNotYet, WheneversDone
  <2>2. \A q \in Procs : q # p => pc'[q] = pc[q] /\ at'[q] = at[q]
    BY <1>1, <1>6, CoreFrame
  <2>3. pc[p] # "when_body" /\ pc'[p] # "when_body"
    <3>1. CASE Begin(p)
      BY <1>1, <3>1, BegunSets
    <3>2. CASE ~Begin(p)
      BY <1>1, <1>6, <3>2, ControlMoves
    <3> QED
      BY <3>1, <3>2
  <2> QED
    BY <2>1, <2>2, <2>3 DEF Steady
<1> QED
  BY <1>3, <1>4, <1>5, <1>6 DEF Next, Instruction

(* The blocks that ran and that a return may have ended: `when` blocks. *)
Done == {id \in BlockIds : ran[id] > 0} \ WheneverIds

LEMMA AppendPlaces ==
  ASSUME NEW f \in [Procs -> Seq(BlockRecords)], NEW g, NEW p \in Procs, NEW b \in BlockRecords,
         g = [f EXCEPT ![p] = Append(@, b)], NEW n, n = Len(f[p])
  PROVE  /\ n \in Nat /\ n + 1 \in 1 .. Len(g[p]) /\ g[p][n + 1] = b
         /\ \A q \in Procs : \A i \in 1 .. Len(g[q]) :
              \/ q = p /\ i = n + 1 /\ g[q][i] = b
              \/ i \in 1 .. Len(f[q]) /\ g[q][i] = f[q][i] /\ ~(q = p /\ i = n + 1)
         /\ \A q \in Procs : \A i \in 1 .. Len(f[q]) : i \in 1 .. Len(g[q]) /\ g[q][i] = f[q][i]
<1>1. g[p] = Append(f[p], b) /\ f[p] \in Seq(BlockRecords) /\ \A q \in Procs : q # p => g[q] = f[q]
  OBVIOUS
<1>2. n \in Nat /\ Len(g[p]) = n + 1 /\ g[p][n + 1] = b /\ \A i \in 1 .. n : g[p][i] = f[p][i]
  BY <1>1, AppendProperties, LenProperties
<1>3. ASSUME NEW q \in Procs, NEW i \in 1 .. Len(g[q])
      PROVE  \/ q = p /\ i = n + 1 /\ g[q][i] = b
             \/ i \in 1 .. Len(f[q]) /\ g[q][i] = f[q][i] /\ ~(q = p /\ i = n + 1)
  <2>1. CASE q # p
    BY <1>1, <2>1
  <2>2. CASE q = p /\ i = n + 1
    BY <1>2, <2>2
  <2>3. CASE q = p /\ i # n + 1
    <3>1. i \in 1 .. n
      BY <1>2, <2>3
    <3> QED
      BY <1>2, <2>3, <3>1
  <2> QED
    BY <2>1, <2>2, <2>3
<1>4. ASSUME NEW q \in Procs, NEW i \in 1 .. Len(f[q])
      PROVE  i \in 1 .. Len(g[q]) /\ g[q][i] = f[q][i]
  <2>1. CASE q # p
    BY <1>1, <2>1
  <2>2. CASE q = p
    BY <1>2, <2>2
  <2> QED
    BY <2>1, <2>2
<1> QED
  BY <1>2, <1>3, <1>4

LEMMA WhenRegisterEffect ==
  ASSUME FuturesInv, TypeOK', NEW p \in Procs, WhenRegister(p)
  PROVE  /\ Blocks' /\ Done' = Done
         /\ \E b \in BlockRecords : /\ Waiting' = Waiting \cup {Entry(b)} /\ b.id \notin Done /\ b.on # << >>
                                    /\ \A w \in Waiting : w[1] # b.id
<1>1. PICK b \in NewBlocks(p) : when_blocks' = [when_blocks EXCEPT ![p] = Append(@, b)]
  BY DEF WhenRegister
<1>2. /\ TypeOK /\ UNCHANGED <<whenever_blocks, ran, pc, at>> /\ when_blocks \in [Procs -> Seq(BlockRecords)]
  BY DEF WhenRegister, FuturesInv, IInv, TypeOK
<1>3. /\ b \in BlockRecords /\ b.on # << >> /\ b.id \notin Registered
      /\ Registered \cup {b.id} = 1 .. Cardinality(Registered \cup {b.id}) /\ b.id \in BlockIds
  BY NewBlock DEF BlockRecords
<1>4. PICK n : n = Len(when_blocks[p])
  OBVIOUS
<1>5. /\ n \in Nat /\ n + 1 \in 1 .. Len(when_blocks'[p]) /\ when_blocks'[p][n + 1] = b
      /\ \A q \in Procs : \A i \in 1 .. Len(when_blocks'[q]) :
           \/ q = p /\ i = n + 1 /\ when_blocks'[q][i] = b
           \/ i \in 1 .. Len(when_blocks[q]) /\ when_blocks'[q][i] = when_blocks[q][i] /\ ~(q = p /\ i = n + 1)
      /\ \A q \in Procs : \A i \in 1 .. Len(when_blocks[q]) :
           i \in 1 .. Len(when_blocks'[q]) /\ when_blocks'[q][i] = when_blocks[q][i]
  BY <1>1, <1>2, <1>3, <1>4, AppendPlaces
<1>6. ByPlaces /\ ByPlaces'
  BY <1>2, Places, PTL
<1>7. ~HasWhen(b.id) /\ ~HasWhenever(b.id) /\ ~(ran[b.id] > 0)
  BY <1>3, <1>6 DEF ByPlaces
<1>8. \A id : HasWhenever(id)' <=> HasWhenever(id)
  BY <1>2 DEF HasWhenever
<1>9. \A id : HasWhen(id)' <=> HasWhen(id) \/ id = b.id
  <2>1. ASSUME NEW id, HasWhen(id)' PROVE HasWhen(id) \/ id = b.id
    <3>1. PICK q \in Procs : \E i \in 1 .. Len(when_blocks'[q]) : when_blocks'[q][i].id = id
      BY <2>1 DEF HasWhen
    <3> QED
      BY <1>5, <3>1, SMTT(30) DEF HasWhen
  <2>2. ASSUME NEW id, HasWhen(id) \/ id = b.id PROVE HasWhen(id)'
    BY <1>5, <2>2 DEF HasWhen
  <2> QED
    BY <2>1, <2>2
<1>10. \A w : HasWaiting(w)' <=> HasWaiting(w) \/ w = Entry(b)
  <2>1. ~(pc[p] = "when_body" /\ n + 1 = at[p])
    <3>1. pc[p] = "when_body" => at[p] <= n /\ at[p] \in Nat
      BY <1>2, <1>4 DEF FuturesInv, IInv, BodyShape, TypeOK
    <3> QED
      BY <1>5, <3>1
  <2>2. ASSUME NEW w, HasWaiting(w)' PROVE HasWaiting(w) \/ w = Entry(b)
    <3>1. PICK q \in Procs : \E i \in 1 .. Len(when_blocks'[q]) :
            ~(pc[q] = "when_body" /\ i = at[q]) /\ w = Entry(when_blocks'[q][i])
      BY <1>2, <2>2 DEF HasWaiting, Entry
    <3> QED
      BY <1>5, <3>1 DEF HasWaiting
  <2>3. ASSUME NEW w, HasWaiting(w) PROVE HasWaiting(w)'
    <3>1. PICK q \in Procs : \E i \in 1 .. Len(when_blocks[q]) :
            ~(pc[q] = "when_body" /\ i = at[q]) /\ w = Entry(when_blocks[q][i])
      BY <2>3 DEF HasWaiting
    <3>2. PICK i \in 1 .. Len(when_blocks[q]) :
            ~(pc[q] = "when_body" /\ i = at[q]) /\ w = Entry(when_blocks[q][i])
      BY <3>1
    <3>3. i \in 1 .. Len(when_blocks'[q]) /\ when_blocks'[q][i] = when_blocks[q][i]
      BY <1>5
    <3>4. ~(pc'[q] = "when_body" /\ i = at'[q])
      BY <1>2, <3>2
    <3>5. w = Entry(when_blocks'[q][i])
      BY <3>2, <3>3
    <3> QED
      BY <3>3, <3>4, <3>5 DEF HasWaiting, Entry
  <2>4. HasWaiting(Entry(b))'
    BY <1>2, <1>5, <2>1 DEF HasWaiting, Entry
  <2> QED
    BY <2>2, <2>3, <2>4
<1>11. Registered' = Registered \cup {b.id}
  BY <1>2, <1>3, <1>6, <1>8, <1>9 DEF ByPlaces
<1>12. Waiting' = Waiting \cup {Entry(b)}
  BY <1>6, <1>10 DEF ByPlaces
<1>13. Done' = Done /\ b.id \notin Done /\ b.on # << >>
  <2>1. WheneverIds' = WheneverIds
    BY <1>6, <1>8 DEF ByPlaces
  <2> QED
    BY <1>2, <1>3, <1>7, <2>1 DEF Done
<1>14. \A w \in Waiting : w[1] # b.id
  <2>1. ASSUME NEW w \in Waiting PROVE w[1] # b.id
    <3>1. PICK q \in Procs : \E i \in 1 .. Len(when_blocks[q]) : w = Entry(when_blocks[q][i])
      BY <1>6 DEF ByPlaces, HasWaiting
    <3>2. PICK i \in 1 .. Len(when_blocks[q]) : w = Entry(when_blocks[q][i])
      BY <3>1
    <3>3. w[1] = when_blocks[q][i].id
      BY <3>2 DEF Entry
    <3> QED
      BY <1>7, <3>3 DEF HasWhen
  <2> QED
    BY <2>1
<1>15. Guarded' /\ Unique' /\ Apart' /\ Began'
  <2>1. \A q \in Procs : \A i \in 1 .. Len(when_blocks[q]) : when_blocks[q][i].id # b.id
    BY <1>7 DEF HasWhen
  <2>2. \A q \in Procs : \A i \in 1 .. Len(whenever_blocks[q]) : whenever_blocks[q][i].id # b.id
    BY <1>7 DEF HasWhenever
  <2>3. Guarded'
    <3>1. ASSUME NEW q \in Procs, NEW i \in 1 .. Len(when_blocks'[q]) PROVE when_blocks'[q][i].on # << >>
      <4>1. CASE when_blocks'[q][i] = b
        BY <1>3, <4>1
      <4>2. CASE i \in 1 .. Len(when_blocks[q]) /\ when_blocks'[q][i] = when_blocks[q][i]
        BY <4>2 DEF Guarded, FuturesInv, Blocks
      <4> QED
        BY <1>5, <4>1, <4>2
    <3> QED
      BY <3>1 DEF Guarded
  <2>4. Unique'
    <3>1. ASSUME NEW q \in Procs, NEW r \in Procs, NEW i \in 1 .. Len(when_blocks'[q]),
                 NEW j \in 1 .. Len(when_blocks'[r]), when_blocks'[q][i].id = when_blocks'[r][j].id
          PROVE  q = r /\ i = j
      <4>1. CASE q = p /\ i = n + 1
        BY <1>5, <2>1, <3>1, <4>1, SMTT(30)
      <4>2. CASE r = p /\ j = n + 1
        BY <1>5, <2>1, <3>1, <4>2, SMTT(30)
      <4>3. CASE ~(q = p /\ i = n + 1) /\ ~(r = p /\ j = n + 1)
        <5>1. /\ i \in 1 .. Len(when_blocks[q]) /\ when_blocks'[q][i] = when_blocks[q][i]
              /\ j \in 1 .. Len(when_blocks[r]) /\ when_blocks'[r][j] = when_blocks[r][j]
          BY <1>5, <4>3
        <5> QED
          BY <3>1, <5>1 DEF Unique, FuturesInv, Blocks
      <4> QED
        BY <4>1, <4>2, <4>3
    <3> QED
      BY <3>1 DEF Unique
  <2>5. Apart'
    <3>1. ASSUME NEW q \in Procs, NEW r \in Procs, NEW i \in 1 .. Len(when_blocks'[q]),
                 NEW j \in 1 .. Len(whenever_blocks[r])
          PROVE  when_blocks'[q][i].id # whenever_blocks[r][j].id
      <4>1. CASE when_blocks'[q][i] = b
        BY <2>2, <4>1
      <4>2. CASE i \in 1 .. Len(when_blocks[q]) /\ when_blocks'[q][i] = when_blocks[q][i]
        BY <4>2 DEF Apart, FuturesInv, Blocks
      <4> QED
        BY <1>5, <4>1, <4>2
    <3> QED
      BY <1>2, <3>1 DEF Apart
  <2>6. Began'
    <3>1. ASSUME NEW q \in Procs, pc[q] = "when_body" PROVE ran[when_blocks'[q][at[q]].id] > 0
      <4>1. at[q] \in 1 .. Len(when_blocks[q])
        <5>1. at[q] \in Nat \ {0} /\ at[q] <= Len(when_blocks[q]) /\ Len(when_blocks[q]) \in Nat
          BY <1>2, <3>1, LenProperties DEF FuturesInv, IInv, BodyShape, TypeOK
        <5> QED
          BY <5>1
      <4> QED
        BY <1>5, <3>1, <4>1 DEF Began, FuturesInv, Blocks
    <3> QED
      BY <1>2, <3>1 DEF Began
  <2> QED
    BY <2>3, <2>4, <2>5, <2>6
<1>16. NumberedBlocks'
  BY <1>3, <1>11 DEF NumberedBlocks
<1> QED
  BY <1>3, <1>12, <1>13, <1>14, <1>15, <1>16 DEF Blocks

LEMMA WheneverRegisterEffect ==
  ASSUME FuturesInv, TypeOK', NEW p \in Procs, WheneverRegister(p)
  PROVE  Blocks' /\ Done' = Done /\ Waiting' = Waiting
<1>1. PICK b \in NewBlocks(p) : whenever_blocks' = [whenever_blocks EXCEPT ![p] = Append(@, b)]
  BY DEF WheneverRegister
<1>2. /\ TypeOK /\ UNCHANGED <<when_blocks, ran, pc, at>> /\ whenever_blocks \in [Procs -> Seq(BlockRecords)]
  BY DEF WheneverRegister, FuturesInv, IInv, TypeOK
<1>3. /\ b \in BlockRecords /\ b.id \notin Registered
      /\ Registered \cup {b.id} = 1 .. Cardinality(Registered \cup {b.id}) /\ b.id \in BlockIds
  BY NewBlock DEF BlockRecords
<1>4. PICK n : n = Len(whenever_blocks[p])
  OBVIOUS
<1>5. /\ n \in Nat /\ n + 1 \in 1 .. Len(whenever_blocks'[p]) /\ whenever_blocks'[p][n + 1] = b
      /\ \A q \in Procs : \A i \in 1 .. Len(whenever_blocks'[q]) :
           \/ q = p /\ i = n + 1 /\ whenever_blocks'[q][i] = b
           \/ i \in 1 .. Len(whenever_blocks[q]) /\ whenever_blocks'[q][i] = whenever_blocks[q][i]
              /\ ~(q = p /\ i = n + 1)
      /\ \A q \in Procs : \A i \in 1 .. Len(whenever_blocks[q]) :
           i \in 1 .. Len(whenever_blocks'[q]) /\ whenever_blocks'[q][i] = whenever_blocks[q][i]
  BY <1>1, <1>2, <1>3, <1>4, AppendPlaces
<1>6. ByPlaces /\ ByPlaces'
  BY <1>2, Places, PTL
<1>7. ~HasWhen(b.id) /\ ~HasWhenever(b.id) /\ ~(ran[b.id] > 0)
  BY <1>3, <1>6 DEF ByPlaces
<1>8. (\A id : HasWhen(id)' <=> HasWhen(id)) /\ (\A w : HasWaiting(w)' <=> HasWaiting(w))
  BY <1>2 DEF HasWhen, HasWaiting, Entry
<1>9. \A id : HasWhenever(id)' <=> HasWhenever(id) \/ id = b.id
  <2>1. ASSUME NEW id, HasWhenever(id)' PROVE HasWhenever(id) \/ id = b.id
    <3>1. PICK q \in Procs : \E i \in 1 .. Len(whenever_blocks'[q]) : whenever_blocks'[q][i].id = id
      BY <2>1 DEF HasWhenever
    <3> QED
      BY <1>5, <3>1, SMTT(30) DEF HasWhenever
  <2>2. ASSUME NEW id, HasWhenever(id) \/ id = b.id PROVE HasWhenever(id)'
    BY <1>5, <2>2 DEF HasWhenever
  <2> QED
    BY <2>1, <2>2
<1>10. Registered' = Registered \cup {b.id}
  BY <1>2, <1>3, <1>6, <1>8, <1>9 DEF ByPlaces
<1>11. Waiting' = Waiting
  BY <1>6, <1>8 DEF ByPlaces
<1>12. Done' = Done
  <2>1. WheneverIds' = WheneverIds \cup {b.id}
    BY <1>3, <1>6, <1>9 DEF ByPlaces
  <2> QED
    BY <1>2, <1>7, <2>1 DEF Done
<1>13. Guarded' /\ Unique' /\ Began'
  BY <1>2 DEF Guarded, Unique, Began, FuturesInv, Blocks
<1>14. Apart'
  <2>1. \A q \in Procs : \A i \in 1 .. Len(when_blocks[q]) : when_blocks[q][i].id # b.id
    BY <1>7 DEF HasWhen
  <2>2. ASSUME NEW q \in Procs, NEW r \in Procs, NEW i \in 1 .. Len(when_blocks[q]),
               NEW j \in 1 .. Len(whenever_blocks'[r])
        PROVE  when_blocks[q][i].id # whenever_blocks'[r][j].id
    <3>1. CASE whenever_blocks'[r][j] = b
      BY <2>1, <3>1
    <3>2. CASE j \in 1 .. Len(whenever_blocks[r]) /\ whenever_blocks'[r][j] = whenever_blocks[r][j]
      BY <3>2 DEF Apart, FuturesInv, Blocks
    <3> QED
      BY <1>5, <3>1, <3>2
  <2> QED
    BY <1>2, <2>2 DEF Apart
<1>15. NumberedBlocks'
  BY <1>3, <1>10 DEF NumberedBlocks
<1> QED
  BY <1>11, <1>12, <1>13, <1>14, <1>15 DEF Blocks

(* Where no block moves, they keep their numbers and promises. *)
LEMMA SamePlaces ==
  ASSUME Blocks, UNCHANGED <<when_blocks, whenever_blocks>>
  PROVE  Guarded' /\ Unique' /\ Apart'
<1>1. Guarded'
  BY DEF Guarded, Blocks
<1>2. Unique'
  BY DEF Unique, Blocks
<1>3. Apart'
  BY DEF Apart, Blocks
<1> QED
  BY <1>1, <1>2, <1>3

(* One more run of the block k. *)
LEMMA RanOne ==
  ASSUME TypeOK, NEW k \in BlockIds, ran' = [ran EXCEPT ![k] = @ + 1]
  PROVE  \A id \in BlockIds : ran'[id] > 0 <=> ran[id] > 0 \/ id = k
<1>1. ran \in [BlockIds -> Nat]
  BY DEF TypeOK
<1> QED
  BY <1>1

LEMMA WhenEffect ==
  ASSUME FuturesInv, TypeOK', NEW p \in Procs, When(p)
  PROVE  /\ Blocks'
         /\ \E b \in BlockRecords : /\ Entry(b) \in Waiting /\ Last(b.on) \in is_ready
                                    /\ Waiting' = Waiting \ {Entry(b)} /\ Done' = Done \cup {b.id}
<1>1. PICK i : i = at[p]
  OBVIOUS
<1>2. PICK b : b = when_blocks[p][i]
  OBVIOUS
<1>3. /\ TypeOK /\ pc \in [Procs -> Pcs] /\ when_blocks[p] \in Seq(BlockRecords)
      /\ i \in Nat \ {0} /\ Len(when_blocks[p]) \in Nat
  BY <1>1, LenProperties DEF FuturesInv, IInv, TypeOK, Pcs
<1>4. /\ UNCHANGED <<when_blocks, whenever_blocks, at>> /\ pc[p] = "whens"
      /\ ran' = [ran EXCEPT ![b.id] = @ + 1] /\ i \in 1 .. Len(when_blocks[p]) /\ Ready(b)
      /\ pc' = [pc EXCEPT ![p] = "when_body"]
  BY <1>1, <1>2, <1>3 DEF When, Whens, Goto
<1>5. b \in BlockRecords /\ b.id \in BlockIds /\ b.on \in Seq(Ids)
  <2>1. b \in BlockRecords
    BY <1>2, <1>3, <1>4, ElementOfSeq
  <2> QED
    BY <2>1 DEF BlockRecords
<1>6. pc'[p] = "when_body" /\ \A q \in Procs : q # p => pc'[q] = pc[q]
  BY <1>3, <1>4
<1>7. \A id \in BlockIds : ran'[id] > 0 <=> ran[id] > 0 \/ id = b.id
  BY <1>3, <1>4, <1>5, RanOne
<1>8. ByPlaces /\ ByPlaces'
  BY <1>3, Places, PTL
<1>9. \A id : (HasWhen(id)' <=> HasWhen(id)) /\ (HasWhenever(id)' <=> HasWhenever(id))
  BY <1>4 DEF HasWhen, HasWhenever
<1>10. HasWhen(b.id) /\ ~HasWhenever(b.id)
  <2>1. HasWhen(b.id)
    BY <1>2, <1>4 DEF HasWhen
  <2>2. \A q \in Procs : \A j \in 1 .. Len(whenever_blocks[q]) : b.id # whenever_blocks[q][j].id
    BY <1>2, <1>4 DEF Apart, FuturesInv, Blocks
  <2> QED
    BY <2>1, <2>2 DEF HasWhenever
<1>11. \A w : HasWaiting(w)' <=> HasWaiting(w) /\ w # Entry(b)
  <2>1. ASSUME NEW w, HasWaiting(w)' PROVE HasWaiting(w) /\ w # Entry(b)
    <3>1. PICK q \in Procs : \E j \in 1 .. Len(when_blocks[q]) :
            ~(pc'[q] = "when_body" /\ j = at[q]) /\ w = Entry(when_blocks[q][j])
      BY <1>4, <2>1 DEF HasWaiting, Entry
    <3>2. PICK j \in 1 .. Len(when_blocks[q]) :
            ~(pc'[q] = "when_body" /\ j = at[q]) /\ w = Entry(when_blocks[q][j])
      BY <3>1
    <3>3. ~(q = p /\ j = i) /\ ~(pc[q] = "when_body" /\ j = at[q])
      BY <1>1, <1>4, <1>6, <3>2
    <3>4. when_blocks[q][j].id # b.id
      BY <1>2, <1>4, <3>3 DEF Unique, FuturesInv, Blocks
    <3>5. Entry(when_blocks[q][j]) # Entry(b)
      BY <3>4 DEF Entry
    <3> QED
      BY <3>2, <3>3, <3>5 DEF HasWaiting
  <2>2. ASSUME NEW w, HasWaiting(w), w # Entry(b) PROVE HasWaiting(w)'
    <3>1. PICK q \in Procs : \E j \in 1 .. Len(when_blocks[q]) :
            ~(pc[q] = "when_body" /\ j = at[q]) /\ w = Entry(when_blocks[q][j])
      BY <2>2 DEF HasWaiting
    <3>2. PICK j \in 1 .. Len(when_blocks[q]) :
            ~(pc[q] = "when_body" /\ j = at[q]) /\ w = Entry(when_blocks[q][j])
      BY <3>1
    <3>3. ~(pc'[q] = "when_body" /\ j = at[q])
      <4>1. CASE q = p
        BY <1>1, <1>2, <2>2, <3>2, <4>1
      <4>2. CASE q # p
        BY <1>6, <3>2, <4>2
      <4> QED
        BY <4>1, <4>2
    <3> QED
      BY <1>4, <3>2, <3>3 DEF HasWaiting, Entry
  <2> QED
    BY <2>1, <2>2
<1>12. HasWaiting(Entry(b))
  BY <1>2, <1>4 DEF HasWaiting
<1>13. Registered' = Registered
  BY <1>5, <1>7, <1>8, <1>9, <1>10 DEF ByPlaces
<1>14. Waiting' = Waiting \ {Entry(b)} /\ Entry(b) \in Waiting
  BY <1>8, <1>11, <1>12 DEF ByPlaces
<1>15. Done' = Done \cup {b.id}
  <2>1. WheneverIds' = WheneverIds /\ b.id \notin WheneverIds
    BY <1>5, <1>8, <1>9, <1>10 DEF ByPlaces
  <2> QED
    BY <1>5, <1>7, <2>1 DEF Done
<1>16. Last(b.on) \in is_ready
  BY <1>4 DEF Ready
<1>17. Guarded' /\ Unique' /\ Apart'
  BY <1>4, SamePlaces DEF FuturesInv
<1>18. Began'
  <2>1. ASSUME NEW q \in Procs, pc'[q] = "when_body" PROVE ran'[when_blocks[q][at[q]].id] > 0
    <3>1. CASE q = p
      BY <1>1, <1>2, <1>5, <1>7, <3>1
    <3>2. CASE q # p
      <4>1. pc[q] = "when_body" /\ ran[when_blocks[q][at[q]].id] > 0
        BY <1>6, <2>1, <3>2 DEF Began, FuturesInv, Blocks
      <4>2. at[q] \in 1 .. Len(when_blocks[q])
        <5>1. at[q] \in Nat \ {0} /\ at[q] <= Len(when_blocks[q]) /\ Len(when_blocks[q]) \in Nat
          BY <1>3, <4>1, LenProperties DEF FuturesInv, IInv, BodyShape, TypeOK
        <5> QED
          BY <5>1
      <4>3. HasWhen(when_blocks[q][at[q]].id)
        BY <4>2 DEF HasWhen
      <4> QED
        BY <1>7, <1>8, <4>1, <4>3 DEF ByPlaces
    <3> QED
      BY <3>1, <3>2
  <2> QED
    BY <1>4, <2>1 DEF Began
<1>19. NumberedBlocks'
  BY <1>13 DEF NumberedBlocks, FuturesInv, Blocks
<1> QED
  BY <1>5, <1>14, <1>15, <1>16, <1>17, <1>18, <1>19 DEF Blocks

(* Bodies begun stay begun where the `when` blocks stay. *)
LEMMA BeganKept ==
  ASSUME FuturesInv, UNCHANGED when_blocks, \A id \in BlockIds : ran[id] > 0 => ran'[id] > 0,
         \A q \in Procs : pc'[q] = "when_body" => pc[q] = "when_body" /\ at'[q] = at[q]
  PROVE  Began'
<1>1. TypeOK
  BY DEF FuturesInv, IInv
<1>2. ByPlaces
  BY <1>1, Places
<1>3. ASSUME NEW q \in Procs, pc[q] = "when_body" PROVE ran'[when_blocks[q][at[q]].id] > 0
  <2>1. at[q] \in Nat \ {0} /\ at[q] <= Len(when_blocks[q]) /\ Len(when_blocks[q]) \in Nat
    BY <1>1, <1>3, LenProperties DEF FuturesInv, IInv, BodyShape, TypeOK
  <2>2. at[q] \in 1 .. Len(when_blocks[q])
    BY <2>1
  <2>3. HasWhen(when_blocks[q][at[q]].id)
    BY <2>2 DEF HasWhen
  <2>4. when_blocks[q][at[q]].id \in BlockIds
    BY <1>2, <2>3 DEF ByPlaces
  <2>5. ran[when_blocks[q][at[q]].id] > 0
    BY <1>3 DEF FuturesInv, Blocks, Began
  <2> QED
    BY <2>4, <2>5
<1> QED
  BY <1>3 DEF Began

LEMMA WheneverEffect ==
  ASSUME FuturesInv, TypeOK', NEW p \in Procs, Whenever(p)
  PROVE  Blocks' /\ Done' = Done /\ Waiting' = Waiting
<1>1. PICK i : i = at[p]
  OBVIOUS
<1>2. PICK b : b = whenever_blocks[p][i]
  OBVIOUS
<1>3. /\ TypeOK /\ pc \in [Procs -> Pcs] /\ whenever_blocks[p] \in Seq(BlockRecords)
      /\ i \in Nat \ {0} /\ Len(whenever_blocks[p]) \in Nat
  BY <1>1, LenProperties DEF FuturesInv, IInv, TypeOK, Pcs
<1>4. /\ UNCHANGED <<when_blocks, whenever_blocks, at>> /\ pc[p] = "whenevers"
      /\ ran' = [ran EXCEPT ![b.id] = @ + 1] /\ i \in 1 .. Len(whenever_blocks[p])
      /\ pc' = [pc EXCEPT ![p] = "whenever_body"]
  BY <1>1, <1>2, <1>3 DEF Whenever, Whenevers, Goto
<1>5. b \in BlockRecords /\ b.id \in BlockIds
  <2>1. b \in BlockRecords
    BY <1>2, <1>3, <1>4, ElementOfSeq
  <2> QED
    BY <2>1 DEF BlockRecords
<1>6. \A q \in Procs : (pc'[q] = "when_body" <=> pc[q] = "when_body")
  BY <1>3, <1>4
<1>7. \A id \in BlockIds : ran'[id] > 0 <=> ran[id] > 0 \/ id = b.id
  BY <1>3, <1>4, <1>5, RanOne
<1>8. ByPlaces /\ ByPlaces'
  BY <1>3, Places, PTL
<1>9. \A id : (HasWhen(id)' <=> HasWhen(id)) /\ (HasWhenever(id)' <=> HasWhenever(id))
  BY <1>4 DEF HasWhen, HasWhenever
<1>10. HasWhenever(b.id)
  BY <1>2, <1>4 DEF HasWhenever
<1>11. \A w : HasWaiting(w)' <=> HasWaiting(w)
  BY <1>4, <1>6 DEF HasWaiting, Entry
<1>12. Registered' = Registered
  BY <1>5, <1>7, <1>8, <1>9, <1>10 DEF ByPlaces
<1>13. Waiting' = Waiting
  BY <1>8, <1>11 DEF ByPlaces
<1>14. Done' = Done
  <2>1. WheneverIds' = WheneverIds /\ b.id \in WheneverIds
    BY <1>5, <1>8, <1>9, <1>10 DEF ByPlaces
  <2> QED
    BY <1>5, <1>7, <2>1 DEF Done
<1>15. Began'
  BY <1>4, <1>6, <1>7, BeganKept
<1>16. NumberedBlocks'
  BY <1>12 DEF NumberedBlocks, FuturesInv, Blocks
<1>17. Guarded' /\ Unique' /\ Apart'
  BY <1>4, SamePlaces DEF FuturesInv
<1> QED
  BY <1>13, <1>14, <1>15, <1>16, <1>17 DEF Blocks

LEMMA EndWheneverEffect ==
  ASSUME FuturesInv, TypeOK', NEW p \in Procs, EndWhenever(p)
  PROVE  Blocks' /\ Done' = Done /\ Waiting' = Waiting
<1>1. TypeOK /\ CoreStep(p) /\ IInv
  BY DEF FuturesInv, IInv, CoreStep
<1>2. UNCHANGED <<when_blocks, ran>> /\ pc[p] = "whenever_body"
  BY DEF EndWhenever
<1>3. pc'[p] = "whenevers"
  BY <1>1 DEF EndWhenever, GotoAt, TypeOK
<1>4. \A q \in Procs : q # p => pc'[q] = pc[q] /\ at'[q] = at[q] /\ whenever_blocks'[q] = whenever_blocks[q]
  BY <1>1, CoreFrame
<1>5. /\ Len(whenever_blocks'[p]) = Len(whenever_blocks[p])
      /\ \A j \in 1 .. Len(whenever_blocks[p]) : whenever_blocks'[p][j].id = whenever_blocks[p][j].id
  BY <1>1, EndWheneverBlocks
<1>6. \A q \in Procs : /\ Len(whenever_blocks'[q]) = Len(whenever_blocks[q])
                       /\ \A j \in 1 .. Len(whenever_blocks[q]) : whenever_blocks'[q][j].id = whenever_blocks[q][j].id
  BY <1>4, <1>5
<1>7. \A q \in Procs : /\ pc'[q] = "when_body" <=> pc[q] = "when_body"
                       /\ pc[q] = "when_body" => at'[q] = at[q]
  BY <1>2, <1>3, <1>4
<1>8. ByPlaces /\ ByPlaces'
  BY <1>1, Places, PTL
<1>9. \A id : (HasWhen(id)' <=> HasWhen(id)) /\ (HasWhenever(id)' <=> HasWhenever(id))
  BY <1>2, <1>6 DEF HasWhen, HasWhenever
<1>10. \A w : HasWaiting(w)' <=> HasWaiting(w)
  BY <1>2, <1>7 DEF HasWaiting, Entry
<1>11. Registered' = Registered
  BY <1>2, <1>8, <1>9 DEF ByPlaces
<1>12. Waiting' = Waiting
  BY <1>8, <1>10 DEF ByPlaces
<1>13. Done' = Done
  <2>1. WheneverIds' = WheneverIds
    BY <1>8, <1>9 DEF ByPlaces
  <2> QED
    BY <1>2, <2>1 DEF Done
<1>14. Began'
  BY <1>2, <1>7, BeganKept
<1>15. Guarded' /\ Unique'
  BY <1>2 DEF Guarded, Unique, FuturesInv, Blocks
<1>16. Apart'
  BY <1>2, <1>6 DEF Apart, FuturesInv, Blocks
<1>17. NumberedBlocks'
  BY <1>11 DEF NumberedBlocks, FuturesInv, Blocks
<1> QED
  BY <1>12, <1>13, <1>14, <1>15, <1>16, <1>17 DEF Blocks

(* The block that ran goes, the last takes its place, and all the others   *)
(* are where they were.                                                    *)
LEMMA EndWhenEffect ==
  ASSUME FuturesInv, TypeOK', NEW p \in Procs, EndWhen(p)
  PROVE  Blocks' /\ Done' = Done /\ Waiting' = Waiting
<1>1. TypeOK /\ CoreStep(p) /\ IInv
  BY DEF FuturesInv, IInv, CoreStep
<1>2. UNCHANGED <<whenever_blocks, ran, at>> /\ pc[p] = "when_body" /\ pc'[p] = "whens"
  BY <1>1 DEF EndWhen, Goto, TypeOK
<1>3. \A q \in Procs : q # p => pc'[q] = pc[q] /\ when_blocks'[q] = when_blocks[q]
  BY <1>1, CoreFrame
<1>4. PICK n : n = Len(when_blocks[p])
  OBVIOUS
<1>5. PICK k : k = at[p]
  OBVIOUS
<1>6. /\ n \in Nat /\ k \in 1 .. n /\ Len(when_blocks'[p]) = n - 1
      /\ \A j \in 1 .. n - 1 : when_blocks'[p][j] = IF j = k THEN when_blocks[p][n] ELSE when_blocks[p][j]
  BY <1>1, <1>4, <1>5, EndWhenBlocks
<1> DEFINE Old(q, j) == IF q = p /\ j = k THEN n ELSE j
<1>7. ASSUME NEW q \in Procs, NEW j \in 1 .. Len(when_blocks'[q])
      PROVE  /\ Old(q, j) \in 1 .. Len(when_blocks[q]) /\ ~(q = p /\ Old(q, j) = k)
             /\ when_blocks'[q][j] = when_blocks[q][Old(q, j)]
             /\ \A l \in 1 .. Len(when_blocks'[q]) : Old(q, l) = Old(q, j) => l = j
  <2>1. CASE q # p
    BY <1>3, <2>1
  <2>2. CASE q = p
    <3>1. j \in 1 .. n - 1
      BY <1>6, <2>2
    <3> QED
      BY <1>4, <1>6, <2>2, <3>1
  <2> QED
    BY <2>1, <2>2
<1>8. ASSUME NEW q \in Procs, NEW i \in 1 .. Len(when_blocks[q]), ~(q = p /\ i = k)
      PROVE  \E j \in 1 .. Len(when_blocks'[q]) : when_blocks'[q][j] = when_blocks[q][i]
  <2>1. CASE q # p
    BY <1>3, <2>1
  <2>2. CASE q = p /\ i = n
    <3>1. k \in 1 .. n - 1 /\ when_blocks'[q][k] = when_blocks[q][i]
      BY <1>6, <1>8, <2>2
    <3> QED
      BY <1>6, <2>2, <3>1
  <2>3. CASE q = p /\ i # n
    <3>1. i \in 1 .. n - 1 /\ i # k
      BY <1>4, <1>6, <1>8, <2>3
    <3>2. when_blocks'[q][i] = when_blocks[q][i]
      BY <1>6, <2>3, <3>1
    <3> QED
      BY <1>6, <2>3, <3>1, <3>2
  <2> QED
    BY <2>1, <2>2, <2>3
<1> HIDE DEF Old
<1>9. ByPlaces /\ ByPlaces'
  BY <1>1, Places, PTL
<1>10. \A id : HasWhenever(id)' <=> HasWhenever(id)
  BY <1>2 DEF HasWhenever
<1>11. ran[when_blocks[p][k].id] > 0
  BY <1>2, <1>5 DEF Began, FuturesInv, Blocks
<1>12. \A id : HasWhen(id)' => HasWhen(id)
  <2>1. ASSUME NEW id, HasWhen(id)' PROVE HasWhen(id)
    <3>1. PICK q \in Procs : \E j \in 1 .. Len(when_blocks'[q]) : when_blocks'[q][j].id = id
      BY <2>1 DEF HasWhen
    <3> QED
      BY <1>7, <3>1 DEF HasWhen
  <2> QED
    BY <2>1
<1>13. \A id : HasWhen(id) => HasWhen(id)' \/ ran[id] > 0
  <2>1. ASSUME NEW id, HasWhen(id) PROVE HasWhen(id)' \/ ran[id] > 0
    <3>1. PICK q \in Procs : \E i \in 1 .. Len(when_blocks[q]) : when_blocks[q][i].id = id
      BY <2>1 DEF HasWhen
    <3>2. PICK i \in 1 .. Len(when_blocks[q]) : when_blocks[q][i].id = id
      BY <3>1
    <3>3. CASE q = p /\ i = k
      BY <1>11, <3>2, <3>3
    <3>4. CASE ~(q = p /\ i = k)
      <4>1. PICK j \in 1 .. Len(when_blocks'[q]) : when_blocks'[q][j] = when_blocks[q][i]
        BY <1>8, <3>4
      <4> QED
        BY <3>2, <4>1 DEF HasWhen
    <3> QED
      BY <3>3, <3>4
  <2> QED
    BY <2>1
<1>14. \A w : HasWaiting(w)' <=> HasWaiting(w)
  <2>1. ASSUME NEW w, HasWaiting(w)' PROVE HasWaiting(w)
    <3>1. PICK q \in Procs : \E j \in 1 .. Len(when_blocks'[q]) :
            ~(pc'[q] = "when_body" /\ j = at[q]) /\ w = Entry(when_blocks'[q][j])
      BY <1>2, <2>1 DEF HasWaiting, Entry
    <3>2. PICK j \in 1 .. Len(when_blocks'[q]) :
            ~(pc'[q] = "when_body" /\ j = at[q]) /\ w = Entry(when_blocks'[q][j])
      BY <3>1
    <3>3. PICK i : i = Old(q, j)
      OBVIOUS
    <3>4. i \in 1 .. Len(when_blocks[q]) /\ ~(q = p /\ i = k) /\ when_blocks'[q][j] = when_blocks[q][i]
      BY <1>7, <3>2, <3>3
    <3>5. ~(pc[q] = "when_body" /\ i = at[q])
      <4>1. CASE q = p
        BY <1>5, <3>4, <4>1
      <4>2. CASE q # p
        BY <1>3, <3>2, <3>3, <4>2 DEF Old
      <4> QED
        BY <4>1, <4>2
    <3> QED
      BY <3>2, <3>4, <3>5 DEF HasWaiting
  <2>2. ASSUME NEW w, HasWaiting(w) PROVE HasWaiting(w)'
    <3>1. PICK q \in Procs : \E i \in 1 .. Len(when_blocks[q]) :
            ~(pc[q] = "when_body" /\ i = at[q]) /\ w = Entry(when_blocks[q][i])
      BY <2>2 DEF HasWaiting
    <3>2. PICK i \in 1 .. Len(when_blocks[q]) :
            ~(pc[q] = "when_body" /\ i = at[q]) /\ w = Entry(when_blocks[q][i])
      BY <3>1
    <3>3. CASE q = p
      <4>1. PICK j \in 1 .. Len(when_blocks'[q]) : when_blocks'[q][j] = when_blocks[q][i]
        BY <1>2, <1>5, <1>8, <3>2, <3>3
      <4> QED
        BY <1>2, <3>2, <3>3, <4>1 DEF HasWaiting, Entry
    <3>4. CASE q # p
      BY <1>2, <1>3, <3>2, <3>4 DEF HasWaiting, Entry
    <3> QED
      BY <3>3, <3>4
  <2> QED
    BY <2>1, <2>2
<1>15. Registered' = Registered
  BY <1>2, <1>9, <1>10, <1>12, <1>13 DEF ByPlaces
<1>16. Waiting' = Waiting
  BY <1>9, <1>14 DEF ByPlaces
<1>17. Done' = Done
  <2>1. WheneverIds' = WheneverIds
    BY <1>9, <1>10 DEF ByPlaces
  <2> QED
    BY <1>2, <2>1 DEF Done
<1>18. Guarded'
  BY <1>7 DEF Guarded, FuturesInv, Blocks
<1>19. Unique'
  <2>1. ASSUME NEW q \in Procs, NEW r \in Procs, NEW i \in 1 .. Len(when_blocks'[q]),
               NEW j \in 1 .. Len(when_blocks'[r]), when_blocks'[q][i].id = when_blocks'[r][j].id
        PROVE  q = r /\ i = j
    <3>1. PICK k1 : k1 = Old(q, i)
      OBVIOUS
    <3>2. PICK k2 : k2 = Old(r, j)
      OBVIOUS
    <3>3. k1 \in 1 .. Len(when_blocks[q]) /\ when_blocks'[q][i] = when_blocks[q][k1]
      BY <1>7, <3>1
    <3>4. k2 \in 1 .. Len(when_blocks[r]) /\ when_blocks'[r][j] = when_blocks[r][k2]
      BY <1>7, <3>2
    <3>5. when_blocks[q][k1].id = when_blocks[r][k2].id
      BY <2>1, <3>3, <3>4
    <3>6. Unique
      BY DEF FuturesInv, Blocks
    <3>7. q = r /\ k1 = k2
      BY <3>3, <3>4, <3>5, <3>6 DEF Unique
    <3>8. Old(q, i) = Old(q, j)
      BY <3>1, <3>2, <3>7
    <3>9. \A l \in 1 .. Len(when_blocks'[q]) : Old(q, l) = Old(q, j) => l = j
      BY <1>7, <3>7
    <3> QED
      BY <3>7, <3>8, <3>9
  <2> QED
    BY <2>1 DEF Unique
<1>20. Apart'
  <2>1. ASSUME NEW q \in Procs, NEW r \in Procs, NEW i \in 1 .. Len(when_blocks'[q]),
               NEW j \in 1 .. Len(whenever_blocks[r])
        PROVE  when_blocks'[q][i].id # whenever_blocks[r][j].id
    BY <1>7 DEF Apart, FuturesInv, Blocks
  <2> QED
    BY <1>2, <2>1 DEF Apart
<1>21. Began'
  <2>1. ASSUME NEW q \in Procs, pc'[q] = "when_body" PROVE ran[when_blocks'[q][at[q]].id] > 0
    <3>1. q # p
      BY <1>2, <2>1
    <3> QED
      BY <1>3, <2>1, <3>1 DEF Began, FuturesInv, Blocks
  <2> QED
    BY <1>2, <2>1 DEF Began
<1>22. NumberedBlocks'
  BY <1>15 DEF NumberedBlocks, FuturesInv, Blocks
<1> QED
  BY <1>16, <1>17, <1>18, <1>19, <1>20, <1>21, <1>22 DEF Blocks

LEMMA InitFutures == Init => FuturesInv
<1> SUFFICES ASSUME Init PROVE FuturesInv
  OBVIOUS
<1>1. \A p \in Procs : when_blocks[p] = << >> /\ whenever_blocks[p] = << >> /\ pc[p] = "idle"
  BY DEF Init
<1>2. IInv
  BY InitInv
<1>3. Registered = {}
  <2>1. ByPlaces
    BY <1>2, Places DEF IInv
  <2>2. \A id : ~HasWhen(id) /\ ~HasWhenever(id)
    BY <1>1 DEF HasWhen, HasWhenever
  <2>3. \A id \in BlockIds : ~(ran[id] > 0)
    BY DEF Init
  <2> QED
    BY <2>1, <2>2, <2>3 DEF ByPlaces
<1>4. NumberedBlocks
  <2>1. Cardinality(1 .. 0) = 0 /\ 1 .. 0 = {}
    BY FirstNumbers
  <2> QED
    BY <1>3, <2>1 DEF NumberedBlocks
<1>5. Guarded /\ Unique /\ Apart /\ Began
  BY <1>1 DEF Guarded, Unique, Apart, Began
<1> QED
  BY <1>2, <1>4, <1>5 DEF FuturesInv, Blocks

LEMMA FuturesNext == FuturesInv /\ [Next]_vars => FuturesInv'
<1> SUFFICES ASSUME FuturesInv, [Next]_vars PROVE FuturesInv'
  OBVIOUS
<1>1. IInv /\ IInv' /\ TypeOK /\ TypeOK'
  BY NextInv DEF FuturesInv, IInv
<1>2. Blocks'
  <2>1. CASE Steady
    BY <1>1, <2>1, SteadyBlocks DEF FuturesInv
  <2>2. ASSUME NEW p \in Procs, \/ WhenRegister(p) \/ WheneverRegister(p)
                                \/ When(p) \/ EndWhen(p) \/ Whenever(p) \/ EndWhenever(p)
        PROVE  Blocks'
    BY <1>1, <2>2, WhenRegisterEffect, WheneverRegisterEffect, WhenEffect, EndWhenEffect,
       WheneverEffect, EndWheneverEffect
  <2> QED
    BY <1>1, <2>1, <2>2, SteadySteps
<1> QED
  BY <1>1, <1>2 DEF FuturesInv

(* Promises stay ready, and only two steps make them so. *)
LEMMA ReadyGrows ==
  ASSUME [Next]_vars
  PROVE  /\ is_ready \subseteq is_ready'
         /\ \A p \in Procs : \/ WhenRegister(p) \/ WheneverRegister(p) \/ When(p) \/ EndWhen(p)
                             \/ Whenever(p) \/ EndWhenever(p)
                             => is_ready' = is_ready
<1>1. \A p \in Procs : Take(p) \/ MarkReady(p) => is_ready \subseteq is_ready'
  BY DEF Take, MarkReady
<1>2. \A p \in Procs : FirstReturn(p) \/ Instruction(p) => is_ready' = is_ready
  BY DEF FirstReturn, Instruction, ProcessMessage, Timer, WhenRegister, WheneverRegister
<1>3. \A p \in Procs : CoreStep(p) /\ ~MarkReady(p) => is_ready' = is_ready
  BY DEF CoreStep, Begin, Return, StoreValue, Notify, When, WhenNotYet, EndWhen, WhensDone,
         Whenever, WheneverNotYet, EndWhenever, WheneversDone
<1>4. \A pr \in Ids : Expire(pr) => is_ready' = is_ready
  BY DEF Expire
<1>5. UNCHANGED vars => is_ready' = is_ready
  BY DEF vars
<1>6. is_ready \subseteq is_ready'
  BY <1>1, <1>2, <1>3, <1>4, <1>5 DEF Next
<1>7. \A p \in Procs : \/ WhenRegister(p) \/ WheneverRegister(p) \/ When(p) \/ EndWhen(p)
                       \/ Whenever(p) \/ EndWhenever(p)
                       => is_ready' = is_ready
  BY DEF WhenRegister, WheneverRegister, When, EndWhen, Whenever, EndWhenever
<1> QED
  BY <1>6, <1>7

(* Every step is one of Futures, or changes nothing there. *)
LEMMA FuturesStep == FuturesInv /\ [Next]_vars => [F!Next]_(F!vars)
<1> SUFFICES ASSUME FuturesInv, [Next]_vars PROVE [F!Next]_(F!vars)
  OBVIOUS
<1>1. IInv /\ TypeOK /\ TypeOK' /\ is_ready' \subseteq Ids
  BY NextInv DEF FuturesInv, IInv, TypeOK
<1>2. CASE Steady
  <2>1. Waiting' = Waiting /\ WheneverIds' = WheneverIds /\ UNCHANGED ran
    BY <1>1, <1>2, SteadySame DEF Steady
  <2>2. CASE is_ready' = is_ready
    BY <2>1, <2>2 DEF F!vars
  <2>3. CASE is_ready' # is_ready
    <3>1. PICK S : S = is_ready' \ is_ready
      OBVIOUS
    <3>2. S \in SUBSET Ids /\ S # {} /\ S \cap is_ready = {} /\ is_ready' = is_ready \cup S
      BY <1>1, <2>3, <3>1, ReadyGrows
    <3>3. F!Resolve(S)
      BY <2>1, <3>2 DEF F!Resolve
    <3> QED
      BY <3>2, <3>3 DEF F!Next
  <2> QED
    BY <2>2, <2>3
<1>3. ASSUME NEW p \in Procs, WheneverRegister(p) \/ EndWhen(p) \/ Whenever(p) \/ EndWhenever(p)
      PROVE  UNCHANGED F!vars
  <2>1. Done' = Done /\ Waiting' = Waiting
    BY <1>1, <1>3, WheneverRegisterEffect, EndWhenEffect, WheneverEffect, EndWheneverEffect
  <2>2. is_ready' = is_ready
    BY <1>3, ReadyGrows
  <2> QED
    BY <2>1, <2>2 DEF F!vars, Done
<1>4. ASSUME NEW p \in Procs, WhenRegister(p) PROVE F!Next
  <2>1. PICK b \in BlockRecords : /\ Waiting' = Waiting \cup {Entry(b)} /\ b.id \notin Done /\ b.on # << >>
                                  /\ \A w \in Waiting : w[1] # b.id
    BY <1>1, <1>4, WhenRegisterEffect
  <2>2. is_ready' = is_ready /\ Done' = Done
    BY <1>1, <1>4, ReadyGrows, WhenRegisterEffect
  <2>3. b.id \in BlockIds /\ {Last(b.on)} \in SUBSET Ids
    <3>1. b.id \in BlockIds /\ b.on \in Seq(Ids)
      BY DEF BlockRecords
    <3>2. Len(b.on) \in 1 .. Len(b.on)
      BY <2>1, <3>1, EmptySeq
    <3>3. Last(b.on) \in Ids
      BY <3>1, <3>2, ElementOfSeq DEF Last
    <3> QED
      BY <3>1, <3>3
  <2>4. F!Register(b.id, {Last(b.on)})
    BY <2>1, <2>2 DEF F!Register, Done, Entry
  <2> QED
    BY <2>3, <2>4 DEF F!Next
<1>5. ASSUME NEW p \in Procs, When(p) PROVE F!Next
  <2>1. PICK b \in BlockRecords : /\ Entry(b) \in Waiting /\ Last(b.on) \in is_ready
                                  /\ Waiting' = Waiting \ {Entry(b)} /\ Done' = Done \cup {b.id}
    BY <1>1, <1>5, WhenEffect
  <2>2. is_ready' = is_ready
    BY <1>5, ReadyGrows
  <2>3. PICK w : w = Entry(b)
    OBVIOUS
  <2>4. w[1] = b.id /\ w[2] = {Last(b.on)}
    BY <2>3 DEF Entry
  <2>5. F!Run(w)
    BY <2>1, <2>2, <2>3, <2>4 DEF F!Run, Done
  <2> QED
    BY <2>1, <2>3, <2>5 DEF F!Next
<1> QED
  BY <1>1, <1>2, <1>3, <1>4, <1>5, SteadySteps

(* The blocks and promises of all the processes together behave as         *)
(* Futures, whatever the number of processes, messages and blocks and of   *)
(* promises in a condition: a `when` block runs once, after the promise    *)
(* that its condition looks at is ready, and stays in the list until then  *)
(* however the lists are appended to, swapped and cut under the scan.      *)
THEOREM ImplementsFutures == Spec => RefinesFutures
<1>1. Init => F!Init
  <2> SUFFICES ASSUME Init PROVE F!Init
    OBVIOUS
  <2>1. \A p \in Procs : when_blocks[p] = << >> /\ whenever_blocks[p] = << >>
    BY DEF Init
  <2>2. ByPlaces
    BY InitInv, Places DEF IInv
  <2>3. Waiting = {}
    BY <2>1, <2>2 DEF ByPlaces, HasWaiting
  <2>4. is_ready = {} /\ \A id \in BlockIds : ~(ran[id] > 0)
    BY DEF Init
  <2> QED
    BY <2>3, <2>4 DEF F!Init
<1>2. Spec => []FuturesInv
  BY InitFutures, FuturesNext, PTL DEF Spec
<1> QED
  BY <1>1, <1>2, FuturesStep, PTL DEF Spec, RefinesFutures, F!Spec

-----------------------------------------------------------------------------
(* Calls are answered once.  A message carries a promise when it calls a   *)
(* function for it; in a line of messages none may, or one alone.          *)
Carries(m, pr) == m.call /\ m.promise = pr
Free(s, pr) == \A i \in 1 .. Len(s) : ~Carries(s[i], pr)
Alone(s, pr) == \E i \in 1 .. Len(s) : /\ Carries(s[i], pr)
                                       /\ \A j \in 1 .. Len(s) : Carries(s[j], pr) => j = i

LEMMA FreeNotAlone == \A s, pr : ~(Free(s, pr) /\ Alone(s, pr))
  BY DEF Free, Alone

LEMMA OneMessage ==
  ASSUME NEW m, NEW pr
  PROVE  /\ Free(<<m>>, pr) <=> ~Carries(m, pr)
         /\ Alone(<<m>>, pr) <=> Carries(m, pr)
         /\ Free(<< >>, pr) /\ ~Alone(<< >>, pr)
<1>1. PICK s : s = <<m>>
  OBVIOUS
<1>2. Len(s) = 1 /\ s[1] = m /\ Len(<< >>) = 0
  BY <1>1
<1>3. (Free(s, pr) <=> ~Carries(m, pr)) /\ (Alone(s, pr) <=> Carries(m, pr))
  <2>1. \A i \in 1 .. Len(s) : i = 1
    BY <1>2
  <2>2. 1 \in 1 .. Len(s)
    BY <1>2
  <2> QED
    BY <1>2, <2>1, <2>2, Zenon DEF Free, Alone
<1>4. Free(<< >>, pr) /\ ~Alone(<< >>, pr)
  <2>1. 1 .. Len(<< >>) = {}
    BY <1>2
  <2> QED
    BY <2>1 DEF Free, Alone
<1> QED
  BY <1>1, <1>3, <1>4

(* Two lines one behind the other. *)
LEMMA Joined ==
  ASSUME NEW S, NEW s \in Seq(S), NEW t \in Seq(S), NEW pr
  PROVE  /\ Free(s \o t, pr) <=> Free(s, pr) /\ Free(t, pr)
         /\ Alone(s \o t, pr) <=> \/ Alone(s, pr) /\ Free(t, pr)
                                  \/ Free(s, pr) /\ Alone(t, pr)
<1>1. PICK u : u = s \o t
  OBVIOUS
<1>2. /\ Len(s) \in Nat /\ Len(t) \in Nat /\ Len(u) = Len(s) + Len(t)
      /\ \A i \in 1 .. Len(s) + Len(t) : u[i] = IF i <= Len(s) THEN s[i] ELSE t[i - Len(s)]
  BY <1>1, ConcatProperties, LenProperties
<1>3. \A i \in 1 .. Len(s) : i \in 1 .. Len(u) /\ u[i] = s[i]
  BY <1>2
<1>4. \A j \in 1 .. Len(t) : Len(s) + j \in 1 .. Len(u) /\ u[Len(s) + j] = t[j]
  <2>1. ASSUME NEW j \in 1 .. Len(t) PROVE Len(s) + j \in 1 .. Len(u) /\ u[Len(s) + j] = t[j]
    <3>1. Len(s) + j \in 1 .. Len(s) + Len(t) /\ ~(Len(s) + j <= Len(s)) /\ (Len(s) + j) - Len(s) = j
      BY <1>2
    <3> QED
      BY <1>2, <3>1
  <2> QED
    BY <2>1
<1>5. ASSUME NEW k \in 1 .. Len(u)
      PROVE  k \in 1 .. Len(s) \/ \E j \in 1 .. Len(t) : k = Len(s) + j
  <2>1. CASE k <= Len(s)
    BY <1>2, <2>1
  <2>2. CASE ~(k <= Len(s))
    <3>1. k - Len(s) \in 1 .. Len(t) /\ k = Len(s) + (k - Len(s))
      BY <1>2, <2>2
    <3> QED
      BY <3>1
  <2> QED
    BY <2>1, <2>2
<1>6. Free(u, pr) <=> Free(s, pr) /\ Free(t, pr)
  <2>1. Free(u, pr) => Free(s, pr) /\ Free(t, pr)
    BY <1>3, <1>4 DEF Free
  <2>2. Free(s, pr) /\ Free(t, pr) => Free(u, pr)
    <3>1. ASSUME Free(s, pr), Free(t, pr), NEW k \in 1 .. Len(u) PROVE ~Carries(u[k], pr)
      BY <1>3, <1>4, <1>5, <3>1, Zenon DEF Free
    <3> QED
      BY <3>1 DEF Free
  <2> QED
    BY <2>1, <2>2
<1>7. Alone(s, pr) /\ Free(t, pr) => Alone(u, pr)
  <2>1. SUFFICES ASSUME Alone(s, pr), Free(t, pr) PROVE Alone(u, pr)
    OBVIOUS
  <2>2. PICK i \in 1 .. Len(s) : Carries(s[i], pr) /\ \A j \in 1 .. Len(s) : Carries(s[j], pr) => j = i
    BY <2>1 DEF Alone
  <2>3. ASSUME NEW k \in 1 .. Len(u), Carries(u[k], pr) PROVE k = i
    <3>1. CASE k \in 1 .. Len(s)
      BY <1>3, <2>2, <2>3, <3>1
    <3>2. ASSUME NEW j \in 1 .. Len(t), k = Len(s) + j PROVE FALSE
      BY <1>4, <2>1, <2>3, <3>2 DEF Free
    <3> QED
      BY <1>5, <3>1, <3>2
  <2> QED
    BY <1>3, <2>2, <2>3 DEF Alone
<1>8. Free(s, pr) /\ Alone(t, pr) => Alone(u, pr)
  <2>1. SUFFICES ASSUME Free(s, pr), Alone(t, pr) PROVE Alone(u, pr)
    OBVIOUS
  <2>2. PICK i \in 1 .. Len(t) : Carries(t[i], pr) /\ \A j \in 1 .. Len(t) : Carries(t[j], pr) => j = i
    BY <2>1 DEF Alone
  <2>3. ASSUME NEW k \in 1 .. Len(u), Carries(u[k], pr) PROVE k = Len(s) + i
    <3>1. CASE k \in 1 .. Len(s)
      BY <1>3, <2>1, <2>3, <3>1 DEF Free
    <3>2. ASSUME NEW j \in 1 .. Len(t), k = Len(s) + j PROVE k = Len(s) + i
      <4>1. Carries(t[j], pr)
        BY <1>4, <2>3, <3>2
      <4> QED
        BY <2>2, <3>2, <4>1
    <3> QED
      BY <1>5, <3>1, <3>2
  <2>4. Len(s) + i \in 1 .. Len(u) /\ Carries(u[Len(s) + i], pr)
    BY <1>4, <2>2
  <2> QED
    BY <2>3, <2>4, Zenon DEF Alone
<1>9. Alone(u, pr) => \/ Alone(s, pr) /\ Free(t, pr)
                      \/ Free(s, pr) /\ Alone(t, pr)
  <2>1. SUFFICES ASSUME Alone(u, pr)
                 PROVE  \/ Alone(s, pr) /\ Free(t, pr)
                        \/ Free(s, pr) /\ Alone(t, pr)
    OBVIOUS
  <2>2. PICK k \in 1 .. Len(u) : Carries(u[k], pr) /\ \A j \in 1 .. Len(u) : Carries(u[j], pr) => j = k
    BY <2>1 DEF Alone
  <2>3. CASE k \in 1 .. Len(s)
    <3>1. Alone(s, pr)
      BY <1>3, <2>2, <2>3 DEF Alone
    <3>2. ASSUME NEW j \in 1 .. Len(t), Carries(t[j], pr) PROVE FALSE
      <4>1. Len(s) + j = k
        BY <1>4, <2>2, <3>2
      <4> QED
        BY <1>2, <2>3, <4>1
    <3> QED
      BY <3>1, <3>2 DEF Free
  <2>4. ASSUME NEW i \in 1 .. Len(t), k = Len(s) + i PROVE Free(s, pr) /\ Alone(t, pr)
    <3>1. ASSUME NEW j \in 1 .. Len(s), Carries(s[j], pr) PROVE FALSE
      <4>1. j = Len(s) + i
        BY <1>3, <2>2, <2>4, <3>1
      <4> QED
        BY <1>2, <4>1
    <3>2. ASSUME NEW j \in 1 .. Len(t), Carries(t[j], pr) PROVE j = i
      <4>1. Len(s) + j = Len(s) + i
        BY <1>4, <2>2, <2>4, <3>2
      <4> QED
        BY <1>2, <4>1
    <3>3. Carries(t[i], pr)
      BY <1>4, <2>2, <2>4
    <3> QED
      BY <3>1, <3>2, <3>3 DEF Free, Alone
  <2> QED
    BY <1>5, <2>3, <2>4
<1> QED
  BY <1>1, <1>6, <1>7, <1>8, <1>9

(* The line of a process, by its parts: what it answers, what its core has *)
(* taken and what waits.                                                   *)
Heads(p, pr) == Answering(p) /\ Carries(current[p], pr)
FreeAt(p, pr) == Free(Line(p), pr)
AloneAt(p, pr) == Alone(Line(p), pr)
LinesAre ==
  \A p \in Procs, pr \in Ids :
    /\ FreeAt(p, pr) <=> ~Heads(p, pr) /\ Free(batch[p], pr) /\ Free(mailbox[p], pr)
    /\ AloneAt(p, pr) <=> \/ Heads(p, pr) /\ Free(batch[p], pr) /\ Free(mailbox[p], pr)
                          \/ ~Heads(p, pr) /\ Alone(batch[p], pr) /\ Free(mailbox[p], pr)
                          \/ ~Heads(p, pr) /\ Free(batch[p], pr) /\ Alone(mailbox[p], pr)

LEMMA LineParts == TypeOK => LinesAre
<1> SUFFICES ASSUME TypeOK, NEW p \in Procs, NEW pr \in Ids
             PROVE  /\ FreeAt(p, pr) <=> ~Heads(p, pr) /\ Free(batch[p], pr) /\ Free(mailbox[p], pr)
                    /\ AloneAt(p, pr) <=> \/ Heads(p, pr) /\ Free(batch[p], pr) /\ Free(mailbox[p], pr)
                                          \/ ~Heads(p, pr) /\ Alone(batch[p], pr) /\ Free(mailbox[p], pr)
                                          \/ ~Heads(p, pr) /\ Free(batch[p], pr) /\ Alone(mailbox[p], pr)
  BY DEF LinesAre
<1>1. current[p] \in Messages /\ batch[p] \in Seq(Messages) /\ mailbox[p] \in Seq(Messages)
  BY DEF TypeOK
<1>2. PICK c : c = IF Answering(p) THEN <<current[p]>> ELSE << >>
  OBVIOUS
<1>3. c \in Seq(Messages)
  BY <1>1, <1>2
<1>4. (Free(c, pr) <=> ~Heads(p, pr)) /\ (Alone(c, pr) <=> Heads(p, pr))
  <2>1. CASE Answering(p)
    BY <1>2, <2>1, OneMessage DEF Heads
  <2>2. CASE ~Answering(p)
    BY <1>2, <2>2, OneMessage DEF Heads
  <2> QED
    BY <2>1, <2>2
<1>5. c \o batch[p] \in Seq(Messages)
  BY <1>1, <1>3, ConcatProperties
<1>6. /\ Free(c \o batch[p], pr) <=> Free(c, pr) /\ Free(batch[p], pr)
      /\ Alone(c \o batch[p], pr) <=> \/ Alone(c, pr) /\ Free(batch[p], pr)
                                      \/ Free(c, pr) /\ Alone(batch[p], pr)
  BY <1>1, <1>3, Joined
<1>7. PICK x : x = c \o batch[p]
  OBVIOUS
<1>8. /\ Free(x \o mailbox[p], pr) <=> Free(x, pr) /\ Free(mailbox[p], pr)
      /\ Alone(x \o mailbox[p], pr) <=> \/ Alone(x, pr) /\ Free(mailbox[p], pr)
                                        \/ Free(x, pr) /\ Alone(mailbox[p], pr)
  BY <1>1, <1>5, <1>7, Joined
<1>9. Line(p) = x \o mailbox[p]
  BY <1>2, <1>7 DEF Line
<1> QED
  BY <1>4, <1>6, <1>7, <1>8, <1>9 DEF FreeAt, AloneAt

LEMMA AppendCarries ==
  ASSUME NEW s \in Seq(Messages), NEW m \in Messages, NEW pr
  PROVE  /\ Free(s, pr) /\ ~Carries(m, pr) => Free(Append(s, m), pr)
         /\ Alone(s, pr) /\ ~Carries(m, pr) => Alone(Append(s, m), pr)
         /\ Free(s, pr) /\ Carries(m, pr) => Alone(Append(s, m), pr)
<1>1. PICK t : t = <<m>>
  OBVIOUS
<1>2. t \in Seq(Messages) /\ Append(s, m) = s \o t
  BY <1>1, AppendIsConcat
<1>3. (Free(t, pr) <=> ~Carries(m, pr)) /\ (Alone(t, pr) <=> Carries(m, pr))
  BY <1>1, OneMessage
<1> QED
  BY <1>2, <1>3, Joined

LEMMA InsertCarries ==
  ASSUME NEW s \in Seq(Messages), NEW m \in Messages, NEW i \in 1 .. Len(s) + 1, NEW pr, ~Carries(m, pr)
  PROVE  /\ Free(s, pr) => Free(InsertAt(s, i, m), pr)
         /\ Alone(s, pr) => Alone(InsertAt(s, i, m), pr)
<1>1. PICK x : x = SubSeq(s, 1, i - 1)
  OBVIOUS
<1>2. PICK y : y = SubSeq(s, i, Len(s))
  OBVIOUS
<1>3. PICK t : t = <<m>>
  OBVIOUS
<1>4. t \in Seq(Messages) /\ Free(t, pr) /\ ~Alone(t, pr)
  BY <1>3, OneMessage
<1>5. x \in Seq(Messages) /\ y \in Seq(Messages) /\ s = x \o y
  <2>1. Len(s) \in Nat /\ i - 1 \in 0 .. Len(s) /\ i - 1 + 1 = i /\ 1 \in 1 .. Len(s) + 1
        /\ Len(s) \in i - 1 .. Len(s)
    BY LenProperties
  <2>2. SubSeq(s, 1, i - 1) \o SubSeq(s, i - 1 + 1, Len(s)) = SubSeq(s, 1, Len(s))
    <3>1. PICK k : k = i - 1
      OBVIOUS
    <3>2. k \in 1 - 1 .. Len(s) /\ Len(s) \in k .. Len(s)
      BY <2>1, <3>1
    <3>3. SubSeq(s, 1, k) \o SubSeq(s, k + 1, Len(s)) = SubSeq(s, 1, Len(s))
      BY <2>1, <3>2, ConcatAdjacentSubSeq
    <3> QED
      BY <3>1, <3>3
  <2>3. SubSeq(s, 1, Len(s)) = s
    BY SubSeqFull
  <2>4. x \in Seq(Messages) /\ y \in Seq(Messages)
    BY <1>1, <1>2, SubSeqProperties
  <2> QED
    BY <1>1, <1>2, <2>1, <2>2, <2>3, <2>4
<1>6. /\ Free(s, pr) <=> Free(x, pr) /\ Free(y, pr)
      /\ Alone(s, pr) <=> \/ Alone(x, pr) /\ Free(y, pr)
                          \/ Free(x, pr) /\ Alone(y, pr)
  BY <1>5, Joined
<1>7. PICK u : u = x \o t
  OBVIOUS
<1>8. u \in Seq(Messages)
  BY <1>4, <1>5, <1>7, ConcatProperties
<1>9. (Free(u, pr) <=> Free(x, pr)) /\ (Alone(u, pr) <=> Alone(x, pr))
  BY <1>4, <1>5, <1>7, Joined
<1>10. /\ Free(u \o y, pr) <=> Free(u, pr) /\ Free(y, pr)
       /\ Alone(u \o y, pr) <=> \/ Alone(u, pr) /\ Free(y, pr)
                                \/ Free(u, pr) /\ Alone(y, pr)
  BY <1>5, <1>8, Joined
<1>11. InsertAt(s, i, m) = u \o y
  BY <1>1, <1>2, <1>3, <1>7 DEF InsertAt
<1> QED
  BY <1>6, <1>9, <1>10, <1>11

(* A call that is promised is owed until the promise is ready: then one    *)
(* process has it and has it once; before and after, none has.             *)
Calling == \A p \in Procs : Answering(p) => current[p].call
Out(pr) == pr \in Made /\ pr \notin timers \cup is_ready
Only(p, pr) == AloneAt(p, pr) /\ \A q \in Procs \ {p} : FreeAt(q, pr)
Owed(pr) == /\ Out(pr) => \E p \in Procs : Only(p, pr)
            /\ ~Out(pr) => \A p \in Procs : FreeAt(p, pr)
AnswersOwed == Calling /\ \A pr \in Ids : Owed(pr)

(* A step that leaves the lines of all processes to a promise as they were.*)
SameLine(p, pr) == (FreeAt(p, pr) => FreeAt(p, pr)') /\ (AloneAt(p, pr) => AloneAt(p, pr)')
SameLines(pr) == \A p \in Procs : SameLine(p, pr)

LEMMA SameOwed ==
  ASSUME NEW pr, Owed(pr), SameLines(pr), Out(pr)' <=> Out(pr)
  PROVE  Owed(pr)'
<1>1. CASE Out(pr)
  <2>1. PICK p \in Procs : Only(p, pr)
    BY <1>1 DEF Owed
  <2>2. AloneAt(p, pr)' /\ \A q \in Procs \ {p} : FreeAt(q, pr)'
    BY <2>1 DEF Only, SameLines, SameLine
  <2> QED
    BY <1>1, <2>2 DEF Owed, Only
<1>2. CASE ~Out(pr)
  BY <1>2 DEF Owed, SameLines, SameLine
<1> QED
  BY <1>1, <1>2

LEMMA PartsSame ==
  ASSUME LinesAre, LinesAre', NEW p \in Procs, NEW pr \in Ids,
         Heads(p, pr)' <=> Heads(p, pr), batch'[p] = batch[p],
         Free(mailbox[p], pr) => Free(mailbox'[p], pr),
         Alone(mailbox[p], pr) => Alone(mailbox'[p], pr)
  PROVE  SameLine(p, pr)
<1>1. /\ FreeAt(p, pr) <=> ~Heads(p, pr) /\ Free(batch[p], pr) /\ Free(mailbox[p], pr)
      /\ AloneAt(p, pr) <=> \/ Heads(p, pr) /\ Free(batch[p], pr) /\ Free(mailbox[p], pr)
                            \/ ~Heads(p, pr) /\ Alone(batch[p], pr) /\ Free(mailbox[p], pr)
                            \/ ~Heads(p, pr) /\ Free(batch[p], pr) /\ Alone(mailbox[p], pr)
  BY DEF LinesAre
<1>2. /\ FreeAt(p, pr)' <=> ~Heads(p, pr)' /\ Free(batch'[p], pr) /\ Free(mailbox'[p], pr)
      /\ AloneAt(p, pr)' <=> \/ Heads(p, pr)' /\ Free(batch'[p], pr) /\ Free(mailbox'[p], pr)
                             \/ ~Heads(p, pr)' /\ Alone(batch'[p], pr) /\ Free(mailbox'[p], pr)
                             \/ ~Heads(p, pr)' /\ Free(batch'[p], pr) /\ Alone(mailbox'[p], pr)
  BY DEF LinesAre
<1> QED
  BY <1>1, <1>2 DEF SameLine

(* Nobody begins or ends a call. *)
HeadsSame == \A p \in Procs : (Answering(p)' <=> Answering(p)) /\ (Answering(p) => current'[p] = current[p])

LEMMA HeadsStay ==
  ASSUME HeadsSame, NEW p \in Procs, NEW pr
  PROVE  Heads(p, pr)' <=> Heads(p, pr)
<1>1. CASE Answering(p)
  BY <1>1 DEF HeadsSame, Heads
<1>2. CASE ~Answering(p)
  BY <1>2 DEF HeadsSame, Heads
<1> QED
  BY <1>1, <1>2

LEMMA CallingStays == ASSUME Calling, HeadsSame PROVE Calling'
  BY DEF Calling, HeadsSame

LEMMA SamePcs == ASSUME UNCHANGED <<pc, current>> PROVE HeadsSame
  BY DEF HeadsSame, Answering

(* Messages that carry no promise make no difference. *)
LEMMA NoCarrier ==
  ASSUME NEW pr \in Ids
  PROVE  /\ \A x : ~Carries(Notice(x), pr)
         /\ \A x, a : Carries(Call(x, a), pr) <=> x = pr
BY DEF Carries, Notice, Call

LEMMA SentLines ==
  ASSUME TypeOK, LinesAre, LinesAre', HeadsSame, UNCHANGED batch, NEW pr \in Ids,
         NEW q, NEW m \in Messages, SendMessage(q, m)
  PROVE  /\ ~Carries(m, pr) => SameLines(pr)
         /\ \A p \in Procs \ {q} : SameLine(p, pr)
         /\ q \in Procs /\ Carries(m, pr) /\ FreeAt(q, pr) => AloneAt(q, pr)'
<1>1. \A p \in Procs : mailbox[p] \in Seq(Messages) /\ mailbox'[p] = IF p = q THEN Append(mailbox[p], m) ELSE mailbox[p]
  BY Sent DEF TypeOK
<1>2. \A p \in Procs : (Heads(p, pr)' <=> Heads(p, pr)) /\ batch'[p] = batch[p]
  BY HeadsStay
<1>3. ASSUME NEW p \in Procs, p # q \/ ~Carries(m, pr) PROVE SameLine(p, pr)
  <2>1. /\ Free(mailbox[p], pr) => Free(mailbox'[p], pr)
        /\ Alone(mailbox[p], pr) => Alone(mailbox'[p], pr)
    BY <1>1, <1>3, AppendCarries
  <2> QED
    BY <1>2, <2>1, PartsSame
<1>4. ASSUME q \in Procs, Carries(m, pr), FreeAt(q, pr) PROVE AloneAt(q, pr)'
  <2>1. ~Heads(q, pr) /\ Free(batch[q], pr) /\ Free(mailbox[q], pr)
    BY <1>4 DEF LinesAre
  <2>2. Alone(mailbox'[q], pr)
    BY <1>1, <1>4, <2>1, AppendCarries
  <2>3. ~Heads(q, pr)' /\ Free(batch'[q], pr)
    BY <1>2, <1>4, <2>1
  <2>4. AloneAt(q, pr)' <=> \/ Heads(q, pr)' /\ Free(batch'[q], pr) /\ Free(mailbox'[q], pr)
                            \/ ~Heads(q, pr)' /\ Alone(batch'[q], pr) /\ Free(mailbox'[q], pr)
                            \/ ~Heads(q, pr)' /\ Free(batch'[q], pr) /\ Alone(mailbox'[q], pr)
    BY <1>4 DEF LinesAre
  <2> QED
    BY <2>2, <2>3, <2>4
<1> QED
  BY <1>3, <1>4 DEF SameLines

LEMMA LinesNext == TypeOK' => LinesAre'
  BY LineParts, PTL

LEMMA OutStays ==
  ASSUME UNCHANGED <<owner, timers, is_ready>>, NEW pr
  PROVE  Out(pr)' <=> Out(pr)
BY DEF Out, Made

(* Steps that move no message and neither begin nor end a call. *)
LEMMA QuietOwed ==
  ASSUME IInv, LinesAre, LinesAre', AnswersOwed, HeadsSame, UNCHANGED <<mailbox, batch>>,
         \A pr \in Ids : Out(pr)' <=> Out(pr)
  PROVE  AnswersOwed'
<1>1. ASSUME NEW pr \in Ids PROVE SameLines(pr)
  BY HeadsStay, PartsSame DEF SameLines
<1>2. \A pr \in Ids : Owed(pr)'
  BY <1>1, SameOwed DEF AnswersOwed
<1> QED
  BY <1>2, CallingStays DEF AnswersOwed

LEMMA ProcessMessageOwed ==
  ASSUME IInv, Known, LinesAre, LinesAre', AnswersOwed, NEW p \in Procs, NEW q \in Procs, ProcessMessage(p, q)
  PROVE  AnswersOwed'
<1>1. TypeOK /\ Numbered
  BY DEF IInv, Known
<1>2. PICK a \in {None} \cup holds[p] :
        \/ \E x \in Fresh : NewPromise(p, x) /\ SendMessage(q, Call(x, a))
        \/ SendMessage(q, Call(None, a)) /\ UNCHANGED <<owner, holds>>
  BY DEF ProcessMessage
<1>3. UNCHANGED <<batch, current, pc, timers, is_ready>> /\ HeadsSame
  BY SamePcs DEF ProcessMessage
<1>4. a \in Ids \cup {None}
  BY <1>1, <1>2 DEF TypeOK
<1>5. Calling'
  BY <1>3, CallingStays DEF AnswersOwed
<1>6. CASE SendMessage(q, Call(None, a)) /\ UNCHANGED owner
  <2>1. Call(None, a) \in Messages
    BY <1>4, MessageTypes
  <2>2. ASSUME NEW pr \in Ids PROVE Owed(pr)'
    <3>1. ~Carries(Call(None, a), pr)
      BY NoCarrier DEF Ids, None
    <3>2. SameLines(pr)
      BY <1>1, <1>3, <1>6, <2>1, <3>1, SentLines
    <3>3. Out(pr)' <=> Out(pr)
      BY <1>3, <1>6, OutStays
    <3> QED
      BY <3>2, <3>3, SameOwed DEF AnswersOwed
  <2> QED
    BY <1>5, <2>2 DEF AnswersOwed
<1>7. ASSUME NEW x \in Fresh, NewPromise(p, x), SendMessage(q, Call(x, a)) PROVE AnswersOwed'
  <2>1. x \in Ids /\ x \notin Made /\ Made' = Made \cup {x}
    BY <1>1, <1>7, NewOne
  <2>2. Call(x, a) \in Messages
    BY <1>4, <2>1, MessageTypes
  <2>3. ASSUME NEW pr \in Ids, pr # x PROVE Owed(pr)'
    <3>1. ~Carries(Call(x, a), pr)
      BY <2>3, NoCarrier
    <3>2. SameLines(pr)
      BY <1>1, <1>3, <1>7, <2>2, <3>1, SentLines
    <3>3. Out(pr)' <=> Out(pr)
      BY <1>3, <2>1, <2>3 DEF Out
    <3> QED
      BY <3>2, <3>3, SameOwed DEF AnswersOwed
  <2>4. Owed(x)'
    <3>1. \A r \in Procs : FreeAt(r, x)
      BY <2>1 DEF AnswersOwed, Owed, Out
    <3>2. Out(x)'
      BY <1>3, <2>1 DEF Out, Known, Marked
    <3>3. Carries(Call(x, a), x)
      BY <2>1, NoCarrier
    <3>4. AloneAt(q, x)' /\ \A r \in Procs \ {q} : SameLine(r, x)
      BY <1>1, <1>3, <1>7, <2>1, <2>2, <3>1, <3>3, SentLines
    <3>5. \A r \in Procs \ {q} : FreeAt(r, x)'
      BY <3>1, <3>4 DEF SameLine
    <3> QED
      BY <3>2, <3>4, <3>5 DEF Owed, Only
  <2> QED
    BY <1>5, <2>3, <2>4 DEF AnswersOwed
<1> QED
  BY <1>2, <1>6, <1>7

LEMMA TimerOwed ==
  ASSUME IInv, Known, LinesAre, LinesAre', AnswersOwed, NEW p \in Procs, Timer(p)
  PROVE  AnswersOwed'
<1>1. TypeOK /\ Numbered
  BY DEF IInv, Known
<1>2. PICK x \in Fresh : NewPromise(p, x) /\ timers' = timers \cup {x}
  BY DEF Timer
<1>3. x \in Ids /\ x \notin Made /\ Made' = Made \cup {x}
  BY <1>1, <1>2, NewOne
<1>4. UNCHANGED <<mailbox, batch, current, pc, is_ready>> /\ HeadsSame
  BY SamePcs DEF Timer
<1>5. \A pr \in Ids : Out(pr)' <=> Out(pr)
  BY <1>2, <1>3, <1>4 DEF Out
<1> QED
  BY <1>4, <1>5, QuietOwed

LEMMA ExpireOwed ==
  ASSUME IInv, LinesAre, LinesAre', AnswersOwed, NEW x \in Ids, Expire(x)
  PROVE  AnswersOwed'
<1>1. TypeOK /\ Notice(x) \in Messages
  BY MessageTypes DEF IInv
<1>2. PICK q : q = owner[x]
  OBVIOUS
<1>3. PICK i \in 1 .. Len(mailbox[q]) + 1 :
        mailbox' = [mailbox EXCEPT ![q] = InsertAt(@, i, Notice(x))]
  BY <1>2 DEF Expire
<1>4. UNCHANGED <<batch, current, pc, owner, timers, is_ready>> /\ HeadsSame
  BY SamePcs DEF Expire
<1>5. ASSUME NEW p \in Procs, NEW pr \in Ids PROVE SameLine(p, pr)
  <2>1. mailbox[p] \in Seq(Messages)
        /\ mailbox'[p] = IF p = q THEN InsertAt(mailbox[p], i, Notice(x)) ELSE mailbox[p]
    BY <1>1, <1>3 DEF TypeOK
  <2>2. ~Carries(Notice(x), pr)
    BY NoCarrier
  <2>3. /\ Free(mailbox[p], pr) => Free(mailbox'[p], pr)
        /\ Alone(mailbox[p], pr) => Alone(mailbox'[p], pr)
    BY <1>1, <1>3, <2>1, <2>2, InsertCarries
  <2>4. (Heads(p, pr)' <=> Heads(p, pr)) /\ batch'[p] = batch[p]
    BY <1>4, HeadsStay
  <2> QED
    BY <2>3, <2>4, PartsSame
<1>6. \A pr \in Ids : SameLines(pr)
  BY <1>5 DEF SameLines
<1>7. \A pr \in Ids : Owed(pr)'
  BY <1>4, <1>6, OutStays, SameOwed DEF AnswersOwed
<1> QED
  BY <1>4, <1>7, CallingStays DEF AnswersOwed

(* A core takes messages from one end of the line. *)
LEMMA TakeOwed ==
  ASSUME IInv, LinesAre, LinesAre', AnswersOwed, NEW p \in Procs, Take(p)
  PROVE  AnswersOwed'
<1>1. TypeOK
  BY DEF IInv
<1>2. PICK n \in 1 .. Len(mailbox[p]) :
        /\ batch' = [batch EXCEPT ![p] = SubSeq(mailbox[p], 1, n)]
        /\ mailbox' = [mailbox EXCEPT ![p] = SubSeq(@, n + 1, Len(@))]
        /\ is_ready' = is_ready \cup ({mailbox[p][i].promise : i \in 1 .. n} \cap timers)
  BY DEF Take
<1>3. PICK f : f = SubSeq(mailbox[p], 1, n)
  OBVIOUS
<1>4. PICK g : g = SubSeq(mailbox[p], n + 1, Len(mailbox[p]))
  OBVIOUS
<1>5. /\ mailbox \in [Procs -> Seq(Messages)] /\ batch \in [Procs -> Seq(Messages)]
      /\ mailbox[p] \in Seq(Messages) /\ Len(mailbox[p]) \in Nat
  BY <1>1, LenProperties DEF TypeOK
<1>6. f \in Seq(Messages) /\ g \in Seq(Messages) /\ mailbox[p] = f \o g
  <2>1. n \in 1 - 1 .. Len(mailbox[p]) /\ Len(mailbox[p]) \in n .. Len(mailbox[p]) /\ 1 \in 1 .. Len(mailbox[p]) + 1
    BY <1>5
  <2>2. f \o g = SubSeq(mailbox[p], 1, Len(mailbox[p]))
    BY <1>3, <1>4, <1>5, <2>1, ConcatAdjacentSubSeq
  <2>3. SubSeq(mailbox[p], 1, Len(mailbox[p])) = mailbox[p]
    BY <1>5, SubSeqFull
  <2>4. f \in Seq(Messages) /\ g \in Seq(Messages)
    BY <1>3, <1>4, <1>5, SubSeqProperties
  <2> QED
    BY <2>2, <2>3, <2>4
<1>7. UNCHANGED <<current, pc, owner, timers>> /\ HeadsSame /\ batch[p] = << >>
  BY SamePcs DEF Take
<1>8. ASSUME NEW q \in Procs, NEW pr \in Ids PROVE SameLine(q, pr)
  <2>1. Heads(q, pr)' <=> Heads(q, pr)
    BY <1>7, HeadsStay
  <2>2. CASE q # p
    <3>1. batch'[q] = batch[q] /\ mailbox'[q] = mailbox[q]
      BY <1>2, <1>5, <2>2
    <3> QED
      BY <2>1, <3>1, PartsSame
  <2>3. CASE q = p
    <3>1. batch'[p] = f /\ mailbox'[p] = g
      BY <1>2, <1>3, <1>4, <1>5
    <3>2. Free(batch[p], pr) /\ ~Alone(batch[p], pr)
      BY <1>7, OneMessage
    <3>3. /\ Free(mailbox[p], pr) <=> Free(f, pr) /\ Free(g, pr)
          /\ Alone(mailbox[p], pr) <=> \/ Alone(f, pr) /\ Free(g, pr)
                                       \/ Free(f, pr) /\ Alone(g, pr)
      BY <1>6, Joined
    <3>4. /\ FreeAt(p, pr) <=> ~Heads(p, pr) /\ Free(batch[p], pr) /\ Free(mailbox[p], pr)
          /\ AloneAt(p, pr) <=> \/ Heads(p, pr) /\ Free(batch[p], pr) /\ Free(mailbox[p], pr)
                                \/ ~Heads(p, pr) /\ Alone(batch[p], pr) /\ Free(mailbox[p], pr)
                                \/ ~Heads(p, pr) /\ Free(batch[p], pr) /\ Alone(mailbox[p], pr)
      BY DEF LinesAre
    <3>5. /\ FreeAt(p, pr)' <=> ~Heads(p, pr)' /\ Free(f, pr) /\ Free(g, pr)
          /\ AloneAt(p, pr)' <=> \/ Heads(p, pr)' /\ Free(f, pr) /\ Free(g, pr)
                                 \/ ~Heads(p, pr)' /\ Alone(f, pr) /\ Free(g, pr)
                                 \/ ~Heads(p, pr)' /\ Free(f, pr) /\ Alone(g, pr)
      BY <3>1 DEF LinesAre
    <3>6. SameLine(p, pr)
      BY <2>1, <2>3, <3>2, <3>3, <3>4, <3>5 DEF SameLine
    <3> QED
      BY <2>3, <3>6
  <2> QED
    BY <2>2, <2>3
<1>9. \A pr \in Ids : Out(pr)' <=> Out(pr)
  BY <1>2, <1>7 DEF Out, Made
<1>10. \A pr \in Ids : SameLines(pr)
  BY <1>8 DEF SameLines
<1>11. \A pr \in Ids : Owed(pr)'
  BY <1>9, <1>10, SameOwed DEF AnswersOwed
<1> QED
  BY <1>7, <1>11, CallingStays DEF AnswersOwed

(* The step of one process: the heads of the other lines stay. *)
LEMMA OtherLines ==
  ASSUME IInv, LinesAre, LinesAre', NEW p \in Procs, CoreStep(p), UNCHANGED mailbox,
         NEW q \in Procs, q # p, NEW pr \in Ids
  PROVE  SameLine(q, pr)
<1>1. pc'[q] = pc[q] /\ current'[q] = current[q] /\ batch'[q] = batch[q]
  BY CoreFrame DEF IInv
<1>2. Heads(q, pr)' <=> Heads(q, pr)
  BY <1>1 DEF Heads, Answering
<1> QED
  BY <1>1, <1>2, PartsSame

LEMMA BeginOwed ==
  ASSUME IInv, LinesAre, LinesAre', AnswersOwed, NEW p \in Procs, Begin(p)
  PROVE  AnswersOwed'
<1>1. TypeOK /\ CoreStep(p)
  BY DEF IInv, CoreStep
<1>2. PICK m : m = Head(batch[p])
  OBVIOUS
<1>3. PICK t : t = Tail(batch[p])
  OBVIOUS
<1>4. /\ batch \in [Procs -> Seq(Messages)] /\ current \in [Procs -> Messages] /\ pc \in [Procs -> Pcs]
      /\ batch[p] \in Seq(Messages) /\ batch[p] # << >>
  BY <1>1 DEF TypeOK, Begin, Pcs
<1>5. /\ pc[p] = "idle" /\ current' = [current EXCEPT ![p] = m] /\ batch' = [batch EXCEPT ![p] = t]
      /\ GotoAt(p, IF m.call THEN "body" ELSE "whens", 1)
      /\ UNCHANGED <<mailbox, owner, timers, is_ready>>
  BY <1>2, <1>3 DEF Begin
<1>6. /\ current'[p] = m /\ batch'[p] = t /\ pc'[p] = IF m.call THEN "body" ELSE "whens"
  BY <1>4, <1>5 DEF GotoAt
<1>7. m \in Messages /\ t \in Seq(Messages) /\ batch[p] = <<m>> \o t
  <2>1. m \in Messages /\ t \in Seq(Messages)
    BY <1>2, <1>3, <1>4, HeadTailProperties
  <2>2. PICK u : u = <<m>> \o t
    OBVIOUS
  <2>3. /\ Len(t) = Len(batch[p]) - 1 /\ Len(batch[p]) \in Nat \ {0}
        /\ \A i \in 1 .. Len(t) : t[i] = batch[p][i + 1]
    BY <1>3, <1>4, HeadTailProperties, EmptySeq
  <2>4. PICK h : h = <<m>>
    OBVIOUS
  <2>5. h \in Seq(Messages) /\ Len(h) = 1 /\ h[1] = m
    BY <2>1, <2>4
  <2>6. /\ u \in Seq(Messages) /\ Len(u) = Len(h) + Len(t)
        /\ \A i \in 1 .. Len(h) + Len(t) : u[i] = IF i <= Len(h) THEN h[i] ELSE t[i - Len(h)]
    BY <2>1, <2>2, <2>4, <2>5, ConcatProperties
  <2>7. ASSUME NEW i \in 1 .. Len(u) PROVE u[i] = batch[p][i]
    <3>1. CASE i = 1
      <4>1. u[1] = h[1]
        BY <2>3, <2>5, <2>6
      <4>2. batch[p][1] = m
        BY <1>2, <1>4
      <4> QED
        BY <2>5, <3>1, <4>1, <4>2
    <3>2. CASE i # 1
      <4>1. i - 1 \in 1 .. Len(t) /\ ~(i <= 1) /\ (i - 1) + 1 = i /\ i \in 1 .. Len(h) + Len(t)
        BY <2>3, <2>5, <2>6, <3>2
      <4> QED
        BY <2>3, <2>5, <2>6, <4>1
    <3> QED
      BY <3>1, <3>2
  <2>8. Len(u) = Len(batch[p])
    BY <2>3, <2>5, <2>6
  <2>9. u = batch[p]
    BY <1>4, <2>6, <2>7, <2>8, SeqEqual
  <2> QED
    BY <2>1, <2>2, <2>9
<1>8. ASSUME NEW pr \in Ids PROVE SameLine(p, pr)
  <2>1. ~Heads(p, pr)
    BY <1>5 DEF Heads, Answering
  <2>2. Heads(p, pr)' <=> Carries(m, pr)
    <3>1. CASE m.call
      BY <1>6, <3>1 DEF Heads, Answering
    <3>2. CASE ~m.call
      BY <1>6, <3>2 DEF Heads, Answering, Carries
    <3> QED
      BY <3>1, <3>2
  <2>3. PICK h : h = <<m>>
    OBVIOUS
  <2>4. h \in Seq(Messages) /\ (Free(h, pr) <=> ~Carries(m, pr)) /\ (Alone(h, pr) <=> Carries(m, pr))
    BY <1>7, <2>3, OneMessage
  <2>5. /\ Free(batch[p], pr) <=> Free(h, pr) /\ Free(t, pr)
        /\ Alone(batch[p], pr) <=> \/ Alone(h, pr) /\ Free(t, pr)
                                   \/ Free(h, pr) /\ Alone(t, pr)
    <3>1. /\ Free(h \o t, pr) <=> Free(h, pr) /\ Free(t, pr)
          /\ Alone(h \o t, pr) <=> \/ Alone(h, pr) /\ Free(t, pr)
                                   \/ Free(h, pr) /\ Alone(t, pr)
      BY <1>7, <2>4, Joined
    <3>2. batch[p] = h \o t
      BY <1>7, <2>3
    <3> QED
      BY <3>1, <3>2
  <2>6. /\ FreeAt(p, pr) <=> ~Heads(p, pr) /\ Free(batch[p], pr) /\ Free(mailbox[p], pr)
        /\ AloneAt(p, pr) <=> \/ Heads(p, pr) /\ Free(batch[p], pr) /\ Free(mailbox[p], pr)
                              \/ ~Heads(p, pr) /\ Alone(batch[p], pr) /\ Free(mailbox[p], pr)
                              \/ ~Heads(p, pr) /\ Free(batch[p], pr) /\ Alone(mailbox[p], pr)
    BY DEF LinesAre
  <2>7. /\ FreeAt(p, pr)' <=> ~Heads(p, pr)' /\ Free(t, pr) /\ Free(mailbox[p], pr)
        /\ AloneAt(p, pr)' <=> \/ Heads(p, pr)' /\ Free(t, pr) /\ Free(mailbox[p], pr)
                               \/ ~Heads(p, pr)' /\ Alone(t, pr) /\ Free(mailbox[p], pr)
                               \/ ~Heads(p, pr)' /\ Free(t, pr) /\ Alone(mailbox[p], pr)
    BY <1>5, <1>6 DEF LinesAre
  <2> QED
    BY <2>1, <2>2, <2>4, <2>5, <2>6, <2>7 DEF SameLine
<1>9. \A pr \in Ids : SameLines(pr)
  BY <1>1, <1>5, <1>8, OtherLines DEF SameLines
<1>10. \A pr \in Ids : Owed(pr)'
  BY <1>5, <1>9, OutStays, SameOwed DEF AnswersOwed
<1>11. Calling'
  <2>1. ASSUME NEW q \in Procs, Answering(q)' PROVE current'[q].call
    <3>1. CASE q = p
      BY <1>6, <2>1, <3>1 DEF Answering
    <3>2. CASE q # p
      BY <1>1, <2>1, <3>2, CoreFrame DEF AnswersOwed, Calling, Answering
    <3> QED
      BY <3>1, <3>2
  <2> QED
    BY <2>1 DEF Calling
<1> QED
  BY <1>10, <1>11 DEF AnswersOwed

(* A method that returns without a promise to answer answers none. *)
LEMMA ReturnOwed ==
  ASSUME IInv, LinesAre, LinesAre', AnswersOwed, NEW p \in Procs, Return(p)
  PROVE  AnswersOwed'
<1>1. TypeOK /\ CoreStep(p)
  BY DEF IInv, CoreStep
<1>2. /\ pc[p] = "body" /\ Goto(p, IF current[p].promise # None THEN "value" ELSE "whens")
      /\ UNCHANGED <<mailbox, batch, current, owner, timers, is_ready>>
  BY DEF Return
<1>3. pc'[p] = (IF current[p].promise # None THEN "value" ELSE "whens")
  BY <1>1, <1>2 DEF TypeOK, Goto
<1>4. ASSUME NEW pr \in Ids PROVE SameLine(p, pr)
  <2>1. Heads(p, pr)' <=> Heads(p, pr)
    <3>1. pr # None
      BY DEF Ids, None
    <3>2. CASE current[p].promise # None
      BY <1>2, <1>3, <3>2 DEF Heads, Answering
    <3>3. CASE current[p].promise = None
      BY <1>2, <3>1, <3>3 DEF Heads, Carries
    <3> QED
      BY <3>2, <3>3
  <2> QED
    BY <1>2, <2>1, PartsSame
<1>5. \A pr \in Ids : SameLines(pr)
  BY <1>1, <1>2, <1>4, OtherLines DEF SameLines
<1>6. \A pr \in Ids : Owed(pr)'
  BY <1>2, <1>5, OutStays, SameOwed DEF AnswersOwed
<1>7. Calling'
  <2>1. ASSUME NEW q \in Procs, Answering(q)' PROVE current'[q].call
    <3>1. Answering(q)
      <4>1. CASE q = p
        BY <1>2, <4>1 DEF Answering
      <4>2. CASE q # p
        BY <1>1, <2>1, <4>2, CoreFrame DEF Answering
      <4> QED
        BY <4>1, <4>2
    <3> QED
      BY <1>2, <3>1 DEF AnswersOwed, Calling
  <2> QED
    BY <2>1 DEF Calling
<1> QED
  BY <1>6, <1>7 DEF AnswersOwed

(* The call is answered: its promise is owed no more, and nobody has it. *)
LEMMA MarkReadyOwed ==
  ASSUME IInv, LinesAre, LinesAre', AnswersOwed, NEW p \in Procs, MarkReady(p)
  PROVE  AnswersOwed'
<1>1. TypeOK /\ CoreStep(p)
  BY DEF IInv, CoreStep
<1>2. PICK x : x = current[p].promise
  OBVIOUS
<1>3. /\ pc[p] = "ready" /\ Goto(p, "notify") /\ is_ready' = is_ready \cup {x}
      /\ UNCHANGED <<mailbox, batch, current, owner, timers>>
  BY <1>2 DEF MarkReady
<1>4. pc'[p] = "notify" /\ x \in Ids
  BY <1>1, <1>2, <1>3 DEF TypeOK, Goto, IInv, BodyShape
<1>5. Heads(p, x)
  BY <1>2, <1>3 DEF AnswersOwed, Calling, Heads, Answering, Carries
<1>6. \A pr \in Ids : ~Heads(p, pr)'
  BY <1>4 DEF Heads, Answering
<1>7. ASSUME NEW pr \in Ids, pr # x PROVE Owed(pr)'
  <2>1. ~Heads(p, pr)
    BY <1>2, <1>7 DEF Heads, Carries
  <2>2. SameLine(p, pr)
    BY <1>3, <1>6, <2>1, PartsSame
  <2>3. SameLines(pr)
    BY <1>1, <1>3, <2>2, OtherLines DEF SameLines
  <2>4. Out(pr)' <=> Out(pr)
    BY <1>3, <1>7 DEF Out, Made
  <2> QED
    BY <2>3, <2>4, SameOwed DEF AnswersOwed
<1>8. Owed(x)'
  <2>1. ~FreeAt(p, x)
    BY <1>4, <1>5 DEF LinesAre
  <2>2. PICK q \in Procs : Only(q, x)
    BY <1>4, <2>1 DEF AnswersOwed, Owed
  <2>3. q = p /\ AloneAt(p, x)
    BY <2>1, <2>2 DEF Only
  <2>4. FreeAt(p, x)'
    <3>1. Free(batch[p], x) /\ Free(mailbox[p], x)
      BY <1>4, <1>5, <2>3 DEF LinesAre
    <3>2. FreeAt(p, x)' <=> ~Heads(p, x)' /\ Free(batch'[p], x) /\ Free(mailbox'[p], x)
      BY <1>4 DEF LinesAre
    <3> QED
      BY <1>3, <1>4, <1>6, <3>1, <3>2
  <2>5. ASSUME NEW r \in Procs, r # p PROVE FreeAt(r, x)'
    <3>1. FreeAt(r, x)
      BY <2>2, <2>3, <2>5 DEF Only
    <3>2. SameLine(r, x)
      BY <1>1, <1>3, <1>4, <2>5, OtherLines
    <3> QED
      BY <3>1, <3>2 DEF SameLine
  <2>6. ~Out(x)'
    BY <1>3 DEF Out
  <2> QED
    BY <2>4, <2>5, <2>6 DEF Owed
<1>9. Calling'
  <2>1. ASSUME NEW q \in Procs, Answering(q)' PROVE current'[q].call
    <3>1. q # p
      BY <1>4, <2>1 DEF Answering
    <3>2. Answering(q)
      BY <1>1, <2>1, <3>1, CoreFrame DEF Answering
    <3> QED
      BY <1>3, <3>2 DEF AnswersOwed, Calling
  <2> QED
    BY <2>1 DEF Calling
<1> QED
  BY <1>7, <1>8, <1>9 DEF AnswersOwed

LEMMA NotifyOwed ==
  ASSUME IInv, LinesAre, LinesAre', AnswersOwed, NEW p \in Procs, Notify(p)
  PROVE  AnswersOwed'
<1>1. TypeOK /\ CoreStep(p)
  BY DEF IInv, CoreStep
<1>2. PICK q : q = owner[current[p].promise]
  OBVIOUS
<1>3. PICK m : m = Notice(current[p].promise)
  OBVIOUS
<1>4. /\ pc[p] = "notify" /\ GotoAt(p, "whens", 1) /\ SendMessage(q, m)
      /\ UNCHANGED <<batch, current, owner, timers, is_ready>>
  BY <1>2, <1>3 DEF Notify
<1>5. m \in Messages
  BY <1>1, <1>3, MessageTypes DEF TypeOK
<1>6. pc'[p] = "whens"
  BY <1>1, <1>4 DEF TypeOK, GotoAt
<1>7. HeadsSame
  <2>1. \A r \in Procs : r # p => pc'[r] = pc[r]
    BY <1>1, CoreFrame
  <2> QED
    BY <1>4, <1>6, <2>1 DEF HeadsSame, Answering
<1>8. ASSUME NEW pr \in Ids PROVE SameLines(pr)
  <2>1. ~Carries(m, pr)
    BY <1>3, NoCarrier
  <2> QED
    BY <1>1, <1>4, <1>5, <1>7, <2>1, SentLines
<1>9. \A pr \in Ids : Owed(pr)'
  BY <1>4, <1>8, OutStays, SameOwed DEF AnswersOwed
<1> QED
  BY <1>7, <1>9, CallingStays DEF AnswersOwed

LEMMA SilentOwed ==
  ASSUME IInv, LinesAre, LinesAre', AnswersOwed, NEW p \in Procs, Silently(p), ~Return(p)
  PROVE  AnswersOwed'
<1>1. TypeOK /\ CoreStep(p)
  BY DEF IInv, CoreStep, Silently
<1>2. UNCHANGED <<mailbox, batch, current, is_ready, owner, timers>>
  BY <1>1, SilentFrame
<1>3. Answering(p)' <=> Answering(p)
  <2>1. CASE StoreValue(p)
    BY <1>1, <2>1 DEF TypeOK, StoreValue, Goto, Answering
  <2>2. CASE ~StoreValue(p)
    <3>1. pc[p] \in {"whens", "when_body", "whenevers", "whenever_body"}
          /\ pc'[p] \in {"whens", "when_body", "whenevers", "whenever_body", "idle"}
      BY <1>1, <2>2 DEF TypeOK, Silently, When, WhenNotYet, EndWhen, WhensDone, Whenever, Whens, Whenevers,
              WheneverNotYet, EndWhenever, WheneversDone, Goto, GotoAt
    <3> QED
      BY <3>1 DEF Answering
  <2> QED
    BY <2>1, <2>2
<1>4. HeadsSame
  <2>1. \A r \in Procs : r # p => pc'[r] = pc[r]
    BY <1>1, CoreFrame
  <2> QED
    BY <1>2, <1>3, <2>1 DEF HeadsSame, Answering
<1> QED
  BY <1>2, <1>4, OutStays, QuietOwed

LEMMA OwedStep == IInv /\ Known /\ AnswersOwed /\ [Next]_vars => AnswersOwed'
<1> SUFFICES ASSUME IInv, Known, AnswersOwed, [Next]_vars PROVE AnswersOwed'
  OBVIOUS
<1>1. LinesAre /\ LinesAre'
  <2>1. TypeOK /\ TypeOK'
    BY NextInv DEF IInv
  <2> QED
    BY <2>1, LineParts, LinesNext
<1>2. ASSUME NEW p \in Procs, CoreStep(p) PROVE AnswersOwed'
  BY <1>1, <1>2, BeginOwed, ReturnOwed, MarkReadyOwed, NotifyOwed, SilentOwed DEF CoreStep, Silently
<1>3. ASSUME UNCHANGED <<mailbox, batch, current, pc, owner, timers, is_ready>> PROVE AnswersOwed'
  BY <1>1, <1>3, SamePcs, OutStays, QuietOwed
<1>4. ASSUME NEW p \in Procs, Instruction(p) PROVE AnswersOwed'
  <2>1. CASE WhenRegister(p) \/ WheneverRegister(p)
    BY <1>3, <2>1 DEF WhenRegister, WheneverRegister
  <2> QED
    BY <1>1, <1>4, <2>1, ProcessMessageOwed, TimerOwed DEF Instruction
<1>5. ASSUME NEW p \in Procs, FirstReturn(p) PROVE AnswersOwed'
  BY <1>3, <1>5 DEF FirstReturn
<1>6. CASE UNCHANGED vars
  BY <1>3, <1>6 DEF vars
<1> QED
  BY <1>1, <1>2, <1>4, <1>5, <1>6, TakeOwed, ExpireOwed DEF Next

LEMMA InitOwed == Init => AnswersOwed
<1> SUFFICES ASSUME Init PROVE AnswersOwed
  OBVIOUS
<1>1. TypeOK /\ LinesAre
  BY InitInv, LineParts DEF IInv
<1>2. \A p \in Procs : ~Answering(p)
  BY DEF Init, Answering
<1>3. ASSUME NEW p \in Procs, NEW pr \in Ids PROVE FreeAt(p, pr)
  <2>1. ~Heads(p, pr) /\ batch[p] = << >>
    BY <1>2 DEF Heads, Init
  <2>2. Free(batch[p], pr)
    BY <2>1, OneMessage
  <2>3. Free(mailbox[p], pr)
    <3>1. CASE p \in Spawned
      <4>1. mailbox[p] = <<Call(None, None)>> /\ pr # None
        BY <3>1 DEF Init, Ids, None
      <4>2. ~Carries(Call(None, None), pr)
        BY <4>1, NoCarrier
      <4> QED
        BY <4>1, <4>2, OneMessage
    <3>2. CASE p \notin Spawned
      <4>1. mailbox[p] = << >>
        BY <3>2 DEF Init
      <4> QED
        BY <4>1, OneMessage
    <3> QED
      BY <3>1, <3>2
  <2> QED
    BY <1>1, <2>1, <2>2, <2>3 DEF LinesAre
<1>4. Made = {}
  BY DEF Init, Made
<1> QED
  BY <1>2, <1>3, <1>4 DEF AnswersOwed, Calling, Owed, Out

(* What has the promise, counted. *)
LEMMA OwedCounts == TypeOK /\ Marked /\ AnswersOwed => AnsweredOnce
<1> SUFFICES ASSUME TypeOK, Marked, AnswersOwed, NEW pr \in Made \ timers
             PROVE  Cardinality(Carriers(pr)) = IF pr \in is_ready THEN 0 ELSE 1
  BY DEF AnsweredOnce
<1>1. pr \in Ids /\ Owed(pr)
  BY DEF Made, AnswersOwed
<1>2. \A p \in Procs : DOMAIN Line(p) = 1 .. Len(Line(p))
  <2>1. ASSUME NEW p \in Procs PROVE Line(p) \in Seq(Messages)
    <3>1. current[p] \in Messages /\ batch[p] \in Seq(Messages) /\ mailbox[p] \in Seq(Messages)
      BY DEF TypeOK
    <3>2. PICK c : c = IF Answering(p) THEN <<current[p]>> ELSE << >>
      OBVIOUS
    <3>3. c \in Seq(Messages)
      BY <3>1, <3>2
    <3>4. c \o batch[p] \in Seq(Messages)
      BY <3>1, <3>3, ConcatProperties
    <3>5. (c \o batch[p]) \o mailbox[p] \in Seq(Messages)
      BY <3>1, <3>4, ConcatProperties
    <3> QED
      BY <3>2, <3>5 DEF Line
  <2> QED
    BY <2>1, LenProperties
<1>3. \A w : w \in Carriers(pr) <=>
               \E p \in Procs : \E i \in 1 .. Len(Line(p)) : w = <<p, i>> /\ Carries(Line(p)[i], pr)
  <2>1. ASSUME NEW w, w \in Carriers(pr)
        PROVE  \E p \in Procs : \E i \in 1 .. Len(Line(p)) : w = <<p, i>> /\ Carries(Line(p)[i], pr)
    <3>1. PICK p \in Procs : w \in {p} \X {i \in DOMAIN Line(p) : Line(p)[i].call /\ Line(p)[i].promise = pr}
      BY <2>1 DEF Carriers
    <3>2. PICK i \in {i \in DOMAIN Line(p) : Line(p)[i].call /\ Line(p)[i].promise = pr} : w = <<p, i>>
      BY <3>1
    <3> QED
      BY <1>2, <3>2 DEF Carries
  <2>2. ASSUME NEW w, NEW p \in Procs, NEW i \in 1 .. Len(Line(p)), w = <<p, i>>, Carries(Line(p)[i], pr)
        PROVE  w \in Carriers(pr)
    <3>1. w \in {p} \X {j \in DOMAIN Line(p) : Line(p)[j].call /\ Line(p)[j].promise = pr}
      BY <1>2, <2>2 DEF Carries
    <3> QED
      BY <3>1 DEF Carriers
  <2> QED
    BY <2>1, <2>2
<1>4. CASE pr \in is_ready
  <2>1. \A p \in Procs : \A i \in 1 .. Len(Line(p)) : ~Carries(Line(p)[i], pr)
    BY <1>1, <1>4 DEF Owed, Out, FreeAt, Free
  <2>2. Carriers(pr) = {}
    BY <1>3, <2>1
  <2> QED
    BY <1>4, <2>2, FS_EmptySet
<1>5. CASE pr \notin is_ready
  <2>1. Out(pr)
    BY <1>5 DEF Out
  <2>2. PICK p \in Procs : Only(p, pr)
    BY <1>1, <2>1 DEF Owed
  <2>3. PICK i \in 1 .. Len(Line(p)) : /\ Carries(Line(p)[i], pr)
                                       /\ \A j \in 1 .. Len(Line(p)) : Carries(Line(p)[j], pr) => j = i
    BY <2>2 DEF Only, AloneAt, Alone
  <2>4. \A q \in Procs \ {p} : \A j \in 1 .. Len(Line(q)) : ~Carries(Line(q)[j], pr)
    BY <2>2 DEF Only, FreeAt, Free
  <2>5. Carriers(pr) = {<<p, i>>}
    <3>1. ASSUME NEW w, w \in Carriers(pr) PROVE w = <<p, i>>
      <4>1. PICK q \in Procs : \E j \in 1 .. Len(Line(q)) : w = <<q, j>> /\ Carries(Line(q)[j], pr)
        BY <1>3, <3>1
      <4>2. PICK j \in 1 .. Len(Line(q)) : w = <<q, j>> /\ Carries(Line(q)[j], pr)
        BY <4>1
      <4>3. q = p
        BY <2>4, <4>2
      <4> QED
        BY <2>3, <4>2, <4>3
    <3>2. <<p, i>> \in Carriers(pr)
      BY <1>3, <2>3
    <3> QED
      BY <3>1, <3>2
  <2> QED
    BY <1>5, <2>5, FS_Singleton
<1> QED
  BY <1>4, <1>5

(* Every call that made a promise is answered at most once, and its answer *)
(* is never lost: until the promise is ready one message carries it, in    *)
(* one line and at one place, through every send, every timer pushed in    *)
(* between, every batch taken and every return; and none when it is ready. *)
THEOREM AnswersOnce == Spec => []AnsweredOnce
<1>1. Spec => []AnswersOwed
  <2>1. ScanInv => IInv /\ Known
    BY DEF ScanInv
  <2> QED
    BY ScanInvariance, InitOwed, OwedStep, <2>1, PTL DEF Spec
<1>2. IInv /\ Known /\ AnswersOwed => AnsweredOnce
  BY OwedCounts DEF IInv, Known
<1>3. ScanInv => IInv /\ Known
  BY DEF ScanInv
<1> QED
  BY ScanInvariance, <1>1, <1>2, <1>3, PTL
=============================================================================
