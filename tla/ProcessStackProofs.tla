------------------------- MODULE ProcessStackProofs -------------------------
(***************************************************************************)
(* Proofs about the stack of a process: it stays within its allocation,    *)
(* frames balance, and cells and variables agree.                          *)
(***************************************************************************)
EXTENDS ProcessStack, SequenceTheorems, TLAPS

-----------------------------------------------------------------------------
(* The layout, in numbers.                                                 *)
LEMMA Layout ==
  /\ storage_requirement("class") = Temps + 2 /\ storage_requirement("method") = 3
  /\ storage_requirement("function") = Params + 2
  /\ temp_end("class") = Temps + 2 /\ temp_end("method") = 5 /\ temp_end("function") = Params + 2
  /\ ResultSlot("class") = Temps + 2 /\ ResultSlot("method") = 5 /\ ResultSlot("function") = Params + 2
  /\ Variables("class") = 1 .. 1 /\ Variables("method") = 2 .. 3 /\ Variables("function") = 0 .. Params
  /\ parameters_start("method") = 2 /\ parameters_start("function") = 0 /\ Member = 1
<1>1. Temps \in Nat /\ Params \in {0, 1}
  BY StackAssumption
<1>2. symbol_count["class"] = 2 /\ symbol_count["method"] = 2 /\ symbol_count["function"] = Params + 1
  BY DEF symbol_count
<1>3. temp_count["class"] = Temps /\ temp_count["method"] = 1 /\ temp_count["function"] = 1
  BY DEF temp_count
<1>4. storage_requirement("class") = Temps + 2 /\ storage_requirement("method") = 3
      /\ storage_requirement("function") = Params + 2
  BY <1>1, <1>2, <1>3 DEF storage_requirement
<1>5. Offset("class") = 0 /\ Offset("method") = 2 /\ Offset("function") = 0
  BY <1>1, <1>3, <1>4 DEF Offset
<1>6. parameters_start("class") = 1 /\ parameters_start("method") = 2 /\ parameters_start("function") = 0
  BY <1>5 DEF parameters_start
<1>7. temp_end("class") = Temps + 2 /\ temp_end("method") = 5 /\ temp_end("function") = Params + 2
  BY <1>1, <1>2, <1>3, <1>5 DEF temp_end
<1>8. ResultSlot("class") = Temps + 2 /\ ResultSlot("method") = 5 /\ ResultSlot("function") = Params + 2
  BY <1>1, <1>4, <1>5 DEF ResultSlot
<1>9. Variables("class") = 1 .. 1 /\ Variables("method") = 2 .. 3 /\ Variables("function") = 0 .. Params
  BY <1>1, <1>2, <1>5, <1>6 DEF Variables
<1> QED
  BY <1>4, <1>6, <1>7, <1>8, <1>9 DEF Member

-----------------------------------------------------------------------------
(* The operators on sequences of cells.                                    *)
LEMMA ZeroCell == 0 \in Cells /\ This \in Cells /\ Values \subseteq Cells
BY StackAssumption DEF Cells

LEMMA Listed ==
  ASSUME NEW S, NEW n \in Nat, NEW f \in [1 .. n -> S]
  PROVE  f \in Seq(S) /\ Len(f) = n
<1>1. f \in Seq(S)
  BY SeqDef
<1>2. Len(f) \in Nat /\ DOMAIN f = 1 .. Len(f)
  BY <1>1, LenProperties
<1> QED
  BY <1>1, <1>2

LEMMA WriteCells ==
  ASSUME NEW s \in Seq(Cells), NEW i \in Nat, i < Len(s), NEW v \in Cells
  PROVE  /\ Write(s, i, v) \in Seq(Cells) /\ Len(Write(s, i, v)) = Len(s)
         /\ \A j \in 0 .. Len(s) - 1 : Write(s, i, v)[j + 1] = IF j = i THEN v ELSE s[j + 1]
<1>1. Len(s) \in Nat /\ s \in [1 .. Len(s) -> Cells]
  BY LenProperties
<1>2. i + 1 \in 1 .. Len(s)
  BY <1>1
<1>3. Write(s, i, v) \in Seq(Cells) /\ Len(Write(s, i, v)) = Len(s)
  BY <1>2, ExceptSeq DEF Write
<1>4. \A k \in 1 .. Len(s) : Write(s, i, v)[k] = IF k = i + 1 THEN v ELSE s[k]
  BY <1>1, <1>2 DEF Write
<1>5. ASSUME NEW j \in 0 .. Len(s) - 1 PROVE Write(s, i, v)[j + 1] = IF j = i THEN v ELSE s[j + 1]
  <2>1. j + 1 \in 1 .. Len(s) /\ (j + 1 = i + 1 <=> j = i)
    BY <1>1
  <2> QED
    BY <1>4, <2>1
<1> QED
  BY <1>3, <1>5

(* The same about one named result. *)
Wrote(t, s, i, v) == \A j \in 0 .. Len(s) - 1 : t[j + 1] = IF j = i THEN v ELSE s[j + 1]

LEMMA WriteNamed ==
  ASSUME NEW s \in Seq(Cells), NEW i \in Nat, i < Len(s), NEW v \in Cells
  PROVE  Wrote(Write(s, i, v), s, i, v)
  BY WriteCells DEF Wrote

Copied(t, s, start, D, f) ==
  \A j \in 0 .. Len(s) - 1 : t[j + 1] = IF j - start \in D THEN f[j - start] ELSE s[j + 1]

LEMMA WrittenCells ==
  ASSUME NEW s \in Seq(Cells), NEW i \in Nat, i < Len(s), NEW v \in Cells, NEW j \in 0 .. Len(s) - 1, j # i
  PROVE  Write(s, i, v)[j + 1] = s[j + 1]
<1>1. Len(s) \in Nat /\ DOMAIN s = 1 .. Len(s)
  BY LenProperties
<1>2. j + 1 \in DOMAIN s /\ j + 1 # i + 1
  BY <1>1
<1> QED
  BY <1>2 DEF Write

LEMMA OverlaidCells ==
  ASSUME NEW s \in Seq(Cells), NEW start \in Nat, NEW D, NEW f \in [D -> Cells],
         NEW g, g = Overlay(s, start, f)
  PROVE  g \in Seq(Cells) /\ Len(g) = Len(s) /\ Copied(g, s, start, D, f)
<1>1. Len(s) \in Nat /\ s \in [1 .. Len(s) -> Cells] /\ DOMAIN s = 1 .. Len(s) /\ DOMAIN f = D
  BY LenProperties
<1>2. PICK n : n = Len(s)
  OBVIOUS
<1>3. g = [i \in 1 .. n |-> IF i - 1 - start \in D THEN f[i - 1 - start] ELSE s[i]]
  BY <1>1, <1>2 DEF Overlay
<1>4. g \in [1 .. n -> Cells]
  BY <1>1, <1>2, <1>3
<1>5. g \in Seq(Cells) /\ Len(g) = n
  BY <1>1, <1>2, <1>4, Listed
<1>6. ASSUME NEW j \in 0 .. n - 1 PROVE g[j + 1] = IF j - start \in D THEN f[j - start] ELSE s[j + 1]
  <2>1. j + 1 \in 1 .. n /\ j + 1 - 1 - start = j - start
    BY <1>1, <1>2
  <2> QED
    BY <1>3, <2>1
<1>7. Copied(g, s, start, D, f)
  BY <1>2, <1>6 DEF Copied
<1> QED
  BY <1>2, <1>5, <1>7

LEMMA OverlayCells ==
  ASSUME NEW s \in Seq(Cells), NEW start \in Nat, NEW D, NEW f \in [D -> Cells]
  PROVE  Overlay(s, start, f) \in Seq(Cells) /\ Len(Overlay(s, start, f)) = Len(s)
<1>1. PICK g : g = Overlay(s, start, f)
  OBVIOUS
<1>2. g \in Seq(Cells) /\ Len(g) = Len(s)
  BY <1>1, OverlaidCells
<1> QED
  BY <1>1, <1>2

LEMMA GrownCells ==
  ASSUME stack \in Seq(Cells), NEW top \in Nat
  PROVE  /\ Grown(top) \in Seq(Cells) /\ Len(Grown(top)) \in Nat
         /\ Len(Grown(top)) >= Len(stack) /\ Len(Grown(top)) > top
         /\ \A j \in 0 .. Len(stack) - 1 : Grown(top)[j + 1] = stack[j + 1]
         /\ stack = << >> => \A j \in 0 .. Len(Grown(top)) - 1 : Grown(top)[j + 1] = 0
<1>1. PICK n : n = Len(stack)
  OBVIOUS
<1>2. n \in Nat
  BY <1>1, LenProperties
<1>3. PICK k : k = IF top + 1 > n THEN top + 1 - n ELSE 0
  OBVIOUS
<1>0. k \in Nat
  BY <1>2, <1>3
<1>4. 1 .. top + 1 - n = 1 .. k
  BY <1>0, <1>2, <1>3
<1>5. PICK z : z = [i \in 1 .. k |-> 0]
  OBVIOUS
<1>6. z \in Seq(Cells) /\ Len(z) = k
  <2>1. z \in [1 .. k -> Cells]
    BY <1>5, ZeroCell
  <2> QED
    BY <1>0, <2>1, Listed
<1>7. Grown(top) = stack \o z
  BY <1>1, <1>4, <1>5 DEF Grown, stack_end
<1>8. /\ Grown(top) \in Seq(Cells) /\ Len(Grown(top)) = n + k
      /\ \A i \in 1 .. n + k : Grown(top)[i] = IF i <= n THEN stack[i] ELSE z[i - n]
  <2>1. /\ stack \o z \in Seq(Cells) /\ Len(stack \o z) = Len(stack) + Len(z)
        /\ \A i \in 1 .. Len(stack) + Len(z) : (stack \o z)[i] = IF i <= Len(stack) THEN stack[i] ELSE z[i - Len(stack)]
    BY <1>6, ConcatProperties
  <2> QED
    BY <1>1, <1>6, <1>7, <2>1
<1>9. Len(Grown(top)) \in Nat /\ Len(Grown(top)) >= n /\ Len(Grown(top)) > top
  BY <1>0, <1>2, <1>3, <1>8
<1>10. ASSUME NEW j \in 0 .. n - 1 PROVE Grown(top)[j + 1] = stack[j + 1]
  <2>1. j + 1 \in 1 .. n + k /\ j + 1 <= n
    BY <1>0, <1>2
  <2> QED
    BY <1>8, <2>1
<1>11. ASSUME stack = << >>, NEW j \in 0 .. Len(Grown(top)) - 1 PROVE Grown(top)[j + 1] = 0
  <2>1. n = 0
    BY <1>1, <1>11
  <2>2. PICK l : l = j + 1
    OBVIOUS
  <2>3. l \in 1 .. k /\ l \in 1 .. n + k /\ ~(l <= n) /\ l - n = l
    BY <1>0, <1>8, <1>11, <2>1, <2>2
  <2>4. Grown(top)[l] = IF l <= n THEN stack[l] ELSE z[l - n]
    BY <1>8, <2>3
  <2>5. Grown(top)[l] = z[l]
    BY <2>3, <2>4
  <2>6. z[l] = 0
    BY <1>5, <2>3
  <2> QED
    BY <2>2, <2>5, <2>6
<1> QED
  BY <1>1, <1>8, <1>9, <1>10, <1>11

LEMMA FrontCells ==
  ASSUME NEW S, NEW s \in Seq(S), Len(s) >= 1
  PROVE  /\ Front(s) \in Seq(S) /\ Len(Front(s)) = Len(s) - 1
         /\ \A j \in 1 .. Len(s) - 1 : Front(s)[j] = s[j]
<1>1. PICK n : n = Len(s) - 1
  OBVIOUS
<1>2. n \in Nat /\ Len(s) = n + 1 /\ Len(s) \in Nat
  BY <1>1, LenProperties
<1>3. 1 \in Int /\ n \in Int /\ \A i \in 1 .. n : s[i] \in S
  BY <1>2, ElementOfSeq
<1>4. /\ SubSeq(s, 1, n) \in Seq(S) /\ Len(SubSeq(s, 1, n)) = IF 1 <= n THEN n - 1 + 1 ELSE 0
      /\ \A i \in 1 .. n - 1 + 1 : SubSeq(s, 1, n)[i] = s[1 + i - 1]
  BY <1>3, SubSeqProperties
<1>5. \A i \in 1 .. n : SubSeq(s, 1, n)[i] = s[i]
  BY <1>2, <1>4
<1> QED
  BY <1>1, <1>2, <1>4, <1>5 DEF Front

-----------------------------------------------------------------------------
(* Frames.  The current one and the saved ones are a list: frame j of them *)
(* begins at Bp(j) and ends at Sp(j), and the activation i of running has  *)
(* frame Deep + i.                                                         *)
Bp(j) == IF j = Len(stack_frame) + 1 THEN stack_base ELSE stack_frame[j].bp
Sp(j) == IF j = Len(stack_frame) + 1 THEN stack_top ELSE stack_frame[j].sp
Deep == Len(stack_frame) + 1 - Len(running)
Saved == [bp : Nat, sp : Nat]

LEMMA Push ==
  ASSUME stack_frame \in Seq(Saved), stack_base \in Nat, stack_top \in Nat,
         stack_frame' = Append(stack_frame, [bp |-> stack_base, sp |-> stack_top]),
         NEW n, n = Len(stack_frame)
  PROVE  /\ n \in Nat /\ stack_frame' \in Seq(Saved) /\ Len(stack_frame') = n + 1
         /\ \A j \in 1 .. n + 1 : Bp(j)' = Bp(j) /\ Sp(j)' = Sp(j)
         /\ Bp(n + 2)' = stack_base' /\ Sp(n + 2)' = stack_top'
<1>1. PICK e : e = [bp |-> stack_base, sp |-> stack_top]
  OBVIOUS
<1>2. e \in Saved /\ e.bp = stack_base /\ e.sp = stack_top
  BY <1>1 DEF Saved
<1>4. n \in Nat
  BY LenProperties
<1>5. /\ stack_frame' \in Seq(Saved) /\ Len(stack_frame') = n + 1
      /\ stack_frame'[n + 1] = e /\ \A j \in 1 .. n : stack_frame'[j] = stack_frame[j]
  BY <1>1, <1>2, AppendProperties
<1>6. ASSUME NEW j \in 1 .. n + 1 PROVE Bp(j)' = Bp(j) /\ Sp(j)' = Sp(j)
  <2>1. j # n + 1 + 1
    BY <1>4
  <2>2. CASE j = n + 1
    BY <1>2, <1>5, <2>1, <2>2 DEF Bp, Sp
  <2>3. CASE j # n + 1
    <3>1. j \in 1 .. n
      BY <1>4, <2>3
    <3> QED
      BY <1>5, <2>1, <2>3, <3>1 DEF Bp, Sp
  <2> QED
    BY <2>2, <2>3
<1>7. Bp(n + 2)' = stack_base' /\ Sp(n + 2)' = stack_top'
  <2>1. n + 2 = n + 1 + 1
    BY <1>4
  <2> QED
    BY <1>5, <2>1 DEF Bp, Sp
<1> QED
  BY <1>4, <1>5, <1>6, <1>7

LEMMA Pop ==
  ASSUME stack_frame \in Seq(Saved), PopStackFrame, NEW n, n = Len(stack_frame), n >= 1
  PROVE  /\ n \in Nat /\ stack_frame' \in Seq(Saved) /\ Len(stack_frame') = n - 1
         /\ stack_base' \in Nat /\ stack_top' \in Nat
         /\ \A j \in 1 .. n : Bp(j)' = Bp(j) /\ Sp(j)' = Sp(j)
<1>2. n \in Nat /\ n - 1 + 1 = n
  BY LenProperties
<1>3. PICK e : e = stack_frame[n]
  OBVIOUS
<1>4. e \in Saved
  <2>1. n \in 1 .. Len(stack_frame)
    BY <1>2
  <2> QED
    BY <1>3, <2>1, ElementOfSeq
<1>5. e.bp \in Nat /\ e.sp \in Nat
  BY <1>4 DEF Saved
<1>6. stack_base' = e.bp /\ stack_top' = e.sp
  BY <1>3 DEF PopStackFrame, Last
<1>7. /\ stack_frame' \in Seq(Saved) /\ Len(stack_frame') = n - 1
      /\ \A j \in 1 .. n - 1 : stack_frame'[j] = stack_frame[j]
  BY FrontCells DEF PopStackFrame
<1>8. ASSUME NEW j \in 1 .. n PROVE Bp(j)' = Bp(j) /\ Sp(j)' = Sp(j)
  <2>1. j # n + 1
    BY <1>2
  <2>2. Bp(j) = stack_frame[j].bp /\ Sp(j) = stack_frame[j].sp
    BY <2>1 DEF Bp, Sp
  <2>3. CASE j = n
    BY <1>2, <1>3, <1>6, <1>7, <2>2, <2>3 DEF Bp, Sp
  <2>4. CASE j # n
    <3>1. j \in 1 .. n - 1
      BY <1>2, <2>4
    <3> QED
      BY <1>2, <1>7, <2>2, <2>4, <3>1 DEF Bp, Sp
  <2> QED
    BY <2>3, <2>4
<1> QED
  BY <1>2, <1>5, <1>6, <1>7, <1>8

-----------------------------------------------------------------------------
(* Activations.                                                            *)
Typed(r) == /\ r.fun \in Functions /\ r.when \in BOOLEAN
            /\ r.vars \in [Variables(r.fun) -> Cells]

LEMMA Environment ==
  ASSUME NEW f \in Functions, NEW e \in [Variables(f) -> Cells]
  PROVE  e \in Environments
BY DEF Environments

LEMMA NewActivation ==
  ASSUME NEW f \in Functions, NEW w \in BOOLEAN, NEW e \in [Variables(f) -> Cells]
  PROVE  /\ [fun |-> f, when |-> w, vars |-> e] \in Activations
         /\ Typed([fun |-> f, when |-> w, vars |-> e])
BY Environment DEF Activations, Typed

LEMMA StoredVariable ==
  ASSUME NEW r \in Activations, Typed(r), NEW x \in Variables(r.fun), NEW v \in Cells
  PROVE  /\ Stored(r, x, v) \in Activations /\ Typed(Stored(r, x, v))
         /\ Stored(r, x, v).fun = r.fun /\ Stored(r, x, v).when = r.when
         /\ \A y \in Variables(r.fun) : Stored(r, x, v).vars[y] = IF y = x THEN v ELSE r.vars[y]
<1>1. PICK e : e = [r.vars EXCEPT ![x] = v]
  OBVIOUS
<1>2. r.fun \in Functions /\ r.when \in BOOLEAN /\ r.vars \in [Variables(r.fun) -> Cells]
  BY DEF Typed
<1>3. e \in [Variables(r.fun) -> Cells]
  BY <1>1, <1>2
<1>4. Stored(r, x, v) = [fun |-> r.fun, when |-> r.when, vars |-> e]
  BY <1>1 DEF Stored
<1>5. \A y \in Variables(r.fun) : e[y] = IF y = x THEN v ELSE r.vars[y]
  BY <1>1, <1>2
<1> QED
  BY <1>2, <1>3, <1>4, <1>5, NewActivation

LEMMA MadeActivation ==
  ASSUME NEW f \in Functions, NEW args, \A x \in DOMAIN args : args[x] \in Cells
  PROVE  /\ Activation(f, args) \in Activations /\ Typed(Activation(f, args))
         /\ Activation(f, args).fun = f /\ ~Activation(f, args).when
<1>1. PICK e : e = [x \in Variables(f) |-> IF x \in DOMAIN args THEN args[x] ELSE 0]
  OBVIOUS
<1>2. e \in [Variables(f) -> Cells]
  BY <1>1, ZeroCell
<1>3. Activation(f, args) = [fun |-> f, when |-> FALSE, vars |-> e]
  BY <1>1 DEF Activation
<1>4. PICK r : r = [fun |-> f, when |-> FALSE, vars |-> e]
  OBVIOUS
<1>5. r \in Activations /\ Typed(r)
  BY <1>2, <1>4, NewActivation
<1>6. r.fun = f /\ r.when = FALSE
  BY <1>4
<1> QED
  BY <1>3, <1>4, <1>5, <1>6

-----------------------------------------------------------------------------
(* The invariant.  An activation of a method or a class begins at the      *)
(* bottom, one of a function above the members, and each where the one     *)
(* that called it ends.  A method runs in a frame that also has room for   *)
(* the temporaries of the constructor.                                     *)
Framed(r, bp, sp) ==
  /\ bp \in Nat /\ sp \in Nat
  /\ IF r.fun = "function" THEN bp >= 2 ELSE bp = 0
  /\ sp = bp + temp_end(r.fun) + IF r.fun = "method" /\ ~r.when THEN Temps ELSE 0
Nested(m, d) ==
  \A i \in 1 .. m :
    /\ Typed(running[i]) /\ Framed(running[i], Bp(d + i), Sp(d + i))
    /\ i > 1 => running[i].fun = "function" /\ ~running[i].when /\ Bp(d + i) = Sp(d + (i - 1))
    /\ i = 1 /\ running[i].fun = "function" => running[i].when
    /\ \A k \in 1 .. m : i < k => Sp(d + i) <= Bp(d + k)
Stacked == Nested(Len(running), Deep)

(* The frame of the constructor stays, and every frame is inside the stack. *)
Grounded == pc # "new" => Len(stack_frame) >= 1 /\ Bp(2) = 0 /\ Sp(2) = Temps + 2
Room == \A j \in 2 .. Len(stack_frame) + 1 : Sp(j) < stack_end

(* Where the process is, and how many frames it has. *)
New == pc = "new" => /\ stack = << >> /\ stack_base = 0 /\ stack_top = 0 /\ stack_frame = << >>
                     /\ running = << >> /\ when_blocks = << >> /\ member = 0
Idle == pc \in {"rest", "scan"} => running = << >> /\ Len(stack_frame) = 1
Constructing == running[1].fun = "class" /\ ~running[1].when
Active == pc \in {"run", "condition"} =>
            /\ Len(running) >= 1 /\ Deep = IF Constructing THEN 1 ELSE 2
            /\ pc = "condition" => Len(running) = 1 /\ running[1].when
            /\ running[1].when => at <= Len(when_blocks) /\ (running[1].fun = "class" => MemberBlocks)

(* A closure goes back to where it came from, inside the stack. *)
Enclosed(b, n) ==
  /\ b.fun \in Functions /\ b.base_offset \in Nat
  /\ b.vars \in [Variables(b.fun) -> Cells] /\ b.state \in [Variables(b.fun) -> Cells]
  /\ IF b.fun = "function" THEN b.base_offset >= 2 ELSE b.base_offset = 0
  /\ b.base_offset + temp_end(b.fun) < n
  /\ b.fun = "class" => MemberBlocks
BlocksFit == \A k \in 1 .. Len(when_blocks) : Enclosed(when_blocks[k], stack_end)

Shape == Stacked /\ Grounded /\ Room /\ New /\ Idle /\ Active /\ BlocksFit
IInv == TypeOK /\ Shape

(* Activations that stay where they are. *)
LEMMA Carried ==
  ASSUME NEW m \in Nat, NEW d \in Nat, Nested(m, d),
         \A j \in 1 .. d + m : Bp(j)' = Bp(j) /\ Sp(j)' = Sp(j),
         \A i \in 1 .. m : /\ Typed(running'[i]) /\ running'[i].fun = running[i].fun
                           /\ running'[i].when = running[i].when
  PROVE  Nested(m, d)'
<1>1. ASSUME NEW i \in 1 .. m
      PROVE  /\ Bp(d + i)' = Bp(d + i) /\ Sp(d + i)' = Sp(d + i)
             /\ i > 1 => Sp(d + (i - 1))' = Sp(d + (i - 1))
  BY DEF Framed
<1>2. ASSUME NEW i \in 1 .. m, NEW bp, NEW sp, Framed(running[i], bp, sp)
      PROVE  Framed(running'[i], bp, sp)
  BY <1>2 DEF Framed
<1>3. ASSUME NEW i \in 1 .. m
      PROVE  /\ Typed(running'[i]) /\ Framed(running'[i], Bp(d + i)', Sp(d + i)')
             /\ i > 1 => running'[i].fun = "function" /\ ~running'[i].when /\ Bp(d + i)' = Sp(d + (i - 1))'
             /\ i = 1 /\ running'[i].fun = "function" => running'[i].when
             /\ \A k \in 1 .. m : i < k => Sp(d + i)' <= Bp(d + k)'
  <2>1. Framed(running'[i], Bp(d + i)', Sp(d + i)')
    <3>1. Framed(running[i], Bp(d + i), Sp(d + i))
      BY DEF Nested
    <3> QED
      BY <1>1, <1>2, <3>1
  <2>2. /\ i > 1 => running'[i].fun = "function" /\ ~running'[i].when /\ Bp(d + i)' = Sp(d + (i - 1))'
        /\ i = 1 /\ running'[i].fun = "function" => running'[i].when
    BY <1>1 DEF Nested
  <2>3. \A k \in 1 .. m : i < k => Sp(d + i)' <= Bp(d + k)'
    BY <1>1 DEF Nested
  <2> QED
    BY <2>1, <2>2, <2>3
<1> QED
  BY <1>3 DEF Nested, Framed

LEMMA Fewer ==
  ASSUME NEW m \in Nat, NEW d \in Nat, Nested(m + 1, d)
  PROVE  Nested(m, d)
<1>1. 1 .. m \subseteq 1 .. m + 1
  OBVIOUS
<1> QED
  BY <1>1 DEF Nested

(* One activation more, where the last one ends. *)
LEMMA OneMore ==
  ASSUME NEW m \in Nat, NEW d \in Nat, Nested(m, d)', NEW r, r = running'[m + 1],
         Typed(r), Framed(r, Bp(d + (m + 1))', Sp(d + (m + 1))'),
         m > 0 => r.fun = "function" /\ ~r.when /\ Bp(d + (m + 1))' = Sp(d + m)',
         m = 0 /\ r.fun = "function" => r.when
  PROVE  Nested(m + 1, d)'
<1> DEFINE b(i) == Bp(d + i)'
           s(i) == Sp(d + i)'
<1>1. \A i \in 1 .. m : /\ Typed(running'[i]) /\ Framed(running'[i], b(i), s(i))
                        /\ i > 1 => running'[i].fun = "function" /\ ~running'[i].when /\ b(i) = s(i - 1)
                        /\ i = 1 /\ running'[i].fun = "function" => running'[i].when
                        /\ \A k \in 1 .. m : i < k => s(i) <= b(k)
  BY DEF Nested, Framed
<1>2. /\ Framed(r, b(m + 1), s(m + 1))
      /\ m > 0 => b(m + 1) = s(m)
  OBVIOUS
<1> HIDE DEF b, s
<1>3. \A i \in 1 .. m : b(i) \in Nat /\ s(i) \in Nat /\ b(i) <= s(i)
  <2>1. ASSUME NEW i \in 1 .. m PROVE b(i) \in Nat /\ s(i) \in Nat /\ b(i) <= s(i)
    <3>1. Typed(running'[i]) /\ Framed(running'[i], b(i), s(i))
      BY <1>1
    <3>2. running'[i].fun \in Functions
      BY <3>1 DEF Typed
    <3>3. temp_end(running'[i].fun) \in Nat
      BY <3>2, Layout, StackAssumption DEF Functions
    <3> QED
      BY <3>1, <3>3, StackAssumption DEF Framed
  <2> QED
    BY <2>1
<1>4. ASSUME NEW i \in 1 .. m PROVE s(i) <= b(m + 1)
  <2>1. m \in 1 .. m /\ m > 0
    OBVIOUS
  <2>2. b(m + 1) = s(m)
    BY <1>2, <2>1
  <2>3. CASE i = m
    BY <1>3, <2>1, <2>2, <2>3
  <2>4. CASE i < m
    BY <1>1, <1>3, <2>1, <2>2, <2>4
  <2> QED
    BY <2>3, <2>4
<1>5. ASSUME NEW i \in 1 .. m + 1
      PROVE  /\ Typed(running'[i]) /\ Framed(running'[i], b(i), s(i))
             /\ i > 1 => running'[i].fun = "function" /\ ~running'[i].when /\ b(i) = s(i - 1)
             /\ i = 1 /\ running'[i].fun = "function" => running'[i].when
             /\ \A k \in 1 .. m + 1 : i < k => s(i) <= b(k)
  <2>1. CASE i = m + 1
    <3>1. m + 1 - 1 = m /\ (i > 1 <=> m > 0) /\ (i = 1 <=> m = 0)
      BY <2>1
    <3> QED
      BY <1>2, <2>1, <3>1
  <2>2. CASE i # m + 1
    <3>1. i \in 1 .. m
      BY <2>2
    <3>2. ASSUME NEW k \in 1 .. m + 1, i < k PROVE s(i) <= b(k)
      <4>1. CASE k = m + 1
        BY <1>4, <3>1, <4>1
      <4>2. CASE k # m + 1
        <5>1. k \in 1 .. m
          BY <4>2
        <5> QED
          BY <1>1, <3>1, <3>2, <5>1
      <4> QED
        BY <4>1, <4>2
    <3> QED
      BY <1>1, <3>1, <3>2
  <2> QED
    BY <2>1, <2>2
<1> USE DEF b, s
<1> QED
  BY <1>5 DEF Nested, Framed

-----------------------------------------------------------------------------
(* What a step does to the frames.                                         *)
LEMMA Types ==
  ASSUME IInv
  PROVE  /\ Len(stack) \in Nat /\ Len(stack_frame) \in Nat /\ Len(running) \in Nat
         /\ stack_frame \in Seq(Saved) /\ stack_base \in Nat /\ stack_top \in Nat
         /\ Len(when_blocks) \in Nat
<1>1. TypeOK
  BY DEF IInv
<1> QED
  BY <1>1, LenProperties DEF TypeOK, Saved

LEMMA Depth ==
  ASSUME IInv, pc # "new"
  PROVE  /\ Deep \in {1, 2} /\ Len(stack_frame) + 1 = Deep + Len(running)
         /\ Len(running) = 0 => Deep = 2
<1>1. pc \in {"rest", "run", "condition", "scan"}
  BY DEF IInv, TypeOK
<1>2. Len(stack_frame) \in Nat /\ Len(running) \in Nat
  BY Types
<1>3. CASE pc \in {"rest", "scan"}
  <2>1. Len(stack_frame) = 1 /\ Len(running) = 0
    BY <1>3 DEF IInv, Shape, Idle
  <2> QED
    BY <1>2, <2>1 DEF Deep
<1>4. CASE pc \in {"run", "condition"}
  <2>1. Len(running) >= 1 /\ Deep = IF Constructing THEN 1 ELSE 2
    BY <1>4 DEF IInv, Shape, Active
  <2>2. Deep \in {1, 2}
    BY <2>1
  <2> QED
    BY <1>2, <2>1, <2>2 DEF Deep
<1> QED
  BY <1>1, <1>3, <1>4

LEMMA NoneRunning == running' = << >> => Stacked'
BY DEF Stacked, Nested

LEMMA SameBlocks ==
  ASSUME IInv, when_blocks' = when_blocks, Len(stack') \in Nat, Len(stack') >= Len(stack)
  PROVE  BlocksFit'
<1>1. Len(stack) \in Nat
  BY Types
<1>2. ASSUME NEW k \in 1 .. Len(when_blocks) PROVE Enclosed(when_blocks[k], Len(stack'))
  <2>1. PICK b : b = when_blocks[k]
    OBVIOUS
  <2>2. Enclosed(b, Len(stack))
    BY <2>1 DEF IInv, Shape, BlocksFit, stack_end
  <2>3. b.fun \in Functions /\ b.base_offset \in Nat /\ b.base_offset + temp_end(b.fun) < Len(stack)
    BY <2>2 DEF Enclosed
  <2>4. temp_end(b.fun) \in Nat
    BY <2>3, Layout, StackAssumption DEF Functions
  <2>5. b.base_offset + temp_end(b.fun) < Len(stack')
    BY <1>1, <2>3, <2>4
  <2>6. Enclosed(b, Len(stack'))
    BY <2>2, <2>5 DEF Enclosed
  <2> QED
    BY <2>1, <2>6
<1> QED
  BY <1>2 DEF BlocksFit, stack_end, Enclosed

LEMMA FrameNumbers ==
  ASSUME IInv, NEW j \in 1 .. Len(stack_frame) + 1
  PROVE  Bp(j) \in Nat /\ Sp(j) \in Nat
<1>1. stack_frame \in Seq(Saved) /\ stack_base \in Nat /\ stack_top \in Nat /\ Len(stack_frame) \in Nat
  BY Types
<1>2. CASE j = Len(stack_frame) + 1
  BY <1>1, <1>2 DEF Bp, Sp
<1>3. CASE j # Len(stack_frame) + 1
  <2>1. j \in 1 .. Len(stack_frame)
    BY <1>1, <1>3
  <2>2. stack_frame[j] \in Saved
    BY <1>1, <2>1, ElementOfSeq
  <2> QED
    BY <1>3, <2>2 DEF Bp, Sp, Saved
<1> QED
  BY <1>2, <1>3

(* No frame comes or goes. *)
LEMMA SameFrames ==
  ASSUME IInv, pc # "new", UNCHANGED <<stack_base, stack_top, stack_frame>>,
         Len(stack') \in Nat, Len(stack') >= Len(stack), Len(running') = Len(running),
         \A i \in 1 .. Len(running) : /\ Typed(running'[i]) /\ running'[i].fun = running[i].fun
                                      /\ running'[i].when = running[i].when
  PROVE  Stacked' /\ Grounded' /\ Room' /\ Deep' = Deep
<1>1. PICK d : d = Deep
  OBVIOUS
<1>2. PICK m : m = Len(running)
  OBVIOUS
<1>3. d \in Nat /\ m \in Nat /\ Len(stack_frame) \in Nat /\ Len(stack) \in Nat
  BY <1>1, <1>2, Types, Depth
<1>4. \A j : Bp(j)' = Bp(j) /\ Sp(j)' = Sp(j)
  BY DEF Bp, Sp
<1>5. Deep' = d /\ Len(running') = m
  BY <1>1, <1>2 DEF Deep
<1>6. Stacked'
  <2>1. Nested(m, d)
    BY <1>1, <1>2 DEF IInv, Shape, Stacked
  <2>2. Nested(m, d)'
    BY <1>2, <1>3, <1>4, <2>1, Carried
  <2> QED
    BY <1>5, <2>2 DEF Stacked
<1>7. Grounded'
  BY <1>4 DEF IInv, Shape, Grounded
<1>8. Room'
  <2>1. ASSUME NEW j \in 2 .. Len(stack_frame) + 1 PROVE Sp(j)' < Len(stack')
    <3>1. Sp(j) < Len(stack)
      BY DEF IInv, Shape, Room, stack_end
    <3>2. Sp(j) \in Nat
      BY <1>3, FrameNumbers
    <3> QED
      BY <1>3, <1>4, <3>1, <3>2
  <2> QED
    BY <2>1 DEF Room, stack_end
<1> QED
  BY <1>1, <1>5, <1>6, <1>7, <1>8

(* A frame comes. *)
LEMMA PushedFrame ==
  ASSUME IInv, pc # "new", NEW r \in Activations, Typed(r), running' = Append(running, r),
         stack_frame' = Append(stack_frame, [bp |-> stack_base, sp |-> stack_top]),
         Framed(r, stack_base', stack_top'),
         Len(running) > 0 => r.fun = "function" /\ ~r.when /\ stack_base' = stack_top,
         Len(running) = 0 /\ r.fun = "function" => r.when,
         Len(stack') \in Nat, Len(stack') >= Len(stack), stack_top' < Len(stack')
  PROVE  /\ stack_frame' \in Seq(Saved) /\ running' \in Seq(Activations)
         /\ Len(running') = Len(running) + 1 /\ running'[Len(running) + 1] = r
         /\ \A i \in 1 .. Len(running) : running'[i] = running[i]
         /\ Deep' = Deep /\ Stacked' /\ Grounded' /\ Room'
<1>1. PICK d : d = Deep
  OBVIOUS
<1>2. PICK m : m = Len(running)
  OBVIOUS
<1>3. PICK n : n = Len(stack_frame)
  OBVIOUS
<1>4. d \in Nat /\ d >= 1 /\ m \in Nat /\ n \in Nat /\ n + 1 = d + m /\ n >= 1 /\ Len(stack) \in Nat
  BY <1>1, <1>2, <1>3, Types, Depth
<1>5. running \in Seq(Activations)
  BY DEF IInv, TypeOK
<1>6. /\ running' \in Seq(Activations) /\ Len(running') = m + 1 /\ running'[m + 1] = r
      /\ \A i \in 1 .. m : running'[i] = running[i]
  BY <1>2, <1>5, AppendProperties
<1>7. /\ stack_frame' \in Seq(Saved) /\ Len(stack_frame') = n + 1
      /\ \A j \in 1 .. n + 1 : Bp(j)' = Bp(j) /\ Sp(j)' = Sp(j)
      /\ Bp(n + 2)' = stack_base' /\ Sp(n + 2)' = stack_top'
  BY <1>3, Types, Push
<1>8. Deep' = d
  BY <1>4, <1>6, <1>7 DEF Deep
<1>9. Nested(m, d)
  BY <1>1, <1>2 DEF IInv, Shape, Stacked
<1>10. Nested(m, d)'
  <2>1. \A i \in 1 .. m : /\ Typed(running'[i]) /\ running'[i].fun = running[i].fun
                          /\ running'[i].when = running[i].when
    BY <1>6, <1>9 DEF Nested
  <2>2. \A j \in 1 .. d + m : Bp(j)' = Bp(j) /\ Sp(j)' = Sp(j)
    BY <1>4, <1>7
  <2> QED
    BY <1>4, <1>9, <2>1, <2>2, Carried
<1>11. Nested(m + 1, d)'
  <2>1. n + 2 = d + (m + 1) /\ n + 1 = d + m
    BY <1>4
  <2>2. Bp(d + (m + 1))' = stack_base' /\ Sp(d + (m + 1))' = stack_top'
    BY <1>7, <2>1
  <2>3. Sp(d + m)' = stack_top
    <3>1. Sp(n + 1) = stack_top
      BY <1>3 DEF Sp
    <3>2. Sp(n + 1)' = Sp(n + 1)
      BY <1>4, <1>7
    <3> QED
      BY <2>1, <3>1, <3>2
  <2>4. Framed(r, Bp(d + (m + 1))', Sp(d + (m + 1))')
    BY <2>2
  <2>5. m > 0 => r.fun = "function" /\ ~r.when /\ Bp(d + (m + 1))' = Sp(d + m)'
    BY <1>2, <2>2, <2>3
  <2>6. m = 0 /\ r.fun = "function" => r.when
    BY <1>2
  <2> QED
    BY <1>4, <1>6, <1>10, <2>4, <2>5, <2>6, OneMore
<1>12. Stacked'
  BY <1>6, <1>8, <1>11 DEF Stacked
<1>13. Grounded'
  <2>1. Bp(2) = 0 /\ Sp(2) = Temps + 2 /\ 2 \in 1 .. n + 1
    BY <1>4 DEF IInv, Shape, Grounded
  <2> QED
    BY <1>4, <1>7, <2>1 DEF Grounded
<1>14. Room'
  <2>1. ASSUME NEW j \in 2 .. n + 2 PROVE Sp(j)' < Len(stack')
    <3>1. CASE j = n + 2
      BY <1>7, <3>1
    <3>2. CASE j # n + 2
      <4>1. j \in 2 .. n + 1 /\ j \in 1 .. n + 1
        BY <1>4, <3>2
      <4>2. Sp(j) < Len(stack) /\ Sp(j) \in Nat /\ Sp(j)' = Sp(j)
        BY <1>3, <1>7, <4>1, FrameNumbers DEF IInv, Shape, Room, stack_end
      <4> QED
        BY <1>4, <4>2
    <3> QED
      BY <3>1, <3>2
  <2>2. Len(stack_frame') + 1 = n + 2
    BY <1>4, <1>7
  <2> QED
    BY <2>1, <2>2 DEF Room, stack_end
<1> QED
  BY <1>1, <1>2, <1>6, <1>7, <1>8, <1>12, <1>13, <1>14

(* The last frame goes. *)
LEMMA PoppedFrame ==
  ASSUME IInv, pc \in {"run", "condition"}, Len(stack_frame) >= 2, PopStackFrame,
         Len(stack') = Len(stack), Len(running') = Len(running) - 1,
         \A i \in 1 .. Len(running) - 1 : /\ Typed(running'[i]) /\ running'[i].fun = running[i].fun
                                          /\ running'[i].when = running[i].when
  PROVE  /\ stack_frame' \in Seq(Saved) /\ stack_base' \in Nat /\ stack_top' \in Nat
         /\ Len(stack_frame') = Len(stack_frame) - 1
         /\ Deep' = Deep /\ Stacked' /\ Grounded' /\ Room'
<1>1. PICK d : d = Deep
  OBVIOUS
<1>2. PICK m : m = Len(running) - 1
  OBVIOUS
<1>3. PICK n : n = Len(stack_frame)
  OBVIOUS
<1>4. /\ d \in Nat /\ d >= 1 /\ m \in Nat /\ n \in Nat /\ n = d + m /\ n >= 2
      /\ Len(running) = m + 1 /\ Len(stack) \in Nat
  <2>1. Len(running) >= 1
    BY DEF IInv, Shape, Active
  <2> QED
    BY <1>1, <1>2, <1>3, <2>1, Types, Depth
<1>5. /\ stack_frame' \in Seq(Saved) /\ stack_base' \in Nat /\ stack_top' \in Nat
      /\ Len(stack_frame') = n - 1 /\ \A j \in 1 .. n : Bp(j)' = Bp(j) /\ Sp(j)' = Sp(j)
  BY <1>3, <1>4, Types, Pop, SMTT(30)
<1>6. Deep' = d /\ Len(running') = m
  BY <1>2, <1>4, <1>5 DEF Deep
<1>7. Nested(m, d)'
  <2>1. Nested(m + 1, d)
    BY <1>1, <1>4 DEF IInv, Shape, Stacked
  <2>2. Nested(m, d)
    BY <1>4, <2>1, Fewer
  <2>3. \A j \in 1 .. d + m : Bp(j)' = Bp(j) /\ Sp(j)' = Sp(j)
    BY <1>4, <1>5
  <2> QED
    BY <1>2, <1>4, <2>2, <2>3, Carried
<1>8. Stacked'
  BY <1>6, <1>7 DEF Stacked
<1>9. Grounded'
  <2>1. Bp(2) = 0 /\ Sp(2) = Temps + 2 /\ 2 \in 1 .. n
    BY <1>4 DEF IInv, Shape, Grounded
  <2> QED
    BY <1>4, <1>5, <2>1 DEF Grounded
<1>10. Room'
  <2>1. ASSUME NEW j \in 2 .. n PROVE Sp(j)' < Len(stack')
    <3>1. j \in 2 .. n + 1 /\ j \in 1 .. n
      BY <1>4
    <3> QED
      BY <1>3, <1>5, <3>1 DEF IInv, Shape, Room, stack_end
  <2>2. Len(stack_frame') + 1 = n
    BY <1>4, <1>5
  <2> QED
    BY <2>1, <2>2 DEF Room, stack_end
<1> QED
  BY <1>1, <1>3, <1>5, <1>6, <1>8, <1>9, <1>10

(* Where the variables of an activation are, and the result of what it calls. *)
LEMMA Slots ==
  ASSUME NEW r, Typed(r), NEW bp, NEW sp, Framed(r, bp, sp)
  PROVE  /\ bp \in Nat /\ sp \in Nat /\ bp <= sp /\ sp >= 2
         /\ bp + ResultSlot(r.fun) \in Nat /\ bp + ResultSlot(r.fun) <= sp
         /\ Temps = 0 \/ r.fun # "method" \/ r.when => bp + ResultSlot(r.fun) = sp
         /\ \A x \in Variables(r.fun) : /\ x \in Nat /\ bp + x \in Nat /\ bp + x >= 1 /\ bp + x < sp
                                        /\ r.fun # "class" => bp + x >= 2
                                        /\ r.fun = "class" => bp = 0 /\ x = 1
         /\ temp_end(r.fun) \in Nat /\ bp + temp_end(r.fun) <= sp
<1>1. Temps \in Nat /\ Params \in {0, 1}
  BY StackAssumption
<1>2. bp \in Nat /\ sp \in Nat
  BY DEF Framed
<1>3. CASE r.fun = "class"
  <2>1. /\ Variables(r.fun) = 1 .. 1 /\ temp_end(r.fun) = Temps + 2 /\ ResultSlot(r.fun) = Temps + 2
        /\ r.fun # "method" /\ r.fun # "function"
    BY <1>3, Layout
  <2>2. bp = 0 /\ sp = Temps + 2
    BY <1>1, <1>2, <2>1 DEF Framed
  <2> QED
    BY <1>1, <1>3, <2>1, <2>2
<1>4. CASE r.fun = "method"
  <2>1. /\ Variables(r.fun) = 2 .. 3 /\ temp_end(r.fun) = 5 /\ ResultSlot(r.fun) = 5
        /\ r.fun # "class" /\ r.fun # "function"
    BY <1>4, Layout
  <2>2. bp = 0 /\ sp = 5 + IF ~r.when THEN Temps ELSE 0
    BY <1>1, <1>2, <1>4, <2>1 DEF Framed
  <2> QED
    BY <1>1, <1>4, <2>1, <2>2
<1>5. CASE r.fun = "function"
  <2>1. /\ Variables(r.fun) = 0 .. Params /\ temp_end(r.fun) = Params + 2 /\ ResultSlot(r.fun) = Params + 2
        /\ r.fun # "class" /\ r.fun # "method"
    BY <1>5, Layout
  <2>2. bp >= 2 /\ sp = bp + (Params + 2)
    BY <1>1, <1>2, <1>5, <2>1 DEF Framed
  <2> QED
    BY <1>1, <1>2, <1>5, <2>1, <2>2
<1> QED
  BY <1>3, <1>4, <1>5 DEF Typed, Functions

(* The activation i and the one that is running. *)
LEMMA Activated ==
  ASSUME IInv, pc # "new", NEW i \in 1 .. Len(running)
  PROVE  /\ running[i] \in Activations /\ Typed(running[i])
         /\ Framed(running[i], Bp(Deep + i), Sp(Deep + i)) /\ Sp(Deep + i) < Len(stack)
<1>1. PICK d : d = Deep
  OBVIOUS
<1>2. PICK m : m = Len(running)
  OBVIOUS
<1>3. d \in Nat /\ d >= 1 /\ m \in Nat /\ Len(stack_frame) + 1 = d + m
  BY <1>1, <1>2, Types, Depth
<1>4. Nested(m, d) /\ running \in Seq(Activations)
  BY <1>1, <1>2 DEF IInv, Shape, Stacked, TypeOK
<1>5. Typed(running[i]) /\ Framed(running[i], Bp(d + i), Sp(d + i)) /\ running[i] \in Activations
  BY <1>2, <1>4, ElementOfSeq DEF Nested
<1>6. d + i \in 2 .. Len(stack_frame) + 1
  BY <1>2, <1>3
<1>7. Sp(d + i) < Len(stack)
  BY <1>6 DEF IInv, Shape, Room, stack_end
<1> QED
  BY <1>1, <1>5, <1>7

LEMMA Running ==
  ASSUME IInv, pc \in {"run", "condition"}
  PROVE  /\ Len(running) >= 1 /\ Top = running[Len(running)]
         /\ Top \in Activations /\ Typed(Top) /\ Framed(Top, stack_base, stack_top)
         /\ stack_top < Len(stack) /\ Len(stack_frame) >= 1
         /\ Bp(Deep + Len(running)) = stack_base /\ Sp(Deep + Len(running)) = stack_top
<1>1. PICK m : m = Len(running)
  OBVIOUS
<1>2. m \in Nat /\ m >= 1 /\ Len(stack_frame) \in Nat /\ Deep \in {1, 2} /\ Len(stack_frame) + 1 = Deep + m
  BY <1>1, Types, Depth DEF IInv, Shape, Active
<1>3. Bp(Deep + m) = stack_base /\ Sp(Deep + m) = stack_top
  BY <1>2 DEF Bp, Sp
<1>4. Top = running[m]
  BY <1>1 DEF Top, Last
<1>5. m \in 1 .. Len(running)
  BY <1>1, <1>2
<1>6. /\ running[m] \in Activations /\ Typed(running[m])
      /\ Framed(running[m], Bp(Deep + m), Sp(Deep + m)) /\ Sp(Deep + m) < Len(stack)
  BY <1>5, Activated
<1> QED
  BY <1>1, <1>2, <1>3, <1>4, <1>6

-----------------------------------------------------------------------------
(* The steps.                                                              *)
LEMMA QuietStep ==
  ASSUME IInv, pc = "run", UNCHANGED <<stack_base, stack_top, stack_frame, pc, when_blocks, at>>,
         stack' \in Seq(Cells), Len(stack') = Len(stack), member' \in Cells,
         running' \in Seq(Activations), Len(running') = Len(running),
         \A i \in 1 .. Len(running) : /\ Typed(running'[i]) /\ running'[i].fun = running[i].fun
                                      /\ running'[i].when = running[i].when
  PROVE  IInv'
<1>1. Len(stack) \in Nat /\ Len(running) \in Nat /\ Len(running) >= 1
  BY Types, Running
<1>2. TypeOK'
  BY DEF IInv, TypeOK
<1>3. Stacked' /\ Grounded' /\ Room' /\ Deep' = Deep
  BY <1>1, SameFrames
<1>4. BlocksFit'
  BY <1>1, SameBlocks
<1>5. New' /\ Idle'
  BY DEF New, Idle
<1>6. Active'
  <2>1. 1 \in 1 .. Len(running)
    BY <1>1
  <2>2. running'[1].fun = running[1].fun /\ running'[1].when = running[1].when
    BY <2>1
  <2>3. Active
    BY DEF IInv, Shape
  <2> QED
    BY <1>3, <2>2, <2>3 DEF Active, Constructing
<1> QED
  BY <1>2, <1>3, <1>4, <1>5, <1>6 DEF IInv, Shape

LEMMA AssignedVariable ==
  ASSUME IInv, pc = "run", NEW x \in Variables(Top.fun), NEW v \in Values, Assigned(x, v)
  PROVE  /\ running' \in Seq(Activations) /\ Len(running') = Len(running) /\ member' \in Cells
         /\ \A i \in 1 .. Len(running) : /\ Typed(running'[i]) /\ running'[i].fun = running[i].fun
                                         /\ running'[i].when = running[i].when
                                         /\ i # Len(running) => running'[i] = running[i]
         /\ Top.fun = "class" => member' = v
         /\ Top.fun # "class" =>
              /\ member' = member
              /\ \A y \in Variables(Top.fun) :
                   running'[Len(running)].vars[y] = IF y = x THEN v ELSE Top.vars[y]
<1>1. PICK n : n = Len(running)
  OBVIOUS
<1>2. n \in Nat /\ n \in 1 .. n /\ Top = running[n] /\ Top \in Activations /\ Typed(Top)
  BY <1>1, Types, Running
<1>3. running \in Seq(Activations) /\ member \in Cells /\ v \in Cells
  BY ZeroCell DEF IInv, TypeOK
<1>4. \A i \in 1 .. n : Typed(running[i])
  BY <1>1, Activated
<1>5. CASE Top.fun = "class"
  <2>1. member' = v /\ running' = running
    BY <1>5 DEF Assigned
  <2> QED
    BY <1>1, <1>3, <1>4, <1>5, <2>1
<1>6. CASE Top.fun # "class"
  <2>1. PICK r : r = Stored(Top, x, v)
    OBVIOUS
  <2>2. member' = member /\ running' = [running EXCEPT ![n] = r]
    BY <1>1, <1>6, <2>1 DEF Assigned
  <2>3. /\ r \in Activations /\ Typed(r) /\ r.fun = Top.fun /\ r.when = Top.when
        /\ \A y \in Variables(Top.fun) : r.vars[y] = IF y = x THEN v ELSE Top.vars[y]
    <3>1. PICK t : t = Top
      OBVIOUS
    <3>2. t \in Activations /\ Typed(t) /\ x \in Variables(t.fun) /\ v \in Cells /\ r = Stored(t, x, v)
      BY <1>2, <1>3, <2>1, <3>1
    <3>3. /\ Stored(t, x, v) \in Activations /\ Typed(Stored(t, x, v))
          /\ Stored(t, x, v).fun = t.fun /\ Stored(t, x, v).when = t.when
          /\ \A y \in Variables(t.fun) : Stored(t, x, v).vars[y] = IF y = x THEN v ELSE t.vars[y]
      BY <3>2, StoredVariable
    <3> QED
      BY <3>1, <3>2, <3>3
  <2>4. /\ running' \in Seq(Activations) /\ Len(running') = n
        /\ \A i \in 1 .. n : running'[i] = IF i = n THEN r ELSE running[i]
    BY <1>1, <1>2, <1>3, <2>2, <2>3, ExceptSeq
  <2>5. running'[n] = r
    BY <1>2, <2>4
  <2>6. ASSUME NEW i \in 1 .. n
        PROVE  /\ Typed(running'[i]) /\ running'[i].fun = running[i].fun
               /\ running'[i].when = running[i].when /\ (i # n => running'[i] = running[i])
    <3>1. CASE i = n
      BY <1>2, <2>3, <2>5, <3>1
    <3>2. CASE i # n
      BY <1>4, <2>4, <3>2
    <3> QED
      BY <3>1, <3>2
  <2>7. \A y \in Variables(Top.fun) : running'[n].vars[y] = IF y = x THEN v ELSE Top.vars[y]
    BY <2>3, <2>5
  <2>8. \A i \in 1 .. n : /\ Typed(running'[i]) /\ running'[i].fun = running[i].fun
                          /\ running'[i].when = running[i].when /\ (i # n => running'[i] = running[i])
    BY <2>6
  <2> QED
    BY <1>1, <1>3, <1>6, <2>2, <2>4, <2>7, <2>8
<1> QED
  BY <1>5, <1>6

LEMMA AssignStep == ASSUME IInv, Assign PROVE IInv'
<1>1. PICK x \in Variables(Top.fun), v \in Values :
        Assigned(x, v) /\ stack' = Write(stack, stack_base + x, v)
  BY DEF Assign
<1>2. pc = "run" /\ UNCHANGED <<stack_base, stack_top, stack_frame, pc, when_blocks, at>>
  BY DEF Assign
<1>3. stack_base + x \in Nat /\ stack_base + x < Len(stack)
  <2>1. Typed(Top) /\ Framed(Top, stack_base, stack_top) /\ stack_top < Len(stack)
    BY <1>2, Running
  <2>2. stack_base + x \in Nat /\ stack_base + x < stack_top /\ stack_top \in Nat
    BY <2>1, Slots
  <2> QED
    BY <2>1, <2>2, Types
<1>4. stack' \in Seq(Cells) /\ Len(stack') = Len(stack)
  <2>1. stack \in Seq(Cells) /\ v \in Cells
    BY ZeroCell DEF IInv, TypeOK
  <2> QED
    BY <1>1, <1>3, <2>1, WriteCells
<1>5. /\ running' \in Seq(Activations) /\ Len(running') = Len(running) /\ member' \in Cells
      /\ \A i \in 1 .. Len(running) : /\ Typed(running'[i]) /\ running'[i].fun = running[i].fun
                                      /\ running'[i].when = running[i].when
  BY <1>1, <1>2, AssignedVariable
<1> QED
  BY <1>2, <1>4, <1>5, QuietStep

LEMMA AssignMemberStep == ASSUME IInv, AssignMember PROVE IInv'
<1>1. PICK v \in Values : member' = v /\ stack' = Write(stack, stack_base + Member, v)
  BY DEF AssignMember
<1>2. /\ pc = "run" /\ Top.fun = "method"
      /\ UNCHANGED <<stack_base, stack_top, stack_frame, pc, running, when_blocks, at>>
  BY DEF AssignMember
<1>3. stack_base + Member \in Nat /\ stack_base + Member < Len(stack)
  <2>1. Typed(Top) /\ Framed(Top, stack_base, stack_top) /\ stack_top < Len(stack)
    BY <1>2, Running
  <2>2. Member = 1 /\ Top.fun # "function"
    BY <1>2, Layout
  <2>3. stack_base = 0 /\ stack_top \in Nat /\ stack_top >= 2
    BY <2>1, <2>2, Slots, SMTT(30) DEF Framed
  <2> QED
    BY <2>1, <2>2, <2>3, Types
<1>4. stack' \in Seq(Cells) /\ Len(stack') = Len(stack) /\ member' \in Cells
  <2>1. stack \in Seq(Cells) /\ v \in Cells
    BY ZeroCell DEF IInv, TypeOK
  <2> QED
    BY <1>1, <1>3, <2>1, WriteCells
<1>5. running \in Seq(Activations) /\ \A i \in 1 .. Len(running) : Typed(running[i])
  BY <1>2, Activated DEF IInv, TypeOK
<1> QED
  BY <1>2, <1>4, <1>5, QuietStep

(* A result goes to the cell of the reference. *)
LEMMA Returned ==
  ASSUME IInv, ReturnValue
  PROVE  /\ pc = "run" /\ Top.fun # "function" /\ stack_base = 0
         /\ UNCHANGED <<stack_base, stack_top, stack_frame, pc, running, when_blocks, at, member>>
         /\ stack' \in Seq(Cells) /\ Len(stack') = Len(stack) /\ Len(stack) > 2
         /\ \A j \in 1 .. Len(stack) - 1 : stack'[j + 1] = stack[j + 1]
<1>1. PICK v \in Values : stack' = Write(stack, stack_base, v)
  BY DEF ReturnValue
<1>2. /\ pc = "run" /\ Top.fun # "function"
      /\ UNCHANGED <<stack_base, stack_top, stack_frame, pc, running, when_blocks, at, member>>
  BY DEF ReturnValue
<1>3. stack_base = 0 /\ stack_top \in Nat /\ stack_top >= 2 /\ stack_top < Len(stack)
  <2>1. Typed(Top) /\ Framed(Top, stack_base, stack_top) /\ stack_top < Len(stack)
    BY <1>2, Running
  <2> QED
    BY <1>2, <2>1, Slots DEF Framed
<1>4. stack \in Seq(Cells) /\ v \in Cells
  BY ZeroCell DEF IInv, TypeOK
<1>5. PICK o : o = 0
  OBVIOUS
<1>6. o \in Nat /\ o < Len(stack) /\ Len(stack) > 2
  BY <1>3, <1>5, Types
<1>7. /\ Write(stack, o, v) \in Seq(Cells) /\ Len(Write(stack, o, v)) = Len(stack)
      /\ \A j \in 0 .. Len(stack) - 1 : Write(stack, o, v)[j + 1] = IF j = o THEN v ELSE stack[j + 1]
  BY <1>4, <1>6, WriteCells
<1>8. stack' = Write(stack, o, v)
  BY <1>1, <1>3, <1>5
<1>9. ASSUME NEW j \in 1 .. Len(stack) - 1 PROVE stack'[j + 1] = stack[j + 1]
  <2>1. j \in 0 .. Len(stack) - 1 /\ j # o
    BY <1>5
  <2> QED
    BY <1>7, <1>8, <2>1
<1> QED
  BY <1>2, <1>3, <1>6, <1>7, <1>8, <1>9

LEMMA ReturnValueStep == ASSUME IInv, ReturnValue PROVE IInv'
<1>1. /\ pc = "run"
      /\ UNCHANGED <<stack_base, stack_top, stack_frame, pc, running, when_blocks, at, member>>
      /\ stack' \in Seq(Cells) /\ Len(stack') = Len(stack)
  BY Returned
<1>2. running \in Seq(Activations) /\ member \in Cells /\ \A i \in 1 .. Len(running) : Typed(running[i])
  BY <1>1, Activated DEF IInv, TypeOK
<1> QED
  BY <1>1, <1>2, QuietStep

LEMMA CCallStep == ASSUME IInv, CCall PROVE IInv'
<1>1. PICK v \in Values, x \in Variables(Top.fun) :
        LET left == Write(stack, stack_top, v) IN
        /\ stack' = Write(left, stack_base + x, left[stack_base + ResultSlot(Top.fun) + 1])
        /\ Assigned(x, v)
  BY DEF CCall
<1>2. pc = "run" /\ UNCHANGED <<stack_base, stack_top, stack_frame, pc, when_blocks, at>>
  BY DEF CCall
<1>3. PICK left : left = Write(stack, stack_top, v)
  OBVIOUS
<1>4. PICK res : res = left[stack_base + ResultSlot(Top.fun) + 1]
  OBVIOUS
<1>5. stack' = Write(left, stack_base + x, res) /\ Assigned(x, v)
  BY <1>1, <1>3, <1>4
<1>6. Typed(Top) /\ Framed(Top, stack_base, stack_top) /\ stack_top < Len(stack)
  BY <1>2, Running
<1>7. /\ stack_base + x \in Nat /\ stack_base + x < stack_top /\ stack_top \in Nat
      /\ stack_base + ResultSlot(Top.fun) \in Nat /\ stack_base + ResultSlot(Top.fun) <= stack_top
  BY <1>6, Slots
<1>8. left \in Seq(Cells) /\ Len(left) = Len(stack)
  <2>1. stack \in Seq(Cells) /\ v \in Cells
    BY ZeroCell DEF IInv, TypeOK
  <2> QED
    BY <1>3, <1>6, <1>7, <2>1, WriteCells
<1>9. res \in Cells
  <2>1. stack_base + ResultSlot(Top.fun) + 1 \in 1 .. Len(left)
    BY <1>6, <1>7, <1>8, Types
  <2> QED
    BY <1>4, <1>8, <2>1, ElementOfSeq
<1>10. stack_base + x < Len(left)
  BY <1>6, <1>7, <1>8, Types
<1>11. stack' \in Seq(Cells) /\ Len(stack') = Len(stack)
  BY <1>5, <1>7, <1>8, <1>9, <1>10, WriteCells
<1>12. /\ running' \in Seq(Activations) /\ Len(running') = Len(running) /\ member' \in Cells
       /\ \A i \in 1 .. Len(running) : /\ Typed(running'[i]) /\ running'[i].fun = running[i].fun
                                       /\ running'[i].when = running[i].when
  BY <1>2, <1>5, AssignedVariable
<1> QED
  BY <1>2, <1>11, <1>12, QuietStep

(* A process that rests, or is between two blocks, is in the frame of its  *)
(* constructor.                                                            *)
LEMMA AtBottom ==
  ASSUME IInv, pc \in {"rest", "scan"}
  PROVE  /\ stack_base = 0 /\ stack_top = Temps + 2 /\ running = << >> /\ Len(running) = 0
         /\ Len(stack_frame) = 1 /\ stack_top < Len(stack)
<1>1. running = << >> /\ Len(stack_frame) = 1
  BY DEF IInv, Shape, Idle
<1>2. Bp(2) = 0 /\ Sp(2) = Temps + 2
  BY DEF IInv, Shape, Grounded
<1>3. Bp(2) = stack_base /\ Sp(2) = stack_top
  BY <1>1 DEF Bp, Sp
<1>4. Sp(2) < Len(stack)
  BY <1>1 DEF IInv, Shape, Room, stack_end
<1> QED
  BY <1>1, <1>2, <1>3, <1>4

LEMMA PushStep ==
  ASSUME IInv, pc # "new", NEW r \in Activations, Typed(r), running' = Append(running, r),
         stack_frame' = Append(stack_frame, [bp |-> stack_base, sp |-> stack_top]),
         Framed(r, stack_base', stack_top'),
         Len(running) > 0 => pc = "run" /\ r.fun = "function" /\ ~r.when /\ stack_base' = stack_top,
         Len(running) = 0 /\ r.fun # "method" => r.when,
         stack' \in Seq(Cells), Len(stack') >= Len(stack), stack_top' < Len(stack'),
         UNCHANGED <<when_blocks, at, member>>, pc' \in {"run", "condition"},
         pc' = "condition" => Len(running) = 0 /\ r.when,
         r.when => at <= Len(when_blocks) /\ (r.fun = "class" => MemberBlocks)
  PROVE  IInv'
<1>1. Len(stack) \in Nat /\ Len(stack') \in Nat /\ Len(running) \in Nat
  BY Types, LenProperties
<1>2. Len(running) = 0 /\ r.fun = "function" => r.when
  OBVIOUS
<1>3. /\ stack_frame' \in Seq(Saved) /\ running' \in Seq(Activations)
      /\ Len(running') = Len(running) + 1 /\ running'[Len(running) + 1] = r
      /\ \A i \in 1 .. Len(running) : running'[i] = running[i]
      /\ Deep' = Deep /\ Stacked' /\ Grounded' /\ Room'
  BY <1>1, <1>2, PushedFrame
<1>4. stack_base' \in Nat /\ stack_top' \in Nat
  BY DEF Framed
<1>5. TypeOK'
  BY <1>3, <1>4 DEF IInv, TypeOK, Saved
<1>6. BlocksFit'
  BY <1>1, SameBlocks
<1>7. New' /\ Idle'
  BY DEF New, Idle
<1>8. Active'
  <2>1. Len(running') >= 1 /\ (Len(running) = 0 => Len(running') = 1)
    BY <1>1, <1>3
  <2>2. CASE Len(running) = 0
    <3>1. running'[1] = r /\ Deep = 2
      BY <1>3, <2>2, Depth
    <3>2. ~Constructing'
      BY <2>2, <3>1 DEF Constructing
    <3> QED
      BY <1>3, <2>1, <2>2, <3>1, <3>2 DEF Active
  <2>3. CASE Len(running) # 0
    <3>1. Len(running) > 0 /\ 1 \in 1 .. Len(running)
      BY <1>1, <2>3
    <3>2. running'[1] = running[1]
      BY <1>3, <3>1
    <3>3. Deep = IF Constructing THEN 1 ELSE 2
      BY <3>1 DEF IInv, Shape, Active
    <3>4. running[1].when => at <= Len(when_blocks) /\ (running[1].fun = "class" => MemberBlocks)
      BY <3>1 DEF IInv, Shape, Active
    <3>5. pc' # "condition"
      BY <2>3
    <3> QED
      BY <1>3, <2>1, <3>2, <3>3, <3>4, <3>5 DEF Active, Constructing
  <2> QED
    BY <2>2, <2>3
<1> QED
  BY <1>3, <1>5, <1>6, <1>7, <1>8 DEF IInv, Shape

LEMMA NoticeStep == ASSUME IInv, Notice PROVE IInv'
<1>1. /\ pc = "rest" /\ pc' = "scan" /\ at' = 1
      /\ UNCHANGED <<stack, stack_base, stack_top, stack_frame, running, when_blocks, member>>
  BY DEF Notice
<1>2. TypeOK'
  BY <1>1 DEF IInv, TypeOK
<1>3. Stacked' /\ Grounded' /\ Room'
  BY <1>1, AtBottom, Types, SameFrames
<1>4. BlocksFit'
  BY <1>1, Types, SameBlocks
<1>5. New' /\ Idle' /\ Active'
  BY <1>1 DEF New, Idle, Active, IInv, Shape
<1> QED
  BY <1>2, <1>3, <1>4, <1>5 DEF IInv, Shape

LEMMA ScanDoneStep == ASSUME IInv, ScanDone PROVE IInv'
<1>1. /\ pc = "scan" /\ pc' = "rest"
      /\ UNCHANGED <<stack, stack_base, stack_top, stack_frame, running, when_blocks, at, member>>
  BY DEF ScanDone
<1>2. TypeOK'
  BY <1>1 DEF IInv, TypeOK
<1>3. Stacked' /\ Grounded' /\ Room'
  BY <1>1, AtBottom, Types, SameFrames
<1>4. BlocksFit'
  BY <1>1, Types, SameBlocks
<1>5. New' /\ Idle' /\ Active'
  BY <1>1 DEF New, Idle, Active, IInv, Shape
<1> QED
  BY <1>2, <1>3, <1>4, <1>5 DEF IInv, Shape

LEMMA ConditionTrueStep == ASSUME IInv, ConditionTrue PROVE IInv'
<1>1. /\ pc = "condition" /\ pc' = "run"
      /\ UNCHANGED <<stack, stack_base, stack_top, stack_frame, running, when_blocks, at, member>>
  BY DEF ConditionTrue
<1>2. TypeOK'
  BY <1>1 DEF IInv, TypeOK
<1>3. \A i \in 1 .. Len(running) : Typed(running[i])
  BY <1>1, Activated
<1>4. Stacked' /\ Grounded' /\ Room' /\ Deep' = Deep
  BY <1>1, <1>3, Types, SameFrames
<1>5. BlocksFit'
  BY <1>1, Types, SameBlocks
<1>6. New' /\ Idle' /\ Active'
  BY <1>1, <1>4 DEF New, Idle, Active, Constructing, IInv, Shape
<1> QED
  BY <1>2, <1>4, <1>5, <1>6 DEF IInv, Shape

LEMMA ConstructorReturnStep == ASSUME IInv, ConstructorReturn PROVE IInv'
<1>1. /\ pc = "run" /\ Len(running) = 1 /\ Top.fun = "class" /\ ~Top.when
      /\ running' = << >> /\ pc' = "rest"
      /\ UNCHANGED <<stack, stack_base, stack_top, stack_frame, when_blocks, at, member>>
  BY DEF ConstructorReturn
<1>2. TypeOK'
  BY <1>1 DEF IInv, TypeOK
<1>3. Len(stack_frame) = 1
  <2>1. Constructing
    BY <1>1 DEF Constructing, Top, Last
  <2>2. Deep = 1 /\ Len(stack_frame) \in Nat
    BY <1>1, <2>1, Types DEF IInv, Shape, Active
  <2> QED
    BY <1>1, <2>2 DEF Deep
<1>4. Stacked'
  BY <1>1, NoneRunning
<1>5. Grounded' /\ Room'
  BY <1>1 DEF IInv, Shape, Grounded, Room, Bp, Sp, stack_end
<1>6. BlocksFit'
  BY <1>1, Types, SameBlocks
<1>7. New' /\ Idle' /\ Active'
  BY <1>1, <1>3 DEF New, Idle, Active
<1> QED
  BY <1>2, <1>4, <1>5, <1>6, <1>7 DEF IInv, Shape

LEMMA WhenRegisterStep == ASSUME IInv, WhenRegister PROVE IInv'
<1>1. /\ pc = "run" /\ (Top.fun = "class" => MemberBlocks)
      /\ UNCHANGED <<stack, stack_base, stack_top, stack_frame, pc, running, at, member>>
  BY DEF WhenRegister
<1>2. PICK e : e = [x \in Variables(Top.fun) |-> Captured(x)]
  OBVIOUS
<1>3. PICK b : b = [fun |-> Top.fun, base_offset |-> stack_base, vars |-> Top.vars, state |-> e]
  OBVIOUS
<1>4. when_blocks' = Append(when_blocks, b)
  BY <1>2, <1>3 DEF WhenRegister
<1>5. /\ Top \in Activations /\ Typed(Top) /\ Framed(Top, stack_base, stack_top)
      /\ stack_top < Len(stack) /\ Len(stack) \in Nat
  BY <1>1, Running, Types
<1>6. /\ \A x \in Variables(Top.fun) : x \in Nat /\ stack_base + x \in Nat /\ stack_base + x < stack_top
      /\ temp_end(Top.fun) \in Nat /\ stack_base + temp_end(Top.fun) <= stack_top
      /\ stack_base \in Nat /\ stack_top \in Nat
  BY <1>5, Slots
<1>7. e \in [Variables(Top.fun) -> Cells]
  <2>1. ASSUME NEW x \in Variables(Top.fun) PROVE Captured(x) \in Cells
    <3>1. stack \in Seq(Cells)
      BY DEF IInv, TypeOK
    <3>2. stack_base + x + 1 \in 1 .. Len(stack)
      BY <1>5, <1>6
    <3> QED
      BY <3>1, <3>2, ElementOfSeq DEF Captured, Cell
  <2> QED
    BY <1>2, <2>1
<1>8. b \in BlockRecords
  <2>1. Top.fun \in Functions /\ Top.vars \in [Variables(Top.fun) -> Cells]
    BY <1>5 DEF Typed
  <2>2. Top.vars \in Environments /\ e \in Environments
    BY <1>7, <2>1, Environment
  <2> QED
    BY <1>3, <1>6, <2>1, <2>2 DEF BlockRecords
<1>9. PICK n : n = Len(when_blocks)
  OBVIOUS
<1>10. when_blocks \in Seq(BlockRecords) /\ n \in Nat
  BY <1>9, Types DEF IInv, TypeOK
<1>11. /\ when_blocks' \in Seq(BlockRecords) /\ Len(when_blocks') = n + 1 /\ when_blocks'[n + 1] = b
       /\ \A k \in 1 .. n : when_blocks'[k] = when_blocks[k]
  BY <1>4, <1>8, <1>9, <1>10, AppendProperties
<1>12. TypeOK'
  BY <1>1, <1>11 DEF IInv, TypeOK
<1>13. Enclosed(b, Len(stack))
  <2>1. Top.fun \in Functions /\ Top.vars \in [Variables(Top.fun) -> Cells]
    BY <1>5 DEF Typed
  <2>2. IF Top.fun = "function" THEN stack_base >= 2 ELSE stack_base = 0
    BY <1>5 DEF Framed
  <2>3. stack_base + temp_end(Top.fun) < Len(stack)
    BY <1>5, <1>6
  <2> QED
    BY <1>1, <1>3, <1>6, <1>7, <2>1, <2>2, <2>3 DEF Enclosed
<1>14. BlocksFit'
  <2>1. ASSUME NEW k \in 1 .. n + 1 PROVE Enclosed(when_blocks'[k], Len(stack))
    <3>1. CASE k = n + 1
      BY <1>11, <1>13, <3>1
    <3>2. CASE k # n + 1
      <4>1. k \in 1 .. n
        BY <1>10, <3>2
      <4>2. Enclosed(when_blocks[k], Len(stack))
        BY <1>9, <4>1 DEF IInv, Shape, BlocksFit, stack_end
      <4> QED
        BY <1>11, <4>1, <4>2
    <3> QED
      BY <3>1, <3>2
  <2> QED
    BY <1>1, <1>11, <2>1 DEF BlocksFit, stack_end, Enclosed
<1>15. \A i \in 1 .. Len(running) : Typed(running[i])
  BY <1>1, Activated
<1>16. Stacked' /\ Grounded' /\ Room' /\ Deep' = Deep
  BY <1>1, <1>5, <1>15, SameFrames
<1>17. New' /\ Idle'
  BY <1>1 DEF New, Idle
<1>18. Active'
  <2>1. Active /\ at \in Nat /\ n <= Len(when_blocks') /\ Len(when_blocks') \in Nat
    BY <1>10, <1>11 DEF IInv, Shape, TypeOK
  <2>2. at <= Len(when_blocks) => at <= Len(when_blocks')
    BY <1>9, <1>10, <2>1
  <2> QED
    BY <1>1, <1>16, <2>1, <2>2 DEF Active, Constructing
<1> QED
  BY <1>12, <1>14, <1>16, <1>17, <1>18 DEF IInv, Shape

LEMMA ConstructStep == ASSUME IInv, Construct PROVE IInv'
<1>1. pc = "new" /\ pc' = "run" /\ UNCHANGED <<when_blocks, at, member>>
  BY DEF Construct
<1>2. /\ stack = << >> /\ stack_base = 0 /\ stack_top = 0 /\ stack_frame = << >>
      /\ running = << >> /\ when_blocks = << >> /\ member = 0
  BY <1>1 DEF IInv, Shape, New
<1>3. storage_requirement("class") = Temps + 2 /\ temp_end("class") = Temps + 2 /\ Temps \in Nat
  BY Layout, StackAssumption
<1>4. TopFor("class", FALSE) = Temps + 2 /\ BaseFor("class", FALSE) = 0
  BY <1>2, <1>3 DEF TopFor, BaseFor
<1>5. PICK r : r = Activation("class", << >>)
  OBVIOUS
<1>6. r \in Activations /\ Typed(r) /\ r.fun = "class" /\ ~r.when
  <2>1. "class" \in Functions /\ \A x \in DOMAIN << >> : << >>[x] \in Cells
    BY DEF Functions
  <2> QED
    BY <1>5, <2>1, MadeActivation
<1>7. /\ stack_base' = 0 /\ stack_top' = Temps + 2 /\ running' = <<r>>
      /\ stack_frame' = Append(stack_frame, [bp |-> stack_base, sp |-> stack_top])
      /\ stack' = Write(Grown(Temps + 2), 0, This)
  BY <1>4, <1>5 DEF Construct, SetupStackFrame
<1>8. stack' \in Seq(Cells) /\ Len(stack') \in Nat /\ Len(stack') > Temps + 2
  <2>1. PICK g : g = Grown(Temps + 2)
    OBVIOUS
  <2>2. g \in Seq(Cells) /\ Len(g) \in Nat /\ Len(g) > Temps + 2
    BY <1>3, <2>1, GrownCells DEF IInv, TypeOK
  <2>3. Write(g, 0, This) \in Seq(Cells) /\ Len(Write(g, 0, This)) = Len(g)
    <3>1. 0 \in Nat /\ 0 < Len(g) /\ This \in Cells /\ g \in Seq(Cells)
      BY <1>3, <2>2, ZeroCell
    <3> QED
      BY <3>1, WriteCells
  <2> QED
    BY <1>7, <2>1, <2>2, <2>3
<1>9. /\ stack_frame' \in Seq(Saved) /\ Len(stack_frame') = 1
      /\ Bp(2)' = 0 /\ Sp(2)' = Temps + 2
  <2>1. PICK n : n = Len(stack_frame)
    OBVIOUS
  <2>2. n = 0
    BY <1>2, <2>1
  <2>3. /\ stack_frame' \in Seq(Saved) /\ Len(stack_frame') = n + 1
        /\ Bp(n + 2)' = stack_base' /\ Sp(n + 2)' = stack_top'
    BY <1>7, <2>1, Types, Push
  <2> QED
    BY <1>7, <2>2, <2>3
<1>10. running' \in Seq(Activations) /\ Len(running') = 1 /\ running'[1] = r
  BY <1>6, <1>7
<1>11. Deep' = 1 /\ Constructing'
  BY <1>6, <1>9, <1>10 DEF Deep, Constructing
<1>12. Stacked'
  <2>1. Nested(0, 1)'
    BY DEF Nested
  <2>2. Framed(r, Bp(2)', Sp(2)')
    BY <1>3, <1>6, <1>9 DEF Framed
  <2>3. 1 + (0 + 1) = 2 /\ 0 + 1 = 1
    OBVIOUS
  <2>4. Nested(0 + 1, 1)'
    BY <1>6, <1>10, <2>1, <2>2, <2>3, OneMore, SMTT(30)
  <2> QED
    BY <1>10, <1>11, <2>4 DEF Stacked
<1>13. Grounded' /\ Room'
  <2>1. \A j \in 2 .. 2 : j = 2
    OBVIOUS
  <2> QED
    BY <1>8, <1>9, <2>1 DEF Grounded, Room, stack_end
<1>14. New' /\ Idle' /\ Active'
  BY <1>1, <1>6, <1>10, <1>11 DEF New, Idle, Active
<1>15. BlocksFit'
  BY <1>1, <1>2 DEF BlocksFit
<1>16. TypeOK'
  BY <1>1, <1>3, <1>7, <1>8, <1>9, <1>10 DEF IInv, TypeOK, Saved
<1> QED
  BY <1>12, <1>13, <1>14, <1>15, <1>16 DEF IInv, Shape

(* A frame for r comes, and f is copied into it. *)
Pushed(r, f, top) ==
  /\ r \in Activations /\ Typed(r) /\ running' = Append(running, r)
  /\ stack_frame' = Append(stack_frame, [bp |-> stack_base, sp |-> stack_top])
  /\ Framed(r, stack_base', stack_top')
  /\ top \in Nat /\ f \in [Variables(r.fun) -> Cells] /\ stack' = Overlay(Grown(top), stack_base', f)
  /\ stack' \in Seq(Cells) /\ Len(stack') >= Len(stack) /\ stack_top' < Len(stack')

LEMMA MessagePush ==
  ASSUME IInv, Message
  PROVE  \E r, top : Pushed(r, r.vars, top) /\ r.fun = "method" /\ ~r.when
<1>1. pc = "rest" /\ pc' = "run" /\ UNCHANGED <<when_blocks, at, member>>
  BY DEF Message
<1>2. /\ stack_base = 0 /\ stack_top = Temps + 2 /\ running = << >> /\ Len(running) = 0
      /\ stack_top < Len(stack)
  BY <1>1, AtBottom
<1>3. /\ storage_requirement("method") = 3 /\ temp_end("method") = 5 /\ Temps \in Nat
      /\ parameters_start("method") = 2
  BY Layout, StackAssumption
<1>4. TopFor("method", FALSE) = Temps + 5 /\ BaseFor("method", FALSE) = 0
  BY <1>2, <1>3 DEF TopFor, BaseFor
<1>5. PICK v \in Values :
        LET r == Activation("method", [x \in {parameters_start("method")} |-> v]) IN
        /\ running' = <<r>>
        /\ stack' = Overlay(Grown(TopFor("method", FALSE)), BaseFor("method", FALSE), r.vars)
  BY DEF Message
<1>6. PICK r : r = Activation("method", [x \in {parameters_start("method")} |-> v])
  OBVIOUS
<1>7. r \in Activations /\ Typed(r) /\ r.fun = "method" /\ ~r.when
  <2>1. PICK a : a = [x \in {parameters_start("method")} |-> v]
    OBVIOUS
  <2>2. "method" \in Functions /\ \A x \in DOMAIN a : a[x] \in Cells
    BY <2>1, ZeroCell DEF Functions
  <2> QED
    BY <1>6, <2>1, <2>2, MadeActivation
<1>8. /\ stack_base' = 0 /\ stack_top' = Temps + 5 /\ running' = <<r>>
      /\ stack_frame' = Append(stack_frame, [bp |-> stack_base, sp |-> stack_top])
      /\ stack' = Overlay(Grown(Temps + 5), 0, r.vars)
  BY <1>4, <1>5, <1>6 DEF Message, SetupStackFrame
<1>9. stack' \in Seq(Cells) /\ Len(stack') >= Len(stack) /\ Len(stack') > Temps + 5
  <2>1. PICK g : g = Grown(Temps + 5)
    OBVIOUS
  <2>2. g \in Seq(Cells) /\ Len(g) >= Len(stack) /\ Len(g) > Temps + 5
    BY <1>3, <2>1, GrownCells DEF IInv, TypeOK
  <2>3. PICK D, f : f = r.vars /\ f \in [D -> Cells]
    BY <1>7 DEF Typed
  <2>4. Overlay(g, 0, f) \in Seq(Cells) /\ Len(Overlay(g, 0, f)) = Len(g)
    <3>1. PICK o : o = 0
      OBVIOUS
    <3>2. o \in Nat /\ g \in Seq(Cells) /\ f \in [D -> Cells]
      BY <2>2, <2>3, <3>1
    <3>3. Overlay(g, o, f) \in Seq(Cells) /\ Len(Overlay(g, o, f)) = Len(g)
      BY <3>2, OverlayCells
    <3> QED
      BY <3>1, <3>3
  <2> QED
    BY <1>8, <2>1, <2>2, <2>3, <2>4
<1>10. Framed(r, stack_base', stack_top')
  BY <1>3, <1>7, <1>8 DEF Framed
<1>11. running' = Append(running, r)
  BY <1>2, <1>8
<1>12. r.vars \in [Variables(r.fun) -> Cells] /\ Temps + 5 \in Nat
  BY <1>3, <1>7 DEF Typed
<1>13. Pushed(r, r.vars, Temps + 5)
  BY <1>7, <1>8, <1>9, <1>10, <1>11, <1>12 DEF Pushed
<1> QED
  BY <1>7, <1>13

LEMMA MessageStep == ASSUME IInv, Message PROVE IInv'
<1>1. pc = "rest" /\ pc' = "run" /\ UNCHANGED <<when_blocks, at, member>>
  BY DEF Message
<1>2. Len(running) = 0
  BY <1>1, AtBottom
<1>3. PICK r, top : Pushed(r, r.vars, top) /\ r.fun = "method" /\ ~r.when
  BY MessagePush
<1> QED
  BY <1>1, <1>2, <1>3, PushStep DEF Pushed

PushedCall(r, f, top) == /\ Pushed(r, f, top) /\ r.fun = "function" /\ ~r.when
                         /\ stack_base' = stack_top
                         /\ Params = 0 => f = r.vars

LEMMA FunctionCallPush ==
  ASSUME IInv, FunctionCall
  PROVE  \E r, f, top : PushedCall(r, f, top)
<1>1. pc = "run" /\ pc' = "run" /\ UNCHANGED <<when_blocks, at, member>>
  BY DEF FunctionCall
<1>2. PICK x \in Variables(Top.fun) :
        \E read \in IF Grows("function", FALSE) THEN Cells ELSE {Cell(stack_base + x)} :
          LET start == parameters_start("function")
              r(v) == Activation("function", IF Params = 1 THEN [y \in {start} |-> v] ELSE << >>)
          IN /\ running' = Append(running, r(Sees(Top, x)))
             /\ stack' = Overlay(Grown(TopFor("function", FALSE)),
                                 BaseFor("function", FALSE), r(read).vars)
  BY DEF FunctionCall
<1> DEFINE Args(v) == IF Params = 1 THEN [y \in {parameters_start("function")} |-> v] ELSE << >>
           Called(v) == Activation("function", Args(v))
<1>3. PICK read \in IF Grows("function", FALSE) THEN Cells ELSE {Cell(stack_base + x)} :
        /\ running' = Append(running, Called(Sees(Top, x)))
        /\ stack' = Overlay(Grown(TopFor("function", FALSE)), BaseFor("function", FALSE), Called(read).vars)
  BY <1>2
<1>4. /\ Len(running) >= 1 /\ Top \in Activations /\ Typed(Top) /\ Framed(Top, stack_base, stack_top)
      /\ stack_top < Len(stack) /\ Len(stack) \in Nat
  BY <1>1, Running, Types
<1>5. /\ stack_base \in Nat /\ stack_top \in Nat /\ stack_top >= 2
      /\ stack_base + x \in Nat /\ stack_base + x < stack_top
  BY <1>4, Slots
<1>6. read \in Cells
  <2>1. stack_base + x + 1 \in 1 .. Len(stack) /\ stack \in Seq(Cells)
    BY <1>4, <1>5 DEF IInv, TypeOK
  <2>2. Cell(stack_base + x) \in Cells
    BY <2>1, ElementOfSeq DEF Cell
  <2> QED
    BY <1>3, <2>2
<1>7. Sees(Top, x) \in Cells
  <2>1. member \in Cells /\ Top.vars \in [Variables(Top.fun) -> Cells]
    BY <1>4 DEF IInv, TypeOK, Typed
  <2> QED
    BY <2>1 DEF Sees
<1>8. ASSUME NEW v \in Cells
      PROVE  /\ Called(v) \in Activations /\ Typed(Called(v)) /\ Called(v).fun = "function" /\ ~Called(v).when
  <2>1. PICK a : a = Args(v)
    OBVIOUS
  <2>2. "function" \in Functions /\ \A y \in DOMAIN a : a[y] \in Cells
    BY <1>8, <2>1 DEF Functions
  <2> QED
    BY <2>1, <2>2, MadeActivation
<1> HIDE DEF Called
<1>9. PICK r : r = Called(Sees(Top, x))
  OBVIOUS
<1>10. r \in Activations /\ Typed(r) /\ r.fun = "function" /\ ~r.when
  BY <1>7, <1>8, <1>9
<1>11. /\ storage_requirement("function") = Params + 2 /\ temp_end("function") = Params + 2
       /\ Params \in Nat /\ Temps \in Nat
  BY Layout, StackAssumption
<1>12. TopFor("function", FALSE) = stack_top + (Params + 2) /\ BaseFor("function", FALSE) = stack_top
  BY <1>11 DEF TopFor, BaseFor
<1>13. /\ stack_base' = stack_top /\ stack_top' = stack_top + (Params + 2)
       /\ stack_frame' = Append(stack_frame, [bp |-> stack_base, sp |-> stack_top])
  BY <1>12 DEF FunctionCall, SetupStackFrame
<1>14. PICK t : t = stack_top + (Params + 2)
  OBVIOUS
<1>15. stack' \in Seq(Cells) /\ Len(stack') >= Len(stack) /\ Len(stack') > t
  <2>1. PICK g : g = Grown(t)
    OBVIOUS
  <2>2. t \in Nat
    BY <1>5, <1>11, <1>14
  <2>3. g \in Seq(Cells) /\ Len(g) >= Len(stack) /\ Len(g) > t
    BY <2>1, <2>2, GrownCells DEF IInv, TypeOK
  <2>4. PICK D, f : f = Called(read).vars /\ f \in [D -> Cells]
    BY <1>6, <1>8 DEF Typed
  <2>5. Overlay(g, stack_top, f) \in Seq(Cells) /\ Len(Overlay(g, stack_top, f)) = Len(g)
    <3>1. PICK o : o = stack_top
      OBVIOUS
    <3>2. o \in Nat /\ g \in Seq(Cells) /\ f \in [D -> Cells]
      BY <1>5, <2>3, <2>4, <3>1
    <3>3. Overlay(g, o, f) \in Seq(Cells) /\ Len(Overlay(g, o, f)) = Len(g)
      BY <3>2, OverlayCells
    <3> QED
      BY <3>1, <3>3
  <2>6. stack' = Overlay(g, stack_top, f)
    BY <1>3, <1>12, <1>14, <2>1, <2>4
  <2> QED
    BY <2>3, <2>5, <2>6
<1>17. Framed(r, stack_base', stack_top')
  BY <1>5, <1>10, <1>11, <1>13 DEF Framed
<1>18. running' = Append(running, r)
  BY <1>3, <1>9
<1>19. Called(read).vars \in [Variables(r.fun) -> Cells] /\ t \in Nat
  BY <1>5, <1>6, <1>8, <1>10, <1>11, <1>14 DEF Typed
<1>20. stack' = Overlay(Grown(t), stack_base', Called(read).vars)
  BY <1>3, <1>12, <1>13, <1>14
<1>21. stack_top' < Len(stack')
  BY <1>13, <1>14, <1>15
<1>22. Pushed(r, Called(read).vars, t)
  BY <1>10, <1>13, <1>15, <1>17, <1>18, <1>19, <1>20, <1>21 DEF Pushed
<1>23. Params = 0 => Called(read) = r
  <2>1. Params = 0 => Args(read) = Args(Sees(Top, x))
    OBVIOUS
  <2> QED
    BY <1>9, <2>1 DEF Called
<1> QED
  BY <1>10, <1>13, <1>22, <1>23 DEF PushedCall

LEMMA FunctionCallStep == ASSUME IInv, FunctionCall PROVE IInv'
<1>1. pc = "run" /\ pc' = "run" /\ UNCHANGED <<when_blocks, at, member>>
  BY DEF FunctionCall
<1>2. Len(running) >= 1 /\ Len(running) \in Nat
  BY <1>1, Running, Types
<1>3. PICK r, f, top : PushedCall(r, f, top)
  BY FunctionCallPush
<1> QED
  BY <1>1, <1>2, <1>3, PushStep DEF Pushed, PushedCall

PushedBlock(b, r, top) == /\ b = when_blocks[at] /\ Pushed(r, b.state, top)
                          /\ r.fun = b.fun /\ r.when /\ r.vars = b.vars
                          /\ r.fun = "class" => MemberBlocks

LEMMA EvaluatePush ==
  ASSUME IInv, Evaluate
  PROVE  \E b, r, top : PushedBlock(b, r, top)
<1>1. /\ pc = "scan" /\ at <= Len(when_blocks) /\ pc' = "condition"
      /\ UNCHANGED <<when_blocks, at, member>>
  BY DEF Evaluate
<1>2. /\ stack_base = 0 /\ stack_top = Temps + 2 /\ running = << >> /\ Len(running) = 0
  BY <1>1, AtBottom
<1>3. PICK b : b = when_blocks[at]
  OBVIOUS
<1>4. Enclosed(b, Len(stack))
  <2>1. at \in 1 .. Len(when_blocks)
    BY <1>1, Types DEF IInv, TypeOK
  <2> QED
    BY <1>3, <2>1 DEF IInv, Shape, BlocksFit, stack_end
<1>5. /\ b.fun \in Functions /\ b.base_offset \in Nat
      /\ b.vars \in [Variables(b.fun) -> Cells] /\ b.state \in [Variables(b.fun) -> Cells]
      /\ IF b.fun = "function" THEN b.base_offset >= 2 ELSE b.base_offset = 0
      /\ b.base_offset + temp_end(b.fun) < Len(stack)
      /\ b.fun = "class" => MemberBlocks
  BY <1>4 DEF Enclosed
<1>6. PICK t : t = temp_end(b.fun)
  OBVIOUS
<1>7. t \in Nat
  BY <1>5, <1>6, Layout, StackAssumption DEF Functions
<1>8. TopFor(b.fun, TRUE) = t /\ BaseFor(b.fun, TRUE) = 0
  BY <1>2, <1>6, <1>7 DEF TopFor, BaseFor
<1>9. PICK r : r = [fun |-> b.fun, when |-> TRUE, vars |-> b.vars]
  OBVIOUS
<1>10. r \in Activations /\ Typed(r)
  BY <1>5, <1>9, NewActivation
<1>11. r.fun = b.fun /\ r.when = TRUE
  BY <1>9
<1>12. /\ stack_frame' = Append(stack_frame, [bp |-> stack_base, sp |-> stack_top])
       /\ stack_base' = b.base_offset /\ stack_top' = t + (b.base_offset - 0)
       /\ stack' = Overlay(Grown(t), b.base_offset, b.state) /\ running' = <<r>>
  BY <1>3, <1>8, <1>9 DEF Evaluate, Applied
<1>13. stack_top' = b.base_offset + t
  BY <1>5, <1>7, <1>12
<1>14. stack' \in Seq(Cells) /\ Len(stack') >= Len(stack) /\ Len(stack') \in Nat
  <2>1. PICK g : g = Grown(t)
    OBVIOUS
  <2>2. g \in Seq(Cells) /\ Len(g) >= Len(stack) /\ Len(g) \in Nat
    BY <1>7, <2>1, GrownCells DEF IInv, TypeOK
  <2>3. PICK D, f : f = b.state /\ f \in [D -> Cells]
    BY <1>5
  <2>4. PICK o : o = b.base_offset
    OBVIOUS
  <2>5. o \in Nat
    BY <1>5, <2>4
  <2>6. Overlay(g, o, f) \in Seq(Cells) /\ Len(Overlay(g, o, f)) = Len(g)
    BY <2>2, <2>3, <2>5, OverlayCells
  <2> QED
    BY <1>12, <2>1, <2>2, <2>3, <2>4, <2>6
<1>15. stack_top' < Len(stack')
  BY <1>5, <1>6, <1>7, <1>13, <1>14, Types
<1>16. Framed(r, stack_base', stack_top')
  <2>1. IF r.fun = "function" THEN stack_base' >= 2 ELSE stack_base' = 0
    BY <1>5, <1>11, <1>12
  <2>2. stack_base' \in Nat /\ stack_top' \in Nat
    BY <1>5, <1>7, <1>12, <1>13
  <2>3. stack_top' = stack_base' + temp_end(r.fun) + 0
    BY <1>5, <1>6, <1>7, <1>11, <1>12, <1>13
  <2>4. ~(r.fun = "method" /\ ~r.when)
    BY <1>11
  <2> QED
    BY <2>1, <2>2, <2>3, <2>4 DEF Framed
<1>17. running' = Append(running, r)
  BY <1>2, <1>12
<1>18. stack' = Overlay(Grown(t), stack_base', b.state)
  BY <1>12
<1>19. b.state \in [Variables(r.fun) -> Cells]
  BY <1>5, <1>11
<1>20. Pushed(r, b.state, t)
  BY <1>7, <1>10, <1>12, <1>14, <1>15, <1>16, <1>17, <1>18, <1>19 DEF Pushed
<1>21. r.when /\ r.vars = b.vars
  BY <1>9
<1> QED
  BY <1>3, <1>5, <1>11, <1>20, <1>21 DEF PushedBlock

LEMMA EvaluateStep == ASSUME IInv, Evaluate PROVE IInv'
<1>1. /\ pc = "scan" /\ at <= Len(when_blocks) /\ pc' = "condition"
      /\ UNCHANGED <<when_blocks, at, member>>
  BY DEF Evaluate
<1>2. Len(running) = 0
  BY <1>1, AtBottom
<1>3. PICK b, r, top : PushedBlock(b, r, top)
  BY EvaluatePush
<1> QED
  BY <1>1, <1>2, <1>3, PushStep DEF Pushed, PushedBlock

(* The last activation ends.                                               *)
LEMMA Unwound ==
  ASSUME IInv, pc \in {"run", "condition"}, Len(running) = 1, running[1].when \/ running[1].fun # "class",
         PopStackFrame, running' = << >>, pc' = "scan",
         stack' \in Seq(Cells), Len(stack') = Len(stack)
  PROVE  /\ stack_frame' \in Seq(Saved) /\ stack_base' \in Nat /\ stack_top' \in Nat
         /\ Stacked' /\ Grounded' /\ Room' /\ New' /\ Idle' /\ Active'
<1>1. ~Constructing /\ Deep = 2
  BY DEF Constructing, IInv, Shape, Active
<1>2. Len(stack_frame) = 2
  <2>1. PICK n : n = Len(stack_frame)
    OBVIOUS
  <2>2. n \in Nat /\ n + 1 = 2 + 1
    BY <1>1, <2>1, Depth, Types
  <2> QED
    BY <2>1, <2>2
<1>3. Len(running') = Len(running) - 1 /\ 1 .. Len(running) - 1 = {}
  OBVIOUS
<1>4. Len(stack_frame) >= 2
  BY <1>2
<1>5. /\ stack_frame' \in Seq(Saved) /\ stack_base' \in Nat /\ stack_top' \in Nat
      /\ Len(stack_frame') = Len(stack_frame) - 1 /\ Stacked' /\ Grounded' /\ Room'
  BY <1>3, <1>4, PoppedFrame
<1>6. New' /\ Idle' /\ Active'
  BY <1>2, <1>5 DEF New, Idle, Active
<1> QED
  BY <1>5, <1>6

LEMMA MethodReturnStep == ASSUME IInv, MethodReturn PROVE IInv'
<1>1. /\ pc = "run" /\ Len(running) = 1 /\ Top.fun = "method" /\ ~Top.when
      /\ PopStackFrame /\ running' = << >> /\ pc' = "scan" /\ at' = 1
      /\ UNCHANGED <<stack, when_blocks, member>>
  BY DEF MethodReturn
<1>2. stack' \in Seq(Cells) /\ Len(stack') = Len(stack)
  BY <1>1 DEF IInv, TypeOK
<1>3. running[1].fun # "class"
  BY <1>1 DEF Top, Last
<1>4. /\ stack_frame' \in Seq(Saved) /\ stack_base' \in Nat /\ stack_top' \in Nat
      /\ Stacked' /\ Grounded' /\ Room' /\ New' /\ Idle' /\ Active'
  BY <1>1, <1>2, <1>3, Unwound
<1>5. BlocksFit'
  BY <1>1, <1>2, Types, SameBlocks
<1>6. TypeOK'
  BY <1>1, <1>2, <1>4 DEF IInv, TypeOK, Saved
<1> QED
  BY <1>4, <1>5, <1>6 DEF IInv, Shape

LEMMA ConditionFalseStep == ASSUME IInv, ConditionFalse PROVE IInv'
<1>1. /\ pc = "condition" /\ PopStackFrame /\ running' = << >> /\ pc' = "scan" /\ at' = at + 1
      /\ UNCHANGED <<stack, when_blocks, member>>
  BY DEF ConditionFalse
<1>2. stack' \in Seq(Cells) /\ Len(stack') = Len(stack)
  BY <1>1 DEF IInv, TypeOK
<1>3. Len(running) = 1 /\ running[1].when
  BY <1>1 DEF IInv, Shape, Active
<1>4. /\ stack_frame' \in Seq(Saved) /\ stack_base' \in Nat /\ stack_top' \in Nat
      /\ Stacked' /\ Grounded' /\ Room' /\ New' /\ Idle' /\ Active'
  BY <1>1, <1>2, <1>3, Unwound
<1>5. BlocksFit'
  BY <1>1, <1>2, Types, SameBlocks
<1>6. TypeOK'
  BY <1>1, <1>2, <1>4 DEF IInv, TypeOK, Saved
<1> QED
  BY <1>4, <1>5, <1>6 DEF IInv, Shape

LEMMA EndWhenStep == ASSUME IInv, EndWhen PROVE IInv'
<1>1. /\ pc = "run" /\ Len(running) = 1 /\ Top.when /\ PopStackFrame
      /\ running' = << >> /\ pc' = "scan" /\ UNCHANGED <<stack, at, member>>
      /\ when_blocks' = Front([when_blocks EXCEPT ![at] = Last(when_blocks)])
  BY DEF EndWhen
<1>2. stack' \in Seq(Cells) /\ Len(stack') = Len(stack)
  BY <1>1 DEF IInv, TypeOK
<1>3. running[1].when
  BY <1>1 DEF Top, Last
<1>4. /\ stack_frame' \in Seq(Saved) /\ stack_base' \in Nat /\ stack_top' \in Nat
      /\ Stacked' /\ Grounded' /\ Room' /\ New' /\ Idle' /\ Active'
  BY <1>1, <1>2, <1>3, Unwound
<1>5. PICK n : n = Len(when_blocks)
  OBVIOUS
<1>6. n \in Nat /\ at \in 1 .. n /\ when_blocks \in Seq(BlockRecords)
  <2>1. at <= Len(when_blocks)
    BY <1>1, <1>3 DEF IInv, Shape, Active
  <2> QED
    BY <1>5, <2>1, Types DEF IInv, TypeOK
<1>7. PICK b : b = when_blocks[n]
  OBVIOUS
<1>8. n \in 1 .. n /\ b \in BlockRecords /\ Enclosed(b, Len(stack))
  <2>1. n \in 1 .. n
    BY <1>6
  <2>2. b \in BlockRecords
    BY <1>5, <1>6, <1>7, <2>1, ElementOfSeq
  <2> QED
    BY <1>5, <1>7, <2>1, <2>2 DEF IInv, Shape, BlocksFit, stack_end
<1>9. PICK w : w = [when_blocks EXCEPT ![at] = b]
  OBVIOUS
<1>10. when_blocks' = Front(w)
  BY <1>1, <1>5, <1>7, <1>9 DEF Last
<1>11. /\ w \in Seq(BlockRecords) /\ Len(w) = n
       /\ \A k \in 1 .. n : w[k] = IF k = at THEN b ELSE when_blocks[k]
  BY <1>5, <1>6, <1>8, <1>9, ExceptSeq
<1>12. /\ when_blocks' \in Seq(BlockRecords) /\ Len(when_blocks') = n - 1
       /\ \A k \in 1 .. n - 1 : when_blocks'[k] = w[k]
  <2>1. Len(w) >= 1
    BY <1>6, <1>11
  <2> QED
    BY <1>10, <1>11, <2>1, FrontCells
<1>13. BlocksFit'
  <2>1. ASSUME NEW k \in 1 .. n - 1 PROVE Enclosed(when_blocks'[k], Len(stack))
    <3>1. k \in 1 .. n
      BY <1>6
    <3>2. Enclosed(when_blocks[k], Len(stack))
      BY <1>5, <3>1 DEF IInv, Shape, BlocksFit, stack_end
    <3>3. when_blocks'[k] = IF k = at THEN b ELSE when_blocks[k]
      BY <1>11, <1>12, <3>1
    <3>4. CASE k = at
      BY <1>8, <3>3, <3>4
    <3>5. CASE k # at
      BY <3>2, <3>3, <3>5
    <3> QED
      BY <3>4, <3>5
  <2> QED
    BY <1>1, <1>12, <2>1 DEF BlocksFit, stack_end, Enclosed
<1>14. TypeOK'
  BY <1>1, <1>2, <1>4, <1>12 DEF IInv, TypeOK, Saved
<1> QED
  BY <1>4, <1>13, <1>14 DEF IInv, Shape

(* A function returns: the caller is below it. *)
LEMMA Caller ==
  ASSUME IInv, pc = "run", Len(running) > 1
  PROVE  /\ Len(running) - 1 \in 1 .. Len(running) /\ Len(stack_frame) >= 2
         /\ running[Len(running) - 1] \in Activations /\ Typed(running[Len(running) - 1])
         /\ Framed(running[Len(running) - 1], Bp(Len(stack_frame)), Sp(Len(stack_frame)))
         /\ Sp(Len(stack_frame)) = stack_base
         /\ Framed(Top, stack_base, stack_top) /\ stack_top < Len(stack)
<1>1. PICK m : m = Len(running) - 1
  OBVIOUS
<1>2. PICK d : d = Deep
  OBVIOUS
<1>3. PICK n : n = Len(stack_frame)
  OBVIOUS
<1>4. m \in Nat /\ m >= 1 /\ Len(running) = m + 1 /\ d \in {1, 2} /\ n \in Nat /\ n = d + m
  BY <1>1, <1>2, <1>3, Types, Depth
<1>5. m \in 1 .. Len(running) /\ m + 1 \in 1 .. Len(running) /\ m + 1 > 1 /\ m + 1 - 1 = m
  BY <1>4
<1>6. running[m] \in Activations /\ Typed(running[m]) /\ Framed(running[m], Bp(d + m), Sp(d + m))
  BY <1>2, <1>5, Activated
<1>7. Bp(d + (m + 1)) = Sp(d + m)
  <2>1. Nested(m + 1, d)
    BY <1>2, <1>4 DEF IInv, Shape, Stacked
  <2>2. m + 1 \in 1 .. m + 1
    BY <1>4
  <2>3. Bp(d + (m + 1)) = Sp(d + (m + 1 - 1))
    BY <1>5, <2>1, <2>2 DEF Nested
  <2> QED
    BY <1>5, <2>3
<1>8. Bp(d + (m + 1)) = stack_base /\ Framed(Top, stack_base, stack_top) /\ stack_top < Len(stack)
  BY <1>2, <1>4, Running
<1> QED
  BY <1>1, <1>3, <1>4, <1>5, <1>6, <1>7, <1>8

LEMMA FunctionReturnStep == ASSUME IInv, FunctionReturn PROVE IInv'
<1>1. /\ pc = "run" /\ Len(running) > 1 /\ PopStackFrame /\ UNCHANGED <<pc, when_blocks, at>>
  BY DEF FunctionReturn
<1>2. PICK m : m = Len(running) - 1
  OBVIOUS
<1>3. PICK c : c = running[m]
  OBVIOUS
<1>4. PICK v \in Values, x \in Variables(c.fun) :
       LET left == Write(stack, stack_base, v) IN
       /\ stack' = Write(left, stack_base' + x, left[stack_base' + ResultSlot(c.fun) + 1])
       /\ IF c.fun = "class"
          THEN member' = v /\ running' = Front(running)
          ELSE /\ running' = [Front(running) EXCEPT ![m] = Stored(c, x, v)]
               /\ UNCHANGED member
  BY <1>2, <1>3 DEF FunctionReturn
<1>5. PICK left : left = Write(stack, stack_base, v)
  OBVIOUS
<1>6. PICK res : res = left[stack_base' + ResultSlot(c.fun) + 1]
  OBVIOUS
<1>7. stack' = Write(left, stack_base' + x, res)
  BY <1>4, <1>5, <1>6
<1>8. PICK n : n = Len(stack_frame)
  OBVIOUS
<1>9. /\ m \in Nat /\ m >= 1 /\ Len(running) = m + 1 /\ n >= 2
      /\ c \in Activations /\ Typed(c) /\ Framed(c, Bp(n), Sp(n)) /\ Sp(n) = stack_base
      /\ Framed(Top, stack_base, stack_top) /\ stack_top < Len(stack)
  BY <1>1, <1>2, <1>3, <1>8, Types, Caller
<1>10. n \in Nat /\ stack_base' = Bp(n) /\ stack_top' = Sp(n)
  <2>1. n \in Nat /\ Len(stack_frame') = n - 1 /\ \A j \in 1 .. n : Bp(j)' = Bp(j) /\ Sp(j)' = Sp(j)
    <3>1. stack_frame \in Seq(Saved) /\ n >= 1
      <4>1. n \in Nat /\ stack_frame \in Seq(Saved)
        BY <1>8, Types
      <4> QED
        BY <1>9, <4>1
    <3> QED
      BY <1>1, <1>8, <3>1, Pop
  <2>2. n = n - 1 + 1 /\ n \in 1 .. n
    BY <1>9, <2>1
  <2> QED
    BY <2>1, <2>2 DEF Bp, Sp
<1>11. /\ stack_base' + x \in Nat /\ stack_base' + x < stack_base
       /\ stack_base' + ResultSlot(c.fun) \in Nat /\ stack_base' + ResultSlot(c.fun) <= stack_base
       /\ stack_base \in Nat
  BY <1>9, <1>10, Slots
<1>12. stack_base < Len(stack) /\ Len(stack) \in Nat
  <2>1. Typed(Top)
    BY <1>1, Running
  <2>2. stack_base <= stack_top /\ stack_top \in Nat
    BY <1>9, <2>1, Slots
  <2> QED
    BY <1>9, <1>11, <2>2, Types
<1>13. left \in Seq(Cells) /\ Len(left) = Len(stack)
  <2>1. stack \in Seq(Cells) /\ v \in Cells
    BY ZeroCell DEF IInv, TypeOK
  <2> QED
    BY <1>5, <1>11, <1>12, <2>1, WriteCells
<1>14. res \in Cells
  <2>1. stack_base' + ResultSlot(c.fun) + 1 \in 1 .. Len(left)
    BY <1>11, <1>12, <1>13
  <2> QED
    BY <1>6, <1>13, <2>1, ElementOfSeq
<1>15. stack_base' + x < Len(left)
  BY <1>11, <1>12, <1>13
<1>16. stack' \in Seq(Cells) /\ Len(stack') = Len(stack)
  BY <1>7, <1>11, <1>13, <1>14, <1>15, WriteCells
<1>17. PICK f : f = Front(running)
  OBVIOUS
<1>18. f \in Seq(Activations) /\ Len(f) = m /\ \A i \in 1 .. m : f[i] = running[i]
  <2>1. running \in Seq(Activations) /\ Len(running) >= 1
    BY <1>9 DEF IInv, TypeOK
  <2> QED
    BY <1>2, <1>17, <2>1, FrontCells
<1>19. \A i \in 1 .. m : Typed(running[i])
  BY <1>1, <1>9, Activated
<1>20. /\ running' \in Seq(Activations) /\ Len(running') = m /\ member' \in Cells
       /\ \A i \in 1 .. m : /\ Typed(running'[i]) /\ running'[i].fun = running[i].fun
                            /\ running'[i].when = running[i].when
  <2>1. CASE c.fun = "class"
    <3>1. member' = v /\ running' = f
      BY <1>4, <1>17, <2>1
    <3> QED
      BY <1>18, <1>19, <3>1, ZeroCell
  <2>2. CASE c.fun # "class"
    <3>1. PICK r : r = Stored(c, x, v)
      OBVIOUS
    <3>2. running' = [f EXCEPT ![m] = r] /\ member' = member
      BY <1>4, <1>17, <2>2, <3>1
    <3>3. r \in Activations /\ Typed(r) /\ r.fun = c.fun /\ r.when = c.when
      <4>1. c \in Activations /\ Typed(c) /\ x \in Variables(c.fun) /\ v \in Cells
        BY <1>9, ZeroCell
      <4> QED
        BY <3>1, <4>1, StoredVariable
    <3>4. /\ running' \in Seq(Activations) /\ Len(running') = m
          /\ \A i \in 1 .. m : running'[i] = IF i = m THEN r ELSE f[i]
      <4>1. m \in 1 .. Len(f)
        BY <1>9, <1>18
      <4> QED
        BY <1>18, <3>2, <3>3, <4>1, ExceptSeq
    <3>5. ASSUME NEW i \in 1 .. m
          PROVE  Typed(running'[i]) /\ running'[i].fun = running[i].fun /\ running'[i].when = running[i].when
      <4>1. CASE i = m
        <5>1. running'[i] = r
          BY <3>4, <4>1
        <5> QED
          BY <1>3, <3>3, <4>1, <5>1
      <4>2. CASE i # m
        <5>1. running'[i] = running[i]
          BY <1>18, <3>4, <4>2
        <5> QED
          BY <1>19, <5>1
      <4> QED
        BY <4>1, <4>2
    <3>6. member' \in Cells
      BY <3>2 DEF IInv, TypeOK
    <3> QED
      BY <3>4, <3>5, <3>6
  <2> QED
    BY <2>1, <2>2
<1>21. /\ stack_frame' \in Seq(Saved) /\ stack_base' \in Nat /\ stack_top' \in Nat
       /\ Deep' = Deep /\ Stacked' /\ Grounded' /\ Room'
  <2>1. Len(running') = Len(running) - 1 /\ 1 .. Len(running) - 1 = 1 .. m /\ Len(stack_frame) >= 2
    BY <1>2, <1>8, <1>9, <1>20
  <2>2. \A i \in 1 .. Len(running) - 1 : /\ Typed(running'[i]) /\ running'[i].fun = running[i].fun
                                         /\ running'[i].when = running[i].when
    BY <1>20, <2>1
  <2> QED
    BY <1>1, <1>16, <2>1, <2>2, PoppedFrame
<1>22. BlocksFit'
  BY <1>1, <1>16, Types, SameBlocks
<1>23. TypeOK'
  BY <1>1, <1>16, <1>20, <1>21 DEF IInv, TypeOK, Saved
<1>24. New' /\ Idle'
  BY <1>1 DEF New, Idle
<1>25. Active'
  <2>1. 1 \in 1 .. m
    BY <1>9
  <2>2. running'[1].fun = running[1].fun /\ running'[1].when = running[1].when /\ Len(running') >= 1
    BY <1>9, <1>20, <2>1
  <2>3. Active
    BY DEF IInv, Shape
  <2> QED
    BY <1>1, <1>21, <2>2, <2>3 DEF Active, Constructing
<1> QED
  BY <1>21, <1>22, <1>23, <1>24, <1>25 DEF IInv, Shape

-----------------------------------------------------------------------------
LEMMA InitInv == Init => IInv
<1> SUFFICES ASSUME Init PROVE IInv
  OBVIOUS
<1>1. /\ stack = << >> /\ stack_base = 0 /\ stack_top = 0 /\ stack_frame = << >>
      /\ pc = "new" /\ running = << >> /\ when_blocks = << >> /\ at = 1 /\ member = 0
  BY DEF Init
<1>2. /\ stack \in Seq(Cells) /\ stack_frame \in Seq([bp : Nat, sp : Nat])
      /\ running \in Seq(Activations) /\ when_blocks \in Seq(BlockRecords)
  BY <1>1
<1>3. TypeOK
  BY <1>1, <1>2, ZeroCell DEF TypeOK
<1>4. Len(running) = 0 /\ Len(stack_frame) = 0 /\ Len(when_blocks) = 0
  BY <1>1
<1>5. Stacked /\ Room /\ BlocksFit
  <2>1. 1 .. 0 = {} /\ 2 .. 0 + 1 = {}
    OBVIOUS
  <2> QED
    BY <1>4, <2>1 DEF Stacked, Nested, Room, BlocksFit
<1>6. Grounded /\ New /\ Idle /\ Active
  BY <1>1 DEF Grounded, New, Idle, Active
<1> QED
  BY <1>3, <1>5, <1>6 DEF IInv, Shape

LEMMA NextInv == IInv /\ [Next]_vars => IInv'
<1> SUFFICES ASSUME IInv, [Next]_vars PROVE IInv'
  OBVIOUS
<1>1. CASE UNCHANGED vars
  <2>1. UNCHANGED <<stack, stack_base, stack_top, stack_frame, pc, running, when_blocks, at, member>>
    BY <1>1 DEF vars
  <2>2. TypeOK'
    BY <2>1 DEF IInv, TypeOK
  <2>3. Grounded' /\ Room' /\ New' /\ Idle' /\ Active'
    BY <2>1 DEF IInv, Shape, Grounded, Room, New, Idle, Active, Constructing, Bp, Sp, Deep, stack_end
  <2>4. BlocksFit'
    BY <2>1, Types, SameBlocks
  <2>5. Stacked'
    <3>1. CASE pc = "new"
      BY <2>1, <3>1, NoneRunning DEF IInv, Shape, New
    <3>2. CASE pc # "new"
      <4>1. \A i \in 1 .. Len(running) : Typed(running[i])
        BY <3>2, Activated
      <4> QED
        BY <2>1, <3>2, <4>1, Types, SameFrames
    <3> QED
      BY <3>1, <3>2
  <2> QED
    BY <2>2, <2>3, <2>4, <2>5 DEF IInv, Shape
<1> QED
  BY <1>1, ConstructStep, MessageStep, NoticeStep, AssignStep, AssignMemberStep, FunctionCallStep,
     FunctionReturnStep, CCallStep, ReturnValueStep, WhenRegisterStep, ConstructorReturnStep,
     MethodReturnStep,
     EvaluateStep, ConditionTrueStep, ConditionFalseStep, EndWhenStep, ScanDoneStep DEF Next

LEMMA Invariance == Spec => []IInv
BY InitInv, NextInv, PTL DEF Spec

(* Cells, addresses, activations and blocks have their types in every      *)
(* state, for all values, layouts and bounds.                              *)
THEOREM TypeCorrect == Spec => []TypeOK
<1>1. IInv => TypeOK
  BY DEF IInv
<1> QED
  BY <1>1, Invariance, PTL

(* Every SetupStackFrame is matched by its PopStackFrame: whenever a       *)
(* process rests or goes from one block to the next it is in the frame of  *)
(* its constructor again, with nothing left on the call stack.             *)
THEOREM Balance == Spec => []Balanced
<1>1. IInv => Balanced
  BY AtBottom, Layout DEF Balanced
<1> QED
  BY <1>1, Invariance, PTL

(* The frame in use, the cell above it where a built-in function leaves    *)
(* its result, and every closure that ApplyClosureState will copy back lie *)
(* inside the allocation, whatever the sizes of the frames.                *)
THEOREM WithinStack == Spec => []Fits
<1>1. ASSUME IInv PROVE Fits
  <2>1. ASSUME pc # "new" PROVE stack_top < stack_end
    <3>1. pc \in {"rest", "scan"} \/ pc \in {"run", "condition"}
      BY <1>1, <2>1 DEF IInv, TypeOK
    <3> QED
      BY <1>1, <3>1, AtBottom, Running DEF stack_end
  <2>2. ASSUME pc = "run" PROVE stack_base + temp_end(Top.fun) <= stack_end
    <3>1. Typed(Top) /\ Framed(Top, stack_base, stack_top) /\ stack_top < Len(stack)
      BY <1>1, <2>2, Running
    <3>2. /\ stack_base \in Nat /\ stack_top \in Nat /\ temp_end(Top.fun) \in Nat
          /\ stack_base + temp_end(Top.fun) <= stack_top
      BY <3>1, Slots
    <3> QED
      BY <1>1, <3>1, <3>2, Types DEF stack_end
  <2>3. ASSUME NEW i \in DOMAIN when_blocks
        PROVE  when_blocks[i].base_offset + temp_end(when_blocks[i].fun) < stack_end
    <3>1. i \in 1 .. Len(when_blocks)
      BY <1>1 DEF IInv, TypeOK
    <3> QED
      BY <1>1, <3>1 DEF IInv, Shape, BlocksFit, Enclosed, stack_end
  <2> QED
    BY <2>1, <2>2, <2>3 DEF Fits
<1> QED
  BY <1>1, Invariance, PTL

-----------------------------------------------------------------------------
(* What the cells hold.  An activation finds its variables in the cells of *)
(* its frame, and a block captured what the variables held.  A class has   *)
(* members, which are spoken of apart.                                     *)
Held(r, bp, s) == r.fun # "class" => \A x \in Variables(r.fun) : s[bp + x + 1] = r.vars[x]
Live == \A i \in 1 .. Len(running) : Held(running[i], Bp(Deep + i), stack)
Faithful == \A k \in 1 .. Len(when_blocks) : when_blocks[k].fun # "class" =>
              \A x \in Variables(when_blocks[k].fun) : when_blocks[k].state[x] = when_blocks[k].vars[x]
Exact == Temps = 0 /\ Params = 0

Kept == /\ ~MemberBlocks => MembersKept
        /\ Exact => Live /\ Faithful

(* The first cell, with the reference to the process, stays as it is. *)
FirstStays == stack'[1] = stack[1]

LEMMA KeptCells ==
  Kept <=> /\ ~MemberBlocks => (pc # "new" => stack[2] = member)
           /\ Exact => Live /\ Faithful
<1>1. Cell(Member) = stack[2]
  BY Layout DEF Cell
<1> QED
  BY <1>1 DEF Kept, MembersKept

LEMMA KeptCellsNext ==
  Kept' <=> /\ ~MemberBlocks => (pc' # "new" => stack'[2] = member')
            /\ Exact => Live' /\ Faithful'
<1>1. Cell(Member)' = stack'[2]
  BY Layout DEF Cell
<1> QED
  BY <1>1 DEF Kept, MembersKept

(* The cells of a frame did not change. *)
LEMMA HeldCells ==
  ASSUME NEW r, Typed(r), NEW bp, NEW sp, Framed(r, bp, sp), NEW s, NEW t,
         \A j \in 2 .. sp - 1 : t[j + 1] = s[j + 1], Held(r, bp, s)
  PROVE  Held(r, bp, t)
<1>1. ASSUME NEW x \in Variables(r.fun), r.fun # "class" PROVE t[bp + x + 1] = r.vars[x]
  <2>1. PICK j : j = bp + x
    OBVIOUS
  <2>2. j \in Nat /\ j >= 2 /\ j < sp /\ sp \in Nat
    BY <1>1, <2>1, Slots
  <2>3. t[j + 1] = s[j + 1]
    BY <2>2
  <2>4. s[bp + x + 1] = r.vars[x]
    BY <1>1 DEF Held
  <2> QED
    BY <2>1, <2>3, <2>4
<1> QED
  BY <1>1 DEF Held

(* A variable was stored in a frame. *)
LEMMA HeldStored ==
  ASSUME NEW r, Typed(r), NEW bp, NEW sp, Framed(r, bp, sp), NEW s, Held(r, bp, s),
         NEW x \in Variables(r.fun), NEW v, NEW a, a = bp + x, NEW t, t[a + 1] = v,
         \A j \in 2 .. sp - 1 : j # a => t[j + 1] = s[j + 1],
         NEW q, q.fun = r.fun, \A y \in Variables(r.fun) : q.vars[y] = IF y = x THEN v ELSE r.vars[y]
  PROVE  Held(q, bp, t)
<1>1. ASSUME r.fun # "class", NEW y \in Variables(r.fun) PROVE t[bp + y + 1] = q.vars[y]
  <2>1. PICK j : j = bp + y
    OBVIOUS
  <2>2. j \in Nat /\ j >= 2 /\ j < sp /\ y \in Nat /\ bp \in Nat /\ sp \in Nat
    BY <1>1, <2>1, Slots
  <2>3. CASE y = x
    BY <2>3
  <2>4. CASE y # x
    <3>1. x \in Nat
      BY Slots
    <3>2. j # a /\ j \in 2 .. sp - 1
      BY <2>1, <2>2, <2>4, <3>1
    <3>3. t[j + 1] = s[j + 1]
      BY <3>2
    <3>4. s[bp + y + 1] = r.vars[y]
      BY <1>1 DEF Held
    <3>5. q.vars[y] = r.vars[y]
      BY <2>4
    <3> QED
      BY <2>1, <3>3, <3>4, <3>5
  <2> QED
    BY <2>3, <2>4
<1> QED
  BY <1>1 DEF Held

(* The activations below k are out of its reach. *)
LEMMA Below ==
  ASSUME IInv, pc \in {"run", "condition"}, Live, NEW k \in 1 .. Len(running), NEW i \in 1 .. Len(running),
         i < k, NEW bp, bp = Bp(Deep + k), NEW t, \A j \in 2 .. bp - 1 : t[j + 1] = stack[j + 1]
  PROVE  Held(running[i], Bp(Deep + i), t)
<1>1. PICK d : d = Deep
  OBVIOUS
<1>2. PICK n : n = Len(running)
  OBVIOUS
<1>3. n \in Nat /\ i \in 1 .. n /\ k \in 1 .. n
  BY <1>2, Types
<1>4. Nested(n, d)
  BY <1>1, <1>2 DEF IInv, Shape, Stacked
<1>5. Sp(d + i) <= Bp(d + k)
  BY <1>3, <1>4 DEF Nested
<1>6. bp = Bp(d + k) /\ bp \in Nat
  <2>1. Framed(running[k], Bp(Deep + k), Sp(Deep + k))
    BY Activated
  <2> QED
    BY <1>1, <2>1 DEF Framed
<1>7. Typed(running[i]) /\ Framed(running[i], Bp(d + i), Sp(d + i))
  BY <1>1, Activated
<1>8. PICK sp : sp = Sp(d + i)
  OBVIOUS
<1>9. sp \in Nat /\ sp <= bp
  BY <1>5, <1>6, <1>7, <1>8 DEF Framed
<1>10. \A j \in 2 .. sp - 1 : t[j + 1] = stack[j + 1]
  BY <1>6, <1>9
<1>11. Held(running[i], Bp(d + i), stack)
  BY <1>1 DEF Live
<1>12. PICK b : b = Bp(d + i)
  OBVIOUS
<1>13. PICK r : r = running[i]
  OBVIOUS
<1>14. Typed(r) /\ Framed(r, b, sp) /\ Held(r, b, stack)
  BY <1>7, <1>8, <1>11, <1>12, <1>13
<1>15. Held(r, b, t)
  BY <1>10, <1>14, HeldCells
<1> QED
  BY <1>1, <1>12, <1>13, <1>15

LEMMA Others ==
  ASSUME IInv, pc \in {"run", "condition"}, Live, NEW i \in 1 .. Len(running), i < Len(running), NEW t,
         \A j \in 2 .. stack_base - 1 : t[j + 1] = stack[j + 1]
  PROVE  Held(running[i], Bp(Deep + i), t)
<1>1. PICK n : n = Len(running)
  OBVIOUS
<1>2. n \in 1 .. Len(running) /\ i < n /\ stack_base = Bp(Deep + n)
  BY <1>1, Types, Running
<1> QED
  BY <1>2, Below

LEMMA LiveSame ==
  ASSUME IInv, pc = "run", Live, UNCHANGED <<stack_base, stack_top, stack_frame>>,
         Len(running') = Len(running), NEW n, n = Len(running),
         \A i \in 1 .. n : i # n => running'[i] = running[i],
         \A j \in 2 .. stack_base - 1 : stack'[j + 1] = stack[j + 1],
         Held(running'[n], stack_base, stack')
  PROVE  Live'
<1>1. PICK d : d = Deep
  OBVIOUS
<1>2. Deep' = d /\ \A j : Bp(j)' = Bp(j)
  BY <1>1 DEF Deep, Bp
<1>3. n \in Nat /\ n \in 1 .. n /\ Bp(d + n) = stack_base
  BY <1>1, Types, Running
<1>4. ASSUME NEW i \in 1 .. n PROVE Held(running'[i], Bp(d + i)', stack')
  <2>1. CASE i = n
    BY <1>2, <1>3, <2>1
  <2>2. CASE i # n
    <3>1. i < n /\ i \in 1 .. Len(running) /\ i < Len(running)
      BY <1>3, <2>2
    <3>2. PICK t : t = stack'
      OBVIOUS
    <3>3. \A j \in 2 .. stack_base - 1 : t[j + 1] = stack[j + 1]
      BY <3>2
    <3>4. Held(running[i], Bp(Deep + i), t)
      BY <3>1, <3>3, Others
    <3>5. running'[i] = running[i] /\ Bp(d + i)' = Bp(d + i)
      BY <1>2, <2>2
    <3> QED
      BY <1>1, <3>2, <3>4, <3>5
  <2> QED
    BY <2>1, <2>2
<1> QED
  BY <1>2, <1>4 DEF Live, Held

(* Assign and CCall: v goes into variable x and nothing else below the top *)
(* of the frame changes.                                                   *)
LEMMA StoredKept ==
  ASSUME IInv, Kept, pc = "run", NEW x \in Variables(Top.fun), NEW v \in Values, Assigned(x, v),
         UNCHANGED <<stack_base, stack_top, stack_frame, pc, when_blocks>>,
         NEW a, a = stack_base + x,
         \A j \in 0 .. stack_top - 1 : j # a => stack'[j + 1] = stack[j + 1],
         Temps = 0 \/ Top.fun = "class" => stack'[a + 1] = v
  PROVE  Kept' /\ FirstStays
<1>1. PICK n : n = Len(running)
  OBVIOUS
<1>2. n \in Nat /\ n \in 1 .. n /\ Top = running[n] /\ Typed(Top) /\ Framed(Top, stack_base, stack_top)
  BY <1>1, Types, Running
<1>3. /\ Len(running') = n
      /\ \A i \in 1 .. n : running'[i].fun = running[i].fun /\ (i # n => running'[i] = running[i])
      /\ Top.fun = "class" => member' = v
      /\ Top.fun # "class" =>
           /\ member' = member
           /\ \A y \in Variables(Top.fun) : running'[n].vars[y] = IF y = x THEN v ELSE Top.vars[y]
  BY <1>1, AssignedVariable
<1>4. /\ stack_base \in Nat /\ stack_top \in Nat /\ stack_top >= 2 /\ a \in Nat /\ a >= 1
      /\ Top.fun # "class" => a >= 2
      /\ Top.fun = "class" => a = 1
      /\ x \in Nat
  BY <1>2, Slots
<1>5. FirstStays
  <2>1. stack'[0 + 1] = stack[0 + 1]
    BY <1>4
  <2> QED
    BY <2>1 DEF FirstStays
<1>6. ASSUME ~MemberBlocks PROVE stack'[2] = member'
  <2>1. stack[2] = member
    BY <1>6, KeptCells
  <2>2. CASE Top.fun = "class"
    BY <1>3, <1>4, <2>2
  <2>3. CASE Top.fun # "class"
    <3>1. stack'[1 + 1] = stack[1 + 1]
      BY <1>4, <2>3
    <3> QED
      BY <1>3, <2>1, <2>3, <3>1
  <2> QED
    BY <2>2, <2>3
<1>7. ASSUME Exact PROVE Live' /\ Faithful'
  <2>1. Live /\ Faithful
    BY <1>7, KeptCells
  <2>2. \A j \in 2 .. stack_base - 1 : stack'[j + 1] = stack[j + 1]
    <3>1. ASSUME NEW j \in 2 .. stack_base - 1 PROVE stack'[j + 1] = stack[j + 1]
      <4>1. stack_base <= stack_top
        BY <1>2, Slots
      <4>2. j \in 0 .. stack_top - 1 /\ j # a
        BY <1>4, <4>1
      <4> QED
        BY <4>2
    <3> QED
      BY <3>1
  <2>3. Held(running'[n], stack_base, stack')
    <3>1. Held(Top, stack_base, stack)
      <4>1. Held(running[n], Bp(Deep + n), stack)
        BY <1>1, <1>2, <2>1 DEF Live
      <4> QED
        BY <1>1, <1>2, <4>1, Running
    <3>2. PICK q : q = running'[n]
      OBVIOUS
    <3>3. q.fun = Top.fun
      BY <1>2, <1>3, <3>2
    <3>4. CASE Top.fun = "class"
      BY <3>2, <3>3, <3>4 DEF Held
    <3>5. CASE Top.fun # "class"
      <4>1. \A y \in Variables(Top.fun) : q.vars[y] = IF y = x THEN v ELSE Top.vars[y]
        BY <1>3, <3>2, <3>5
      <4>2. PICK t : t = stack'
        OBVIOUS
      <4>3. t[a + 1] = v /\ \A j \in 2 .. stack_top - 1 : j # a => t[j + 1] = stack[j + 1]
        BY <1>7, <4>2 DEF Exact
      <4>4. Held(q, stack_base, t)
        BY <1>2, <3>1, <3>3, <4>1, <4>3, HeldStored
      <4> QED
        BY <3>2, <4>2, <4>4
    <3> QED
      BY <3>4, <3>5
  <2>4. Live'
    BY <1>1, <1>3, <2>1, <2>2, <2>3, LiveSame
  <2>5. Faithful'
    BY <2>1 DEF Faithful
  <2> QED
    BY <2>4, <2>5
<1> QED
  BY <1>5, <1>6, <1>7, KeptCellsNext

LEMMA AssignKept == ASSUME IInv, Kept, Assign PROVE Kept' /\ FirstStays
<1>1. PICK x \in Variables(Top.fun), v \in Values :
        Assigned(x, v) /\ stack' = Write(stack, stack_base + x, v)
  BY DEF Assign
<1>2. pc = "run" /\ UNCHANGED <<stack_base, stack_top, stack_frame, pc, when_blocks>>
  BY DEF Assign
<1>3. PICK a : a = stack_base + x
  OBVIOUS
<1>4. a \in Nat /\ a < Len(stack) /\ stack_top < Len(stack) /\ stack_top \in Nat
  <2>1. Typed(Top) /\ Framed(Top, stack_base, stack_top) /\ stack_top < Len(stack)
    BY <1>2, Running
  <2>2. a \in Nat /\ a < stack_top /\ stack_top \in Nat
    BY <1>3, <2>1, Slots
  <2> QED
    BY <2>1, <2>2, Types
<1>5. \A j \in 0 .. Len(stack) - 1 : stack'[j + 1] = IF j = a THEN v ELSE stack[j + 1]
  <2>1. stack \in Seq(Cells) /\ v \in Cells
    BY ZeroCell DEF IInv, TypeOK
  <2> QED
    <3>1. stack \in Seq(Cells) /\ a \in Nat /\ a < Len(stack) /\ v \in Cells
      BY <1>4, <2>1
    <3>2. \A j \in 0 .. Len(stack) - 1 : Write(stack, a, v)[j + 1] = IF j = a THEN v ELSE stack[j + 1]
      BY <3>1, WriteCells
    <3> QED
      BY <1>1, <1>3, <3>2
<1>6. /\ \A j \in 0 .. stack_top - 1 : j # a => stack'[j + 1] = stack[j + 1]
      /\ stack'[a + 1] = v
  <2>1. a \in 0 .. Len(stack) - 1 /\ 0 .. stack_top - 1 \subseteq 0 .. Len(stack) - 1
    BY <1>4, Types
  <2> QED
    BY <1>5, <2>1
<1> QED
  BY <1>1, <1>2, <1>3, <1>6, StoredKept

LEMMA CCallKept == ASSUME IInv, Kept, CCall PROVE Kept' /\ FirstStays
<1>1. PICK v \in Values, x \in Variables(Top.fun) :
        LET left == Write(stack, stack_top, v) IN
        /\ stack' = Write(left, stack_base + x, left[stack_base + ResultSlot(Top.fun) + 1])
        /\ Assigned(x, v)
  BY DEF CCall
<1>2. pc = "run" /\ UNCHANGED <<stack_base, stack_top, stack_frame, pc, when_blocks>>
  BY DEF CCall
<1>3. PICK left : left = Write(stack, stack_top, v)
  OBVIOUS
<1>4. PICK q : q = stack_base + ResultSlot(Top.fun)
  OBVIOUS
<1>5. PICK a : a = stack_base + x
  OBVIOUS
<1>6. stack' = Write(left, a, left[q + 1]) /\ Assigned(x, v)
  BY <1>1, <1>3, <1>4, <1>5
<1>7. Typed(Top) /\ Framed(Top, stack_base, stack_top) /\ stack_top < Len(stack)
  BY <1>2, Running
<1>8. /\ a \in Nat /\ a < stack_top /\ stack_top \in Nat /\ q \in Nat /\ q <= stack_top
      /\ Temps = 0 \/ Top.fun = "class" => q = stack_top
  BY <1>4, <1>5, <1>7, Slots
<1>9. /\ left \in Seq(Cells) /\ Len(left) = Len(stack)
      /\ \A j \in 0 .. Len(stack) - 1 : left[j + 1] = IF j = stack_top THEN v ELSE stack[j + 1]
  <2>1. stack \in Seq(Cells) /\ v \in Cells
    BY ZeroCell DEF IInv, TypeOK
  <2> QED
    <3>1. stack \in Seq(Cells) /\ stack_top \in Nat /\ stack_top < Len(stack) /\ v \in Cells
      BY <1>7, <1>8, <2>1
    <3>2. /\ Write(stack, stack_top, v) \in Seq(Cells) /\ Len(Write(stack, stack_top, v)) = Len(stack)
          /\ \A j \in 0 .. Len(stack) - 1 :
               Write(stack, stack_top, v)[j + 1] = IF j = stack_top THEN v ELSE stack[j + 1]
      BY <3>1, WriteCells
    <3> QED
      BY <1>3, <3>2
<1>10. q \in 0 .. Len(stack) - 1 /\ a \in 0 .. Len(stack) - 1 /\ a < Len(left)
       /\ 0 .. stack_top - 1 \subseteq 0 .. Len(stack) - 1
  BY <1>7, <1>8, <1>9, Types
<1>11. left[q + 1] \in Cells
  <2>1. q + 1 \in 1 .. Len(left)
    BY <1>9, <1>10, Types
  <2> QED
    BY <1>9, <2>1, ElementOfSeq
<1>12. \A j \in 0 .. Len(stack) - 1 : stack'[j + 1] = IF j = a THEN left[q + 1] ELSE left[j + 1]
  <2>1. PICK w : w = left[q + 1]
    OBVIOUS
  <2>2. w \in Cells /\ a \in Nat /\ a < Len(left) /\ left \in Seq(Cells)
    BY <1>8, <1>9, <1>10, <1>11, <2>1
  <2>3. \A j \in 0 .. Len(left) - 1 : Write(left, a, w)[j + 1] = IF j = a THEN w ELSE left[j + 1]
    BY <2>2, WriteCells
  <2> QED
    BY <1>6, <1>9, <2>1, <2>3
<1>13. \A j \in 0 .. stack_top - 1 : j # a => stack'[j + 1] = stack[j + 1]
  <2>1. ASSUME NEW j \in 0 .. stack_top - 1, j # a PROVE stack'[j + 1] = stack[j + 1]
    <3>1. j \in 0 .. Len(stack) - 1 /\ j # stack_top
      BY <1>8, <1>10
    <3> QED
      BY <1>9, <1>12, <2>1, <3>1
  <2> QED
    BY <2>1
<1>14. Temps = 0 \/ Top.fun = "class" => stack'[a + 1] = v
  <2>1. stack'[a + 1] = left[q + 1]
    BY <1>10, <1>12
  <2>2. q = stack_top => left[q + 1] = v
    BY <1>9, <1>10
  <2> QED
    BY <1>8, <2>1, <2>2
<1> QED
  BY <1>2, <1>5, <1>6, <1>13, <1>14, StoredKept

LEMMA AssignMemberKept == ASSUME IInv, Kept, AssignMember PROVE Kept' /\ FirstStays
<1>1. PICK v \in Values : member' = v /\ stack' = Write(stack, stack_base + Member, v)
  BY DEF AssignMember
<1>2. /\ pc = "run" /\ Top.fun = "method"
      /\ UNCHANGED <<stack_base, stack_top, stack_frame, pc, running, when_blocks>>
  BY DEF AssignMember
<1>3. /\ stack_base = 0 /\ stack_top \in Nat /\ stack_top >= 2 /\ stack_top < Len(stack)
      /\ Typed(Top) /\ Framed(Top, stack_base, stack_top)
  <2>1. Typed(Top) /\ Framed(Top, stack_base, stack_top) /\ stack_top < Len(stack)
    BY <1>2, Running
  <2>2. Top.fun # "function"
    BY <1>2
  <2> QED
    BY <2>1, <2>2, Slots DEF Framed
<1>4. \A j \in 0 .. Len(stack) - 1 : stack'[j + 1] = IF j = 1 THEN v ELSE stack[j + 1]
  <2>1. stack \in Seq(Cells) /\ v \in Cells
    BY ZeroCell DEF IInv, TypeOK
  <2>2. PICK o : o = 1
    OBVIOUS
  <2>3. stack' = Write(stack, o, v)
    BY <1>1, <1>3, <2>2, Layout
  <2>4. o \in Nat /\ o < Len(stack)
    BY <1>3, <2>2, Types
  <2>5. \A j \in 0 .. Len(stack) - 1 : stack'[j + 1] = IF j = o THEN v ELSE stack[j + 1]
    <3>1. stack \in Seq(Cells) /\ o \in Nat /\ o < Len(stack) /\ v \in Cells
      BY <2>1, <2>4
    <3>2. \A j \in 0 .. Len(stack) - 1 : Write(stack, o, v)[j + 1] = IF j = o THEN v ELSE stack[j + 1]
      BY <3>1, WriteCells
    <3> QED
      BY <2>3, <3>2
  <2> QED
    BY <2>2, <2>5
<1>5. 0 \in 0 .. Len(stack) - 1 /\ 1 \in 0 .. Len(stack) - 1 /\ 2 .. stack_top - 1 \subseteq 0 .. Len(stack) - 1
  BY <1>3, Types
<1>6. stack'[1] = stack[1] /\ stack'[2] = v
  <2>1. stack'[0 + 1] = stack[0 + 1] /\ stack'[1 + 1] = v
    BY <1>4, <1>5
  <2> QED
    BY <2>1
<1>7. \A j \in 2 .. stack_top - 1 : stack'[j + 1] = stack[j + 1]
  BY <1>4, <1>5
<1>8. ASSUME Exact PROVE Live' /\ Faithful'
  <2>1. Live /\ Faithful
    BY <1>8, KeptCells
  <2>2. PICK n : n = Len(running)
    OBVIOUS
  <2>3. Held(Top, stack_base, stack)
    <3>1. n \in 1 .. Len(running)
      BY <1>2, <2>2, Types, Running
    <3>2. Held(running[n], Bp(Deep + n), stack)
      BY <2>1, <3>1 DEF Live
    <3> QED
      BY <1>2, <2>2, <3>2, Running
  <2>4. Held(Top, stack_base, stack')
    BY <1>3, <1>7, <2>3, HeldCells
  <2>5. Held(running'[n], stack_base, stack')
    BY <1>2, <2>2, <2>4, Running
  <2>6. \A j \in 2 .. stack_base - 1 : stack'[j + 1] = stack[j + 1]
    BY <1>3
  <2>7. Live'
    BY <1>2, <2>1, <2>2, <2>5, <2>6, LiveSame
  <2>8. Faithful'
    BY <1>2, <2>1 DEF Faithful
  <2> QED
    BY <2>7, <2>8
<1> QED
  BY <1>1, <1>2, <1>6, <1>8, KeptCells, KeptCellsNext DEF FirstStays

LEMMA ReturnValueKept == ASSUME IInv, Kept, ReturnValue PROVE Kept'
<1>1. /\ pc = "run" /\ stack_base = 0 /\ Len(stack) > 2
      /\ UNCHANGED <<stack_base, stack_top, stack_frame, pc, running, when_blocks, member>>
      /\ \A j \in 1 .. Len(stack) - 1 : stack'[j + 1] = stack[j + 1]
  BY Returned
<1>2. Typed(Top) /\ Framed(Top, stack_base, stack_top) /\ stack_top < Len(stack) /\ stack_top \in Nat
  <2>1. Typed(Top) /\ Framed(Top, stack_base, stack_top) /\ stack_top < Len(stack)
    BY <1>1, Running
  <2> QED
    BY <2>1, Slots
<1>3. 1 \in 1 .. Len(stack) - 1 /\ 2 .. stack_top - 1 \subseteq 1 .. Len(stack) - 1
  BY <1>1, <1>2, Types
<1>4. stack'[2] = stack[2]
  <2>1. stack'[1 + 1] = stack[1 + 1]
    BY <1>1, <1>3
  <2> QED
    BY <2>1
<1>5. \A j \in 2 .. stack_top - 1 : stack'[j + 1] = stack[j + 1]
  BY <1>1, <1>3
<1>6. ASSUME Exact PROVE Live' /\ Faithful'
  <2>1. Live /\ Faithful
    BY <1>6, KeptCells
  <2>2. PICK n : n = Len(running)
    OBVIOUS
  <2>3. Held(Top, stack_base, stack)
    <3>1. n \in 1 .. Len(running)
      BY <1>1, <2>2, Types, Running
    <3>2. Held(running[n], Bp(Deep + n), stack)
      BY <2>1, <3>1 DEF Live
    <3> QED
      BY <1>1, <2>2, <3>2, Running
  <2>4. Held(Top, stack_base, stack')
    BY <1>2, <1>5, <2>3, HeldCells
  <2>5. Held(running'[n], stack_base, stack')
    BY <1>1, <2>2, <2>4, Running
  <2>6. \A j \in 2 .. stack_base - 1 : stack'[j + 1] = stack[j + 1]
    BY <1>1
  <2>7. Live'
    BY <1>1, <2>1, <2>2, <2>5, <2>6, LiveSame
  <2>8. Faithful'
    BY <1>1, <2>1 DEF Faithful
  <2> QED
    BY <2>7, <2>8
<1> QED
  BY <1>1, <1>4, <1>6, KeptCells, KeptCellsNext

LEMMA FunctionReturnKept == ASSUME IInv, Kept, FunctionReturn PROVE Kept' /\ FirstStays
<1>1. /\ pc = "run" /\ Len(running) > 1 /\ PopStackFrame /\ UNCHANGED <<pc, when_blocks>>
  BY DEF FunctionReturn
<1>2. PICK m : m = Len(running) - 1
  OBVIOUS
<1>3. PICK c : c = running[m]
  OBVIOUS
<1>4. PICK v \in Values, x \in Variables(c.fun) :
       LET left == Write(stack, stack_base, v) IN
       /\ stack' = Write(left, stack_base' + x, left[stack_base' + ResultSlot(c.fun) + 1])
       /\ IF c.fun = "class"
          THEN member' = v /\ running' = Front(running)
          ELSE /\ running' = [Front(running) EXCEPT ![m] = Stored(c, x, v)]
               /\ UNCHANGED member
  BY <1>2, <1>3 DEF FunctionReturn
<1>5. PICK n : n = Len(stack_frame)
  OBVIOUS
<1>6. PICK left : left = Write(stack, stack_base, v)
  OBVIOUS
<1>7. PICK bp : bp = Bp(n)
  OBVIOUS
<1>8. /\ m \in Nat /\ m >= 1 /\ m \in 1 .. m /\ Len(running) = m + 1 /\ n >= 2 /\ n \in Nat
      /\ c \in Activations /\ Typed(c) /\ Framed(c, bp, stack_base)
      /\ Framed(Top, stack_base, stack_top) /\ stack_top < Len(stack)
  BY <1>1, <1>2, <1>3, <1>5, <1>7, Types, Caller
<1>9. /\ Len(stack_frame') = n - 1 /\ \A j \in 1 .. n : Bp(j)' = Bp(j)
  <2>1. stack_frame \in Seq(Saved) /\ n >= 1
    <3>1. stack_frame \in Seq(Saved)
      BY Types
    <3> QED
      BY <1>8, <3>1
  <2> QED
    BY <1>1, <1>5, <2>1, Pop
<1>10. stack_base' = bp
  <2>1. n = n - 1 + 1 /\ n \in 1 .. n
    BY <1>8
  <2> QED
    BY <1>7, <1>9, <2>1 DEF Bp
<1>11. PICK a : a = bp + x
  OBVIOUS
<1>12. PICK q : q = bp + ResultSlot(c.fun)
  OBVIOUS
<1>13. /\ bp \in Nat /\ stack_base \in Nat /\ stack_base >= 2 /\ bp <= stack_base
       /\ q \in Nat /\ q <= stack_base /\ (Temps = 0 \/ c.fun = "class" => q = stack_base)
       /\ a \in Nat /\ a < stack_base /\ a >= 1
       /\ c.fun # "class" => a >= 2
       /\ c.fun = "class" => a = 1
  BY <1>8, <1>11, <1>12, Slots
<1>14. stack_base < Len(stack) /\ Len(stack) \in Nat
  <2>1. Typed(Top)
    BY <1>1, Running
  <2>2. stack_base <= stack_top /\ stack_top \in Nat
    BY <1>8, <2>1, Slots
  <2> QED
    BY <1>8, <1>13, <2>2, Types
<1>15. /\ left \in Seq(Cells) /\ Len(left) = Len(stack)
       /\ \A j \in 0 .. Len(stack) - 1 : left[j + 1] = IF j = stack_base THEN v ELSE stack[j + 1]
  <2>1. stack \in Seq(Cells) /\ stack_base \in Nat /\ stack_base < Len(stack) /\ v \in Cells
    BY <1>13, <1>14, ZeroCell DEF IInv, TypeOK
  <2>2. /\ Write(stack, stack_base, v) \in Seq(Cells) /\ Len(Write(stack, stack_base, v)) = Len(stack)
        /\ \A j \in 0 .. Len(stack) - 1 :
             Write(stack, stack_base, v)[j + 1] = IF j = stack_base THEN v ELSE stack[j + 1]
    BY <2>1, WriteCells
  <2> QED
    BY <1>6, <2>2
<1>16. PICK w : w = left[q + 1]
  OBVIOUS
<1>17. q \in 0 .. Len(stack) - 1 /\ a \in 0 .. Len(stack) - 1 /\ a < Len(left)
       /\ 0 .. stack_base - 1 \subseteq 0 .. Len(stack) - 1
  BY <1>13, <1>14, <1>15
<1>18. w \in Cells /\ (q = stack_base => w = v)
  <2>1. q + 1 \in 1 .. Len(left)
    BY <1>14, <1>15, <1>17
  <2> QED
    BY <1>15, <1>16, <1>17, <2>1, ElementOfSeq
<1>19. \A j \in 0 .. stack_base - 1 : stack'[j + 1] = IF j = a THEN w ELSE stack[j + 1]
  <2>1. stack' = Write(left, a, w)
    BY <1>4, <1>6, <1>10, <1>11, <1>12, <1>16
  <2>2. left \in Seq(Cells) /\ a \in Nat /\ a < Len(left) /\ w \in Cells
    BY <1>13, <1>15, <1>17, <1>18
  <2>3. /\ Write(left, a, w) \in Seq(Cells) /\ Len(Write(left, a, w)) = Len(left)
        /\ \A j \in 0 .. Len(left) - 1 : Write(left, a, w)[j + 1] = IF j = a THEN w ELSE left[j + 1]
    BY <2>2, WriteCells
  <2>4. ASSUME NEW j \in 0 .. stack_base - 1 PROVE stack'[j + 1] = IF j = a THEN w ELSE stack[j + 1]
    <3>1. j \in 0 .. Len(stack) - 1 /\ j # stack_base
      BY <1>13, <1>17
    <3>2. left[j + 1] = stack[j + 1]
      BY <1>15, <3>1
    <3> QED
      BY <1>15, <2>1, <2>3, <3>1, <3>2
  <2> QED
    BY <2>4
<1>20. 0 \in 0 .. stack_base - 1 /\ 1 \in 0 .. stack_base - 1 /\ a \in 0 .. stack_base - 1
  BY <1>13
<1>21. FirstStays
  <2>1. stack'[0 + 1] = stack[0 + 1]
    BY <1>13, <1>19, <1>20
  <2> QED
    BY <2>1 DEF FirstStays
<1>22. ASSUME ~MemberBlocks PROVE stack'[2] = member'
  <2>1. stack'[1 + 1] = IF 1 = a THEN w ELSE stack[1 + 1]
    BY <1>19, <1>20
  <2>2. CASE c.fun = "class"
    BY <1>4, <1>13, <1>18, <2>1, <2>2
  <2>3. CASE c.fun # "class"
    <3>1. stack[2] = member /\ member' = member
      BY <1>1, <1>4, <1>22, <2>3, KeptCells
    <3> QED
      BY <1>13, <2>1, <2>3, <3>1
  <2> QED
    BY <2>2, <2>3
<1>23. ASSUME Exact PROVE Live' /\ Faithful'
  <2>1. Live /\ Faithful
    BY <1>23, KeptCells
  <2>2. PICK d : d = Deep
    OBVIOUS
  <2>3. n = d + m /\ d \in Nat
    <3>1. d \in {1, 2} /\ n + 1 = d + (m + 1)
      BY <1>1, <1>5, <1>8, <2>2, Depth
    <3> QED
      BY <1>8, <3>1
  <2>4. PICK f : f = Front(running)
    OBVIOUS
  <2>5. f \in Seq(Activations) /\ Len(f) = m /\ \A i \in 1 .. m : f[i] = running[i]
    <3>1. running \in Seq(Activations) /\ Len(running) >= 1
      BY <1>8 DEF IInv, TypeOK
    <3> QED
      BY <1>2, <2>4, <3>1, FrontCells
  <2>6. PICK r : r = Stored(c, x, v)
    OBVIOUS
  <2>7. /\ r \in Activations /\ r.fun = c.fun
        /\ \A y \in Variables(c.fun) : r.vars[y] = IF y = x THEN v ELSE c.vars[y]
    <3>1. c \in Activations /\ Typed(c) /\ x \in Variables(c.fun) /\ v \in Cells
      BY <1>8, ZeroCell
    <3> QED
      BY <2>6, <3>1, StoredVariable
  <2>8. /\ Len(running') = m /\ \A i \in 1 .. m : i # m => running'[i] = running[i]
        /\ running'[m].fun = c.fun /\ (c.fun # "class" => running'[m] = r)
    <3>1. CASE c.fun = "class"
      <4>1. running' = f
        BY <1>4, <2>4, <3>1
      <4> QED
        BY <1>3, <1>8, <2>5, <3>1, <4>1
    <3>2. CASE c.fun # "class"
      <4>1. running' = [f EXCEPT ![m] = r]
        BY <1>4, <2>4, <2>6, <3>2
      <4>2. Len(running') = m /\ \A i \in 1 .. m : running'[i] = IF i = m THEN r ELSE f[i]
        <5>1. m \in 1 .. Len(f)
          BY <1>8, <2>5
        <5> QED
          BY <2>5, <2>7, <4>1, <5>1, ExceptSeq
      <4> QED
        BY <1>8, <2>5, <2>7, <4>2
    <3> QED
      BY <3>1, <3>2
  <2>9. PICK t : t = stack'
    OBVIOUS
  <2>10. Held(running'[m], bp, t)
    <3>1. CASE c.fun = "class"
      BY <2>8, <3>1 DEF Held
    <3>2. CASE c.fun # "class"
      <4>1. Held(c, bp, stack)
        <5>1. m \in 1 .. Len(running)
          BY <1>8
        <5>2. Held(running[m], Bp(Deep + m), stack)
          BY <2>1, <5>1 DEF Live
        <5> QED
          BY <1>3, <1>7, <2>2, <2>3, <5>2
      <4>2. t[a + 1] = v
        BY <1>13, <1>18, <1>19, <1>20, <1>23, <2>9 DEF Exact
      <4>3. \A j \in 2 .. stack_base - 1 : j # a => t[j + 1] = stack[j + 1]
        BY <1>13, <1>19, <2>9
      <4>4. Held(r, bp, t)
        <5>1. /\ Typed(c) /\ Framed(c, bp, stack_base) /\ x \in Variables(c.fun) /\ a = bp + x
              /\ r.fun = c.fun /\ \A y \in Variables(c.fun) : r.vars[y] = IF y = x THEN v ELSE c.vars[y]
          BY <1>8, <1>11, <2>7
        <5> QED
          BY <4>1, <4>2, <4>3, <5>1, HeldStored
      <4> QED
        BY <2>8, <3>2, <4>4
    <3> QED
      BY <3>1, <3>2
  <2>11. ASSUME NEW i \in 1 .. m PROVE Held(running'[i], Bp(d + i)', t)
    <3>1. Bp(d + i)' = Bp(d + i)
      <4>1. d + i \in 1 .. n
        BY <1>8, <2>3
      <4> QED
        BY <1>9, <4>1
    <3>2. CASE i = m
      BY <1>7, <2>3, <2>10, <3>1, <3>2
    <3>3. CASE i # m
      <4>1. i < m /\ i \in 1 .. Len(running) /\ m \in 1 .. Len(running)
        BY <1>8, <3>3
      <4>2. bp = Bp(Deep + m)
        BY <1>7, <2>2, <2>3
      <4>3. \A j \in 2 .. bp - 1 : t[j + 1] = stack[j + 1]
        <5>1. ASSUME NEW j \in 2 .. bp - 1 PROVE t[j + 1] = stack[j + 1]
          <6>1. x \in Nat
            BY <1>8, Slots
          <6>2. j \in 0 .. stack_base - 1 /\ j # a
            BY <1>11, <1>13, <6>1
          <6> QED
            BY <1>19, <2>9, <6>2
        <5> QED
          BY <5>1
      <4>4. Held(running[i], Bp(Deep + i), t)
        BY <1>1, <2>1, <4>1, <4>2, <4>3, Below
      <4> QED
        BY <2>2, <2>8, <3>1, <3>3, <4>4
    <3> QED
      BY <3>2, <3>3
  <2>12. Deep' = d
    BY <1>5, <1>8, <1>9, <2>2, <2>8, SMTT(30) DEF Deep
  <2>13. Live'
    BY <2>8, <2>9, <2>11, <2>12 DEF Live, Held
  <2>14. Faithful'
    BY <1>1, <2>1 DEF Faithful
  <2> QED
    BY <2>13, <2>14
<1> QED
  BY <1>21, <1>22, <1>23, KeptCellsNext

(* What was below the new frame stays, and r finds f in it. *)
LEMMA PushKept ==
  ASSUME IInv, Kept, pc # "new", NEW r, NEW f, NEW top, Pushed(r, f, top),
         Len(running) > 0 => pc = "run" /\ stack_base' = stack_top,
         r.fun = "class" => MemberBlocks,
         Exact /\ r.fun # "class" => \A x \in Variables(r.fun) : f[x] = r.vars[x],
         UNCHANGED <<when_blocks, member>>
  PROVE  Kept' /\ FirstStays
<1>0. /\ r \in Activations /\ Typed(r) /\ running' = Append(running, r)
      /\ stack_frame' = Append(stack_frame, [bp |-> stack_base, sp |-> stack_top])
      /\ Framed(r, stack_base', stack_top') /\ top \in Nat /\ f \in [Variables(r.fun) -> Cells]
      /\ stack' = Overlay(Grown(top), stack_base', f) /\ stack_top' < Len(stack')
  BY DEF Pushed
<1>1. PICK g : g = Grown(top)
  OBVIOUS
<1>2. /\ g \in Seq(Cells) /\ Len(g) \in Nat /\ Len(g) >= Len(stack)
      /\ \A j \in 0 .. Len(stack) - 1 : g[j + 1] = stack[j + 1]
  BY <1>0, <1>1, GrownCells DEF IInv, TypeOK
<1>3. PICK o : o = stack_base'
  OBVIOUS
<1>4. PICK D : D = Variables(r.fun)
  OBVIOUS
<1>5. PICK t : t = stack'
  OBVIOUS
<1>6. PICK sp : sp = stack_top'
  OBVIOUS
<1>7. Framed(r, o, sp) /\ sp < Len(t)
  BY <1>0, <1>3, <1>5, <1>6
<1>8. /\ o \in Nat /\ sp \in Nat
      /\ \A x \in D : x \in Nat /\ o + x \in Nat /\ o + x >= 1 /\ o + x < sp /\ (r.fun # "class" => o + x >= 2)
  BY <1>0, <1>4, <1>7, Slots
<1>9. /\ Len(t) = Len(g)
      /\ \A j \in 0 .. Len(g) - 1 : t[j + 1] = IF j - o \in D THEN f[j - o] ELSE g[j + 1]
  <2>1. g \in Seq(Cells) /\ o \in Nat /\ f \in [D -> Cells] /\ t = Overlay(g, o, f)
    BY <1>0, <1>1, <1>2, <1>3, <1>4, <1>5, <1>8
  <2>2. Len(t) = Len(g) /\ Copied(t, g, o, D, f)
    BY <2>1, OverlaidCells
  <2> QED
    BY <2>2 DEF Copied
<1>10. ASSUME NEW j \in 0 .. Len(stack) - 1, j < o \/ (j = 0 \/ (j = 1 /\ r.fun # "class"))
       PROVE  t[j + 1] = stack[j + 1]
  <2>1. j \in 0 .. Len(g) - 1
    BY <1>2, Types
  <2>2. j - o \notin D
    <3>1. SUFFICES ASSUME j - o \in D PROVE FALSE
      OBVIOUS
    <3>2. PICK x : x = j - o
      OBVIOUS
    <3>3. x \in Nat /\ o + x >= 1 /\ (r.fun # "class" => o + x >= 2) /\ o + x = j
      BY <1>8, <3>1, <3>2
    <3> QED
      BY <1>8, <1>10, <3>3
  <2> QED
    BY <1>2, <1>9, <2>1, <2>2
<1>11. Len(stack) \in Nat /\ Len(stack) > 2
  <2>1. Sp(2) < Len(stack) /\ Sp(2) = Temps + 2
    <3>1. 2 \in 2 .. Len(stack_frame) + 1
      BY Types DEF IInv, Shape, Grounded
    <3> QED
      BY <3>1 DEF IInv, Shape, Grounded, Room, stack_end
  <2> QED
    BY <2>1, Types, StackAssumption
<1>12. FirstStays
  <2>1. t[0 + 1] = stack[0 + 1]
    BY <1>10, <1>11
  <2> QED
    BY <1>5, <2>1 DEF FirstStays
<1>13. ASSUME ~MemberBlocks PROVE stack'[2] = member'
  <2>1. r.fun # "class"
    BY <1>13
  <2>2. t[1 + 1] = stack[1 + 1]
    BY <1>10, <1>11, <2>1
  <2>3. stack[2] = member
    BY <1>13, KeptCells
  <2> QED
    BY <1>5, <2>2, <2>3
<1>14. ASSUME Exact PROVE Live' /\ Faithful'
  <2>1. Live /\ Faithful
    BY <1>14, KeptCells
  <2>2. PICK d : d = Deep
    OBVIOUS
  <2>3. PICK m : m = Len(running)
    OBVIOUS
  <2>4. PICK n : n = Len(stack_frame)
    OBVIOUS
  <2>5. d \in Nat /\ d >= 1 /\ m \in Nat /\ n \in Nat /\ n + 1 = d + m
    BY <2>2, <2>3, <2>4, Types, Depth
  <2>6. running \in Seq(Activations)
    BY DEF IInv, TypeOK
  <2>7. /\ Len(running') = m + 1 /\ running'[m + 1] = r
        /\ \A i \in 1 .. m : running'[i] = running[i]
    BY <1>0, <2>3, <2>6, AppendProperties
  <2>8. /\ Len(stack_frame') = n + 1
        /\ \A j \in 1 .. n + 1 : Bp(j)' = Bp(j)
        /\ Bp(n + 2)' = stack_base'
    BY <1>0, <2>4, Types, Push
  <2>9. Deep' = d
    BY <2>5, <2>7, <2>8 DEF Deep
  <2>10. Held(r, o, t)
    <3>1. ASSUME r.fun # "class", NEW x \in D PROVE t[o + x + 1] = r.vars[x]
      <4>1. PICK j : j = o + x
        OBVIOUS
      <4>2. j \in 0 .. Len(g) - 1 /\ j - o = x
        BY <1>2, <1>7, <1>8, <1>9, <4>1
      <4>3. t[j + 1] = f[x]
        BY <1>9, <4>2
      <4> QED
        BY <1>4, <1>14, <3>1, <4>1, <4>3
    <3> QED
      BY <1>4, <3>1 DEF Held
  <2>11. ASSUME NEW i \in 1 .. m PROVE Held(running'[i], Bp(d + i)', t)
    <3>1. m > 0 /\ pc = "run" /\ o = stack_top
      BY <1>3, <2>3, <2>5
    <3>2. Typed(running[i]) /\ Framed(running[i], Bp(d + i), Sp(d + i)) /\ Sp(d + i) < Len(stack)
      BY <2>2, <2>3, Activated
    <3>3. PICK q : q = Sp(d + i)
      OBVIOUS
    <3>4. q <= stack_top /\ q \in Nat /\ stack_top \in Nat
      <4>1. q \in Nat
        BY <3>2, <3>3 DEF Framed
      <4>2. CASE i = m
        BY <2>2, <2>3, <3>1, <3>3, <4>1, <4>2, Running
      <4>3. CASE i # m
        <5>1. m \in 1 .. m /\ i < m
          BY <2>5, <4>3
        <5>2. Nested(m, d)
          BY <2>2, <2>3 DEF IInv, Shape, Stacked
        <5>3. q <= Bp(d + m)
          BY <3>3, <5>1, <5>2 DEF Nested
        <5>4. Typed(Top) /\ Framed(Top, stack_base, stack_top) /\ Bp(d + m) = stack_base
          BY <2>2, <2>3, <3>1, Running
        <5>5. stack_base <= stack_top /\ stack_base \in Nat /\ stack_top \in Nat
          BY <5>4, Slots
        <5> QED
          BY <4>1, <5>3, <5>4, <5>5
      <4> QED
        BY <4>2, <4>3
    <3>5. \A j \in 2 .. q - 1 : t[j + 1] = stack[j + 1]
      <4>1. ASSUME NEW j \in 2 .. q - 1 PROVE t[j + 1] = stack[j + 1]
        <5>1. j \in 0 .. Len(stack) - 1 /\ j < o
          BY <1>11, <3>1, <3>2, <3>3, <3>4
        <5> QED
          BY <1>10, <5>1
      <4> QED
        BY <4>1
    <3>6. PICK p : p = running[i]
      OBVIOUS
    <3>7. PICK bp : bp = Bp(d + i)
      OBVIOUS
    <3>8. Held(p, bp, stack)
      BY <2>1, <2>2, <2>3, <3>6, <3>7 DEF Live
    <3>9. Typed(p) /\ Framed(p, bp, q)
      BY <3>2, <3>3, <3>6, <3>7
    <3>10. Held(p, bp, t)
      BY <3>5, <3>8, <3>9, HeldCells
    <3>11. Bp(d + i)' = Bp(d + i)
      <4>1. d + i \in 1 .. n + 1
        BY <2>5
      <4> QED
        BY <2>8, <4>1
    <3> QED
      BY <2>7, <3>6, <3>7, <3>10, <3>11
  <2>12. ASSUME NEW i \in 1 .. m + 1 PROVE Held(running'[i], Bp(d + i)', t)
    <3>1. CASE i = m + 1
      <4>1. d + i = n + 2
        BY <2>5, <3>1
      <4> QED
        BY <1>3, <2>7, <2>8, <2>10, <3>1, <4>1
    <3>2. CASE i # m + 1
      <4>1. i \in 1 .. m
        BY <2>5, <3>2
      <4> QED
        BY <2>11, <4>1
    <3> QED
      BY <3>1, <3>2
  <2>13. Live'
    BY <1>5, <2>7, <2>9, <2>12 DEF Live, Held
  <2>14. Faithful'
    BY <2>1 DEF Faithful
  <2> QED
    BY <2>13, <2>14
<1> QED
  BY <1>12, <1>13, <1>14, KeptCellsNext

LEMMA MessageKept == ASSUME IInv, Kept, Message PROVE Kept' /\ FirstStays
<1>1. pc = "rest" /\ UNCHANGED <<when_blocks, member>>
  BY DEF Message
<1>2. ~(Len(running) > 0)
  BY <1>1, AtBottom
<1>3. PICK r, top : Pushed(r, r.vars, top) /\ r.fun = "method"
  BY MessagePush
<1>4. PICK f : f = r.vars
  OBVIOUS
<1>5. Pushed(r, f, top) /\ \A x \in Variables(r.fun) : f[x] = r.vars[x]
  BY <1>3, <1>4
<1> QED
  BY <1>1, <1>2, <1>3, <1>5, PushKept

LEMMA FunctionCallKept == ASSUME IInv, Kept, FunctionCall PROVE Kept' /\ FirstStays
<1>1. pc = "run" /\ UNCHANGED <<when_blocks, member>>
  BY DEF FunctionCall
<1>2. PICK r, f, top : PushedCall(r, f, top)
  BY FunctionCallPush
<1>3. Exact /\ r.fun # "class" => \A x \in Variables(r.fun) : f[x] = r.vars[x]
  BY <1>2 DEF Exact, PushedCall
<1>4. /\ Pushed(r, f, top) /\ (r.fun = "class" => MemberBlocks)
      /\ stack_base' = stack_top
  BY <1>2 DEF PushedCall
<1> QED
  BY <1>1, <1>3, <1>4, PushKept

LEMMA EvaluateKept == ASSUME IInv, Kept, Evaluate PROVE Kept' /\ FirstStays
<1>1. pc = "scan" /\ at <= Len(when_blocks) /\ UNCHANGED <<when_blocks, member>>
  BY DEF Evaluate
<1>2. ~(Len(running) > 0)
  BY <1>1, AtBottom
<1>0. PICK b, r, top : PushedBlock(b, r, top)
  BY EvaluatePush
<1>3. /\ b = when_blocks[at] /\ Pushed(r, b.state, top)
      /\ r.fun = b.fun /\ r.vars = b.vars /\ (r.fun = "class" => MemberBlocks)
  BY <1>0 DEF PushedBlock
<1>4. PICK f : f = b.state
  OBVIOUS
<1>5. ASSUME Exact, r.fun # "class" PROVE \A x \in Variables(r.fun) : f[x] = r.vars[x]
  <2>1. Faithful
    BY <1>5, KeptCells
  <2>2. at \in 1 .. Len(when_blocks)
    BY <1>1, Types DEF IInv, TypeOK
  <2>3. b.fun # "class" => \A x \in Variables(b.fun) : b.state[x] = b.vars[x]
    BY <1>3, <2>1, <2>2 DEF Faithful
  <2> QED
    BY <1>3, <1>4, <1>5, <2>3
<1>6. Pushed(r, f, top)
  BY <1>3, <1>4
<1>7. pc # "new"
  BY <1>1
<1> QED
  BY <1>1, <1>2, <1>3, <1>5, <1>6, <1>7, PushKept

LEMMA ConstructKept == ASSUME IInv, Kept, Construct PROVE Kept' /\ stack'[1] = This
<1>1. pc = "new" /\ UNCHANGED <<when_blocks, member>>
  BY DEF Construct
<1>2. /\ stack = << >> /\ stack_base = 0 /\ stack_top = 0 /\ when_blocks = << >> /\ member = 0
  BY <1>1 DEF IInv, Shape, New
<1>3. storage_requirement("class") = Temps + 2 /\ Temps \in Nat
  BY Layout, StackAssumption
<1>4. TopFor("class", FALSE) = Temps + 2 /\ BaseFor("class", FALSE) = 0
  BY <1>2, <1>3 DEF TopFor, BaseFor
<1>5. PICK r : r = Activation("class", << >>)
  OBVIOUS
<1>6. r.fun = "class"
  BY <1>5 DEF Activation
<1>7. PICK g : g = Grown(Temps + 2)
  OBVIOUS
<1>8. stack' = Write(g, 0, This) /\ running' = <<r>>
  BY <1>4, <1>5, <1>7 DEF Construct
<1>9. /\ g \in Seq(Cells) /\ Len(g) \in Nat /\ Len(g) > Temps + 2
      /\ \A j \in 0 .. Len(g) - 1 : g[j + 1] = 0
  <2>1. PICK k : k = Temps + 2
    OBVIOUS
  <2>2. k \in Nat /\ g = Grown(k) /\ stack \in Seq(Cells)
    BY <1>3, <1>7, <2>1 DEF IInv, TypeOK
  <2>3. Grown(k) \in Seq(Cells) /\ Len(Grown(k)) \in Nat /\ Len(Grown(k)) > k
    BY <2>2, GrownCells
  <2>4. stack = << >> => \A j \in 0 .. Len(Grown(k)) - 1 : Grown(k)[j + 1] = 0
    BY <2>2, GrownCells
  <2> QED
    BY <1>2, <2>1, <2>2, <2>3, <2>4
<1>10. \A j \in 0 .. Len(g) - 1 : stack'[j + 1] = IF j = 0 THEN This ELSE g[j + 1]
  <2>1. PICK o : o = 0
    OBVIOUS
  <2>2. g \in Seq(Cells) /\ o \in Nat /\ o < Len(g) /\ This \in Cells
    BY <1>3, <1>9, <2>1, ZeroCell
  <2>3. Wrote(Write(g, o, This), g, o, This)
    BY <2>2, WriteNamed
  <2>4. Wrote(stack', g, 0, This)
    BY <1>8, <2>1, <2>3
  <2> QED
    BY <2>4 DEF Wrote
<1>11. 0 \in 0 .. Len(g) - 1 /\ 1 \in 0 .. Len(g) - 1
  BY <1>3, <1>9
<1>12. stack'[1] = This /\ stack'[2] = member'
  <2>1. stack'[0 + 1] = This
    BY <1>10, <1>11
  <2>2. stack'[1 + 1] = g[1 + 1]
    BY <1>10, <1>11
  <2>3. g[1 + 1] = 0
    BY <1>9, <1>11
  <2> QED
    BY <1>1, <1>2, <2>1, <2>2, <2>3
<1>13. Live' /\ Faithful'
  <2>1. ASSUME NEW i \in 1 .. Len(running') PROVE Held(running'[i], Bp(Deep + i)', stack')
    <3>1. i = 1
      BY <1>8
    <3> QED
      BY <1>6, <1>8, <3>1 DEF Held
  <2>2. Faithful'
    BY <1>1, <1>2 DEF Faithful
  <2> QED
    BY <2>1, <2>2 DEF Live, Held
<1> QED
  BY <1>12, <1>13, KeptCellsNext

(* Steps after which nothing runs, and that leave members and blocks.      *)
LEMMA EmptyKept ==
  ASSUME IInv, Kept, pc # "new", running' = << >>, member' = member,
         stack'[2] = stack[2], Exact => Faithful'
  PROVE  Kept'
<1>1. Live'
  BY DEF Live
<1> QED
  BY <1>1, KeptCells, KeptCellsNext

(* Steps that touch neither cells nor frames.                              *)
LEMMA StillKept ==
  ASSUME IInv, Kept, pc # "new" \/ pc' = pc,
         UNCHANGED <<stack, stack_base, stack_top, stack_frame, running, member>>, Exact => Faithful'
  PROVE  Kept' /\ FirstStays
<1> DEFINE d == Deep
<1>1. Deep' = d /\ \A j : Bp(j)' = Bp(j)
  BY DEF Deep, Bp
<1>2. Exact => Live'
  <2>1. ASSUME Live PROVE Live'
    <3>1. PICK e : e = d
      OBVIOUS
    <3>2. ASSUME NEW i \in 1 .. Len(running) PROVE Held(running'[i], Bp(e + i)', stack')
      <4>1. Held(running[i], Bp(e + i), stack)
        BY <2>1, <3>1 DEF Live
      <4>2. Bp(e + i)' = Bp(e + i)
        BY <1>1
      <4> QED
        BY <4>1, <4>2
    <3> QED
      BY <1>1, <3>1, <3>2 DEF Live, Held
  <2> QED
    BY <2>1, KeptCells
<1> QED
  BY <1>2, KeptCells, KeptCellsNext DEF FirstStays

LEMMA MethodReturnKept == ASSUME IInv, Kept, MethodReturn PROVE Kept' /\ FirstStays
<1>1. pc = "run" /\ running' = << >> /\ UNCHANGED <<stack, when_blocks, member>>
  BY DEF MethodReturn
<1>2. Exact => Faithful'
  BY <1>1, KeptCells DEF Faithful
<1> QED
  BY <1>1, <1>2, EmptyKept DEF FirstStays

LEMMA ConstructorReturnKept == ASSUME IInv, Kept, ConstructorReturn PROVE Kept' /\ FirstStays
<1>1. pc = "run" /\ running' = << >> /\ UNCHANGED <<stack, when_blocks, member>>
  BY DEF ConstructorReturn
<1>2. Exact => Faithful'
  BY <1>1, KeptCells DEF Faithful
<1> QED
  BY <1>1, <1>2, EmptyKept DEF FirstStays

LEMMA ConditionFalseKept == ASSUME IInv, Kept, ConditionFalse PROVE Kept' /\ FirstStays
<1>1. pc = "condition" /\ running' = << >> /\ UNCHANGED <<stack, when_blocks, member>>
  BY DEF ConditionFalse
<1>2. Exact => Faithful'
  BY <1>1, KeptCells DEF Faithful
<1> QED
  BY <1>1, <1>2, EmptyKept DEF FirstStays

LEMMA EndWhenKept == ASSUME IInv, Kept, EndWhen PROVE Kept' /\ FirstStays
<1>1. /\ pc = "run" /\ Len(running) = 1 /\ Top.when /\ running' = << >> /\ UNCHANGED <<stack, member>>
      /\ when_blocks' = Front([when_blocks EXCEPT ![at] = Last(when_blocks)])
  BY DEF EndWhen
<1>2. PICK n : n = Len(when_blocks)
  OBVIOUS
<1>3. n \in Nat /\ at \in 1 .. n /\ when_blocks \in Seq(BlockRecords)
  <2>1. at <= Len(when_blocks)
    BY <1>1 DEF IInv, Shape, Active, Top, Last
  <2> QED
    BY <1>2, <2>1, Types DEF IInv, TypeOK
<1>4. PICK b : b = when_blocks[n]
  OBVIOUS
<1>5. n \in 1 .. n /\ b \in BlockRecords
  <2>1. n \in 1 .. n
    BY <1>3
  <2> QED
    BY <1>2, <1>3, <1>4, <2>1, ElementOfSeq
<1>6. PICK w : w = [when_blocks EXCEPT ![at] = b]
  OBVIOUS
<1>7. when_blocks' = Front(w)
  BY <1>1, <1>2, <1>4, <1>6 DEF Last
<1>8. /\ w \in Seq(BlockRecords) /\ Len(w) = n
      /\ \A k \in 1 .. n : w[k] = IF k = at THEN b ELSE when_blocks[k]
  BY <1>2, <1>3, <1>5, <1>6, ExceptSeq
<1>9. Len(when_blocks') = n - 1 /\ \A k \in 1 .. n - 1 : when_blocks'[k] = w[k]
  <2>1. Len(w) >= 1
    BY <1>3, <1>8
  <2> QED
    BY <1>7, <1>8, <2>1, FrontCells
<1>10. ASSUME Exact PROVE Faithful'
  <2>1. Faithful
    BY <1>10, KeptCells
  <2>2. ASSUME NEW k \in 1 .. n - 1
        PROVE  \E i \in 1 .. n : when_blocks'[k] = when_blocks[i]
    <3>1. k \in 1 .. n /\ when_blocks'[k] = w[k]
      BY <1>3, <1>9
    <3>2. CASE k = at
      BY <1>4, <1>5, <1>8, <3>1, <3>2
    <3>3. CASE k # at
      BY <1>8, <3>1, <3>3
    <3> QED
      BY <3>2, <3>3
  <2>3. ASSUME NEW k \in 1 .. n - 1, NEW c, c = when_blocks'[k], c.fun # "class"
        PROVE  \A x \in Variables(c.fun) : c.state[x] = c.vars[x]
    <3>1. PICK i \in 1 .. n : c = when_blocks[i]
      BY <2>2, <2>3
    <3> QED
      BY <1>2, <2>1, <2>3, <3>1 DEF Faithful
  <2> QED
    BY <1>9, <2>3 DEF Faithful
<1> QED
  BY <1>1, <1>10, EmptyKept DEF FirstStays

LEMMA QuietKept ==
  ASSUME IInv, Kept, Notice \/ ScanDone \/ ConditionTrue PROVE Kept' /\ FirstStays
<1>1. /\ pc # "new"
      /\ UNCHANGED <<stack, stack_base, stack_top, stack_frame, running, when_blocks, member>>
  BY DEF Notice, ScanDone, ConditionTrue
<1>2. Exact => Faithful'
  BY <1>1, KeptCells DEF Faithful
<1> QED
  BY <1>1, <1>2, StillKept

LEMMA WhenRegisterKept == ASSUME IInv, Kept, WhenRegister PROVE Kept' /\ FirstStays
<1>1. pc = "run" /\ UNCHANGED <<stack, stack_base, stack_top, stack_frame, running, member>>
  BY DEF WhenRegister
<1>2. PICK e : e = [x \in Variables(Top.fun) |-> Captured(x)]
  OBVIOUS
<1>3. PICK b : b = [fun |-> Top.fun, base_offset |-> stack_base, vars |-> Top.vars, state |-> e]
  OBVIOUS
<1>4. when_blocks' = Append(when_blocks, b)
  BY <1>2, <1>3 DEF WhenRegister
<1>5. PICK n : n = Len(when_blocks)
  OBVIOUS
<1>6. n \in Nat /\ Len(when_blocks') = n + 1 /\ when_blocks'[n + 1] = b
      /\ \A k \in 1 .. n : when_blocks'[k] = when_blocks[k]
  <2>1. PICK w : w = when_blocks
    OBVIOUS
  <2>2. w \in Seq(BlockRecords) /\ n = Len(w) /\ n \in Nat
    BY <1>5, <2>1, Types DEF IInv, TypeOK
  <2> QED
    BY <1>4, <2>1, <2>2
<1>7. ASSUME Exact PROVE Faithful'
  <2>1. Live /\ Faithful
    BY <1>7, KeptCells
  <2>2. Held(Top, stack_base, stack)
    <3>1. PICK m : m = Len(running)
      OBVIOUS
    <3>2. m \in 1 .. Len(running)
      BY <1>1, <3>1, Types, Running
    <3>3. Held(running[m], Bp(Deep + m), stack)
      BY <2>1, <3>2 DEF Live
    <3> QED
      BY <1>1, <3>1, <3>3, Running
  <2>3. b.fun = Top.fun /\ b.state = e /\ b.vars = Top.vars
    BY <1>3
  <2>4. b.fun # "class" => \A x \in Variables(b.fun) : b.state[x] = b.vars[x]
    <3>1. ASSUME Top.fun # "class", NEW x \in Variables(Top.fun) PROVE e[x] = Top.vars[x]
      <4>1. e[x] = stack[stack_base + x + 1]
        BY <1>2 DEF Captured, Cell
      <4> QED
        BY <2>2, <3>1, <4>1 DEF Held
    <3> QED
      BY <2>3, <3>1
  <2>5. ASSUME NEW k \in 1 .. n + 1, when_blocks'[k].fun # "class"
        PROVE  \A x \in Variables(when_blocks'[k].fun) : when_blocks'[k].state[x] = when_blocks'[k].vars[x]
    <3>1. CASE k = n + 1
      BY <1>6, <2>4, <2>5, <3>1
    <3>2. CASE k # n + 1
      <4>1. k \in 1 .. n
        BY <1>6, <3>2
      <4> QED
        BY <1>5, <1>6, <2>1, <2>5, <4>1 DEF Faithful
    <3> QED
      BY <3>1, <3>2
  <2> QED
    BY <1>6, <2>5 DEF Faithful
<1> QED
  BY <1>1, <1>7, StillKept

LEMMA InitKept == Init => Kept
<1> SUFFICES ASSUME Init PROVE Kept
  OBVIOUS
<1>1. pc = "new" /\ Len(running) = 0 /\ Len(when_blocks) = 0
  BY DEF Init
<1>2. Live /\ Faithful
  BY <1>1 DEF Live, Faithful
<1> QED
  BY <1>1, <1>2, KeptCells

LEMMA NextKept ==
  ASSUME IInv, Kept, [Next]_vars
  PROVE  /\ Kept'
         /\ pc = "new" => stack'[1] = This \/ UNCHANGED vars
         /\ pc # "new" => FirstStays \/ ReturnValue
<1>1. CASE UNCHANGED vars
  <2>1. UNCHANGED <<stack, stack_base, stack_top, stack_frame, pc, running, when_blocks, member>>
    BY <1>1 DEF vars
  <2>2. Exact => Faithful'
    BY <2>1, KeptCells DEF Faithful
  <2> QED
    BY <1>1, <2>1, <2>2, StillKept
<1>2. CASE Construct
  <2>1. pc = "new"
    BY <1>2 DEF Construct
  <2> QED
    BY <1>2, <2>1, ConstructKept
<1>3. CASE Message \/ Notice \/ ScanDone \/ ConditionTrue \/ Evaluate \/ ConditionFalse
  <2>1. pc # "new"
    BY <1>3 DEF Message, Notice, ScanDone, ConditionTrue, Evaluate, ConditionFalse
  <2> QED
    BY <1>3, <2>1, MessageKept, QuietKept, EvaluateKept, ConditionFalseKept
<1>4. CASE \/ Assign \/ AssignMember \/ FunctionCall \/ FunctionReturn \/ CCall
           \/ WhenRegister \/ ConstructorReturn \/ MethodReturn \/ EndWhen
  <2>1. pc # "new"
    BY <1>4 DEF Assign, AssignMember, FunctionCall, FunctionReturn, CCall, WhenRegister,
       ConstructorReturn, MethodReturn, EndWhen
  <2> QED
    BY <1>4, <2>1, AssignKept, AssignMemberKept, FunctionCallKept, FunctionReturnKept, CCallKept,
       WhenRegisterKept, ConstructorReturnKept, MethodReturnKept, EndWhenKept
<1>5. CASE ReturnValue
  <2>1. pc # "new"
    BY <1>5 DEF ReturnValue
  <2> QED
    BY <1>5, <2>1, ReturnValueKept
<1> QED
  BY <1>1, <1>2, <1>3, <1>4, <1>5 DEF Next

LEMMA KeptAlways == Spec => []Kept
<1>1. IInv /\ Kept /\ [Next]_vars => Kept'
  BY NextKept
<1> QED
  BY <1>1, InitKept, Invariance, PTL DEF Spec

(* Whatever the layout, the class and its blocks: cell 0 of the stack is   *)
(* the reference to the process from the constructor on, and no step but a *)
(* `return v` of the class, of a method or of one of their blocks gives it *)
(* another content.  That step does: ReturnValue writes at the same place. *)
THEOREM ThisStays == Spec => ThisKept
<1>1. Cell(0) = stack[1] /\ Cell(0)' = stack'[1]
  BY DEF Cell
<1>2. ASSUME IInv, Kept, [Next]_vars
      PROVE  [IF pc = "new" THEN Cell(0)' = This ELSE Cell(0)' = Cell(0) \/ ReturnValue]_vars
  <2>1. /\ pc = "new" => stack'[1] = This \/ UNCHANGED vars
        /\ pc # "new" => FirstStays \/ ReturnValue
    BY <1>2, NextKept
  <2> QED
    BY <1>1, <2>1 DEF FirstStays
<1> QED
  BY <1>2, Invariance, KeptAlways, PTL DEF Spec, ThisKept

(* If the class body registers no block, a member holds what was last      *)
(* assigned to it, through calls, results, growth and the closures that    *)
(* are copied back.  With one it does not: its closure holds the members.  *)
THEOREM MembersStay == Spec => [](~MemberBlocks => MembersKept)
<1>1. Kept => (~MemberBlocks => MembersKept)
  BY DEF Kept
<1> QED
  BY <1>1, KeptAlways, PTL

(* Code finds in its variables what it stored there, and a block what they *)
(* held when it was registered, through any nesting of calls, other blocks *)
(* and messages, if the constructor has no temporaries (its own are not    *)
(* counted in the result slot of a method) and functions have no arguments *)
(* (they are read through a pointer that growth of the stack frees).       *)
THEOREM VariablesStay == Spec => [](Temps = 0 /\ Params = 0 => VariablesKept)
<1>1. ASSUME IInv, Kept, Temps = 0 /\ Params = 0 PROVE VariablesKept
  <2>1. SUFFICES ASSUME pc \in {"run", "condition"}, Top.fun # "class", NEW x \in Variables(Top.fun)
                 PROVE  Cell(stack_base + x) = Top.vars[x]
    BY DEF VariablesKept
  <2>2. PICK m : m = Len(running)
    OBVIOUS
  <2>3. m \in 1 .. Len(running)
    BY <1>1, <2>1, <2>2, Types, Running
  <2>4. Live
    BY <1>1, KeptCells DEF Exact
  <2>5. Held(running[m], Bp(Deep + m), stack)
    BY <2>3, <2>4 DEF Live
  <2>6. Held(Top, stack_base, stack)
    BY <1>1, <2>1, <2>2, <2>5, Running
  <2> QED
    BY <2>1, <2>6 DEF Held, Cell
<1>2. IInv /\ Kept => (Temps = 0 /\ Params = 0 => VariablesKept)
  BY <1>1
<1> QED
  BY <1>2, Invariance, KeptAlways, PTL
=============================================================================
