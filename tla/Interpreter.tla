----------------------------- MODULE Interpreter ------------------------------
(***************************************************************************)
(* The instructions of the virtual machine and the loops that execute them *)
(* (src/src/eople_control_flow.cpp, eople_binop.cpp, eople_stdlib.cpp,     *)
(* src/inc/eople_core.h).  Every core and the main thread is in the midst  *)
(* of an instruction of its own; the messages of one process are executed  *)
(* in the order sent, by the core that has its lock.  How cores take them  *)
(* is in module Scheduler.  An integer is unbounded, a float a number of   *)
(* units.                                                                  *)
(***************************************************************************)
EXTENDS CodeGen
LOCAL INSTANCE Bitwise

CONSTANT Cores  \* core_count
ASSUME CoresAssumption == Cores \in Nat \ {0}

VARIABLES
  fns,    \* generated functions
  procs,  \* processes: cells of the stack and its registers
  heap,   \* what references refer to: [k |-> kind or "freed", v |-> contents]
  run,    \* a thread, as what executes what: ExecutionLoops, loops, blocks, the innermost last
  others, \* the threads that are not next, each as `run` was
  queue,  \* messages by process
  out,    \* what each process has printed
  fault   \* "none", or the undefined behaviour that was met

machine == <<fns, procs, heap, run, others, queue, out, fault>>

NewProcess ==
  [stack |-> <<>>, base |-> 0, top |-> 0, temporaries |-> 0, frames |-> <<>>, ip |-> <<0, 0>>,
   callstack |-> <<>>, when |-> <<>>, whenever |-> <<>>, moves |-> 0]

(***************************************************************************)
(* The process, the instruction and its operands.  In a loop the           *)
(* instruction is counted from the start of the body, its operands are     *)
(* those at ip.                                                            *)
(***************************************************************************)
self == Last(run).pid
Process == procs[self]
ip == Process.ip

CodeAt(at) == fns[at[1]].code[at[2]]
InCode(at) == at[1] \in DOMAIN fns /\ at[2] \in DOMAIN fns[at[1]].code

\* Where the innermost loop takes its next instruction from.
Dispatched ==
  LET r == Last(run)
  IN IF r.k = "while" THEN <<r.start[1], r.start[2] + r.i>> ELSE ip

\* Whether an instruction is next, and not a decision of the loop.
Running ==
  /\ run # <<>> /\ fault = "none"
  /\ CASE Last(run).k = "loop"  -> Last(run).result
       [] Last(run).k = "for"   -> Last(run).inside /\ ip # Last(run).end
       [] Last(run).k = "while" -> Last(run).i < Last(run).count
       [] OTHER -> FALSE

Op == CodeAt(Dispatched).op
Executing(ops) == Running /\ InCode(Dispatched) /\ InCode(ip) /\ Op \in ops

Slot(n) == CodeAt(ip).a[n]
OperandOf(n) == Process.base + Slot(n) + 1     \* the cell of operand n, counted from 1
Cell(n) == Process.stack[OperandOf(n)]
ReturnCell == Process.top + 1                  \* CCallReturnVal

(***************************************************************************)
(* Objects.  Memory that is zero reads as 0, FALSE or a null reference.    *)
(***************************************************************************)
Reads(cell, kind) == cell.v[1] \in {kind, "nil"}
IntOf(cell)  == IF cell.v[1] = "nil" THEN 0 ELSE cell.v[2]
BoolOf(cell) == IF cell.v[1] = "nil" THEN FALSE ELSE cell.v[2]

\* The upper half of the union, which a bool does not cover: the sign of an
\* integer, some other value for a reference or a float.
Upper(v) ==
  CASE v[1] = "bool" -> v[3]
    [] v[1] = "nil"  -> 0
    [] v[1] = "int"  -> IF v[2] < 0 THEN -1 ELSE 0
    [] OTHER -> 1

\* Assigning a member of the union leaves object_type alone.
WithValue(cell, kind, v) ==
  [cell EXCEPT !.v = IF kind = "bool" THEN <<kind, v, Upper(@)>> ELSE <<kind, v>>]

Refers(h, cell, kind) == cell.v[1] = kind /\ h[cell.v[2]].k = kind
Contents(cell) == heap[cell.v[2]].v
New(h, kind, v) == Append(h, [k |-> kind, v |-> v])
BuildRef(h, kind) == Object(kind, Len(h))      \* to what was allocated last

\* What reading through a reference of the wrong kind, a null or a stale one means.
BadRef(cell, kind) ==
  CASE cell.v[1] = "nil" -> "null"
    [] cell.v[1] = kind  -> "freed"
    [] OTHER -> "type"

InFrame(P, cell) == cell - 1 >= P.base        \* mutant: not only those
IsTemporary(P, cell) == cell - 1 >= P.temporaries

(***************************************************************************)
(* How an instruction ends: the loop that executes it counts it, and ip     *)
(* moves on.                                                               *)
(***************************************************************************)
Uncounted(r) == r                          \* mutant: nothing is counted
Counted(r) == CASE r.k = "while" -> [r EXCEPT !.i = @ + 1] [] OTHER -> r

Complete(P, h) ==
  /\ procs' = [procs EXCEPT ![self] = [P EXCEPT !.ip[2] = @ + 1]]
  /\ heap' = h
  /\ run' = [run EXCEPT ![Len(run)] = Counted(@)]
  /\ UNCHANGED <<fns, queue, out, fault>>

Fault(what) == fault' = what /\ UNCHANGED <<fns, procs, heap, run, queue, out>>

SetCell(P, cell, object) == [P EXCEPT !.stack[cell] = object]
Assign(P, cell, kind, v) == [P EXCEPT !.stack[cell] = WithValue(@, kind, v)]

\* An instruction that leaves value v in operand n, given operands of a kind.
Result(kind, n, to, v) ==
  IF \E i \in 1 .. n : ~Reads(Cell(i), kind) THEN Fault("type")
  ELSE Complete(Assign(Process, OperandOf(3), to, v), heap)

(***************************************************************************)
(* Operators.                                                              *)
(***************************************************************************)
Abs(n) == IF n < 0 THEN -n ELSE n
RoundedDown(a, b) == a \div b              \* mutant: rounds towards minus infinity
Quotient(a, b) == IF (a < 0) = (b < 0) THEN Abs(a) \div Abs(b) ELSE -(Abs(a) \div Abs(b))

IntegerOps == {"AddI", "SubI", "MulI", "DivI", "ModI", "ShiftLeft", "ShiftRight", "BAnd", "BXor", "BOr"}

IntegerValue(op, a, b) ==
  CASE op = "AddI" -> a + b
    [] op = "SubI" -> a - b
    [] op = "MulI" -> a * b
    [] op = "DivI" -> Quotient(a, b)
    [] op = "ModI" -> a - b * Quotient(a, b)
    [] op = "ShiftLeft"  -> a * 2^b
    [] op = "ShiftRight" -> a \div 2^b
    [] op = "BAnd" -> a & b
    [] op = "BXor" -> a ^^ b
    [] OTHER -> a | b

IntegerArithmetic ==
  /\ Executing(IntegerOps)
  /\ IF Op \in {"DivI", "ModI"} /\ IntOf(Cell(2)) = 0 THEN Fault("division")
     ELSE Result("int", 2, "int", IntegerValue(Op, IntOf(Cell(1)), IntOf(Cell(2))))

FloatArithmetic ==
  /\ Executing({"AddF", "SubF"})
  /\ Result("float", 2, "float", IF Op = "AddF" THEN IntOf(Cell(1)) + IntOf(Cell(2)) ELSE IntOf(Cell(1)) - IntOf(Cell(2)))

Comparisons == {"GreaterThan", "LessThan", "Equal", "NotEqual", "LessEqual", "GreaterEqual"}

Compares(op, a, b) ==
  CASE op = "GreaterThan" -> a > b
    [] op = "LessThan" -> a < b
    [] op = "Equal" -> a = b
    [] op = "NotEqual" -> a # b
    [] op = "LessEqual" -> a <= b
    [] OTHER -> a >= b

\* The integer comparisons also serve bools, and compare their upper halves too.
Whole(cell) == (IF BoolOf(cell) THEN 1 ELSE 0) + 2 * Upper(cell.v)

Comparison ==
  \E op \in Comparisons, t \in {"I", "F"} :
    /\ Executing({op \o t})
    /\ IF t = "I" /\ Cell(1).v[1] = "bool"
       THEN Result("bool", 2, "bool", Compares(op, Whole(Cell(1)), Whole(Cell(2))))
       ELSE Result(IF t = "I" THEN "int" ELSE "float", 2, "bool", Compares(op, IntOf(Cell(1)), IntOf(Cell(2))))

Logic ==
  /\ Executing({"And", "Or"})
  /\ Result("bool", 2, "bool", IF Op = "And" THEN BoolOf(Cell(1)) /\ BoolOf(Cell(2)) ELSE BoolOf(Cell(1)) \/ BoolOf(Cell(2)))

Store == Executing({"Store"}) /\ Complete(SetCell(Process, OperandOf(1), Cell(2)), heap)

(***************************************************************************)
(* Strings.  Temporaries own theirs: an operator frees those it has read.  *)
(***************************************************************************)
\* delete: nothing for null; a second time, undefined.
Deletes(P, h, cell) == ~IsTemporary(P, cell) \/ P.stack[cell].v[1] = "nil" \/ Refers(h, P.stack[cell], "string")
TryCollectTempString(P, h, cell) ==
  IF ~IsTemporary(P, cell) \/ P.stack[cell].v[1] = "nil" THEN h
  ELSE [h EXCEPT ![P.stack[cell].v[2]].k = "freed"]

\* Both operands are collected, one after the other.
Collect(P, h, cells, to) ==
  LET once == IF 1 \in cells THEN TryCollectTempString(P, h, OperandOf(1)) ELSE h
      both == IF 2 \in cells THEN TryCollectTempString(P, once, OperandOf(2)) ELSE once
  IN IF \/ 1 \in cells /\ ~Deletes(P, h, OperandOf(1))
        \/ 2 \in cells /\ ~Deletes(P, once, OperandOf(2)) THEN Fault("freed") ELSE Complete(to, both)

StringOperand(P, h, cell) == Refers(h, P.stack[cell], "string")

ConcatS ==
  LET aliasing == {i \in {1, 2} : OperandOf(i) = OperandOf(3)}
      fresh == aliasing = {} /\ IsTemporary(Process, OperandOf(3))
      h     == IF fresh THEN New(heap, "string", "") ELSE heap
      P     == IF fresh THEN Assign(Process, OperandOf(3), "string", Len(h)) ELSE Process
      Ref(n) == P.stack[OperandOf(n)]
      bad   == {i \in 1 .. 3 : ~StringOperand(P, h, OperandOf(i))}
      text  == h[Ref(1).v[2]].v \o h[Ref(2).v[2]].v
  IN /\ Executing({"ConcatS"})
     /\ IF bad # {} THEN Fault(BadRef(Ref(CHOOSE i \in bad : TRUE), "string"))
        ELSE Collect(P, [h EXCEPT ![Ref(3).v[2]].v = text], {1, 2} \ aliasing, P)

StringComparison ==
  LET bad == {i \in 1 .. 2 : ~StringOperand(Process, heap, OperandOf(i))}
  IN /\ Executing({"EqualS", "NotEqualS"})
     /\ IF bad # {} THEN Fault(BadRef(Cell(CHOOSE i \in bad : TRUE), "string"))
        ELSE Collect(Process, heap, {1, 2},
                     Assign(Process, OperandOf(3), "bool", (Contents(Cell(1)) = Contents(Cell(2))) = (Op = "EqualS")))

\* A temporary is moved, anything else is shared.
StringCopy ==
  LET moved == IsTemporary(Process, OperandOf(2))
      drops == moved /\ ~IsTemporary(Process, OperandOf(1)) /\ Cell(1).v[1] # "nil"
  IN /\ Executing({"StringCopy"})
     /\ IF drops /\ ~Refers(heap, Cell(1), "string") THEN Fault(BadRef(Cell(1), "string"))
        ELSE Complete(SetCell(Process, OperandOf(1), IF moved THEN [Cell(1) EXCEPT !.v = Cell(2).v] ELSE Cell(2)),
                      IF drops THEN [heap EXCEPT ![Cell(1).v[2]].k = "freed"] ELSE heap)

(***************************************************************************)
(* Arrays and dictionaries.                                                *)
(***************************************************************************)
ElementAt(cell, i) == heap[cell.v[2]].v[i + 1]
SetElement(cell, i, object) == [heap EXCEPT ![cell.v[2]].v[i + 1] = object]

StoreElement ==
  LET index == IntOf(Cell(2))
      steals == Op = "StoreArrayStringElement" /\ IsTemporary(Process, OperandOf(3))
      old   == ElementAt(Cell(1), index)
      h     == SetElement(Cell(1), index, IF steals THEN [old EXCEPT !.v = Cell(3).v] ELSE Cell(3))
  IN /\ Executing({"StoreArrayElement", "StoreArrayStringElement"})
     /\ IF ~Refers(heap, Cell(1), "array") THEN Fault(BadRef(Cell(1), "array"))
        ELSE IF index \notin 0 .. Len(Contents(Cell(1))) - 1 THEN Fault("index")
        ELSE IF steals /\ old.v[1] # "nil" /\ ~Refers(heap, old, "string") THEN Fault(BadRef(old, "string"))
        ELSE Complete(Process, IF steals /\ old.v[1] # "nil" THEN [h EXCEPT ![old.v[2]].k = "freed"] ELSE h)

\* The last ExecutionLoop catches a runtime_error: its function ends there.
ThrowError ==
  LET loops == {i \in DOMAIN run : run[i].k = "loop"}
      last  == CHOOSE i \in loops : \A j \in loops : j <= i
  IN IF loops = {} THEN Fault("terminate")
     ELSE /\ run' = [SubSeq(run, 1, last) EXCEPT ![last].result = FALSE]
          /\ UNCHANGED <<fns, procs, heap, queue, out, fault>>

Subscripted ==
  IF Cell(1).tag = "array"
  THEN IF IntOf(Cell(2)) \in 0 .. Len(Contents(Cell(1))) - 1 THEN {ElementAt(Cell(1), IntOf(Cell(2)))} ELSE {}
  ELSE IF Contents(Cell(2)) \in DOMAIN Contents(Cell(1)) THEN {Contents(Cell(1))[Contents(Cell(2))]} ELSE {}

\* What the object is its tag says; an object that is neither leaves the result as it was.
Subscript ==
  /\ Executing({"ArraySubscript"})
  /\ CASE Cell(1).tag \notin {"array", "dict"} -> Complete(Process, heap)
       [] OTHER ->
            IF ~Refers(heap, Cell(1), Cell(1).tag) THEN Fault(BadRef(Cell(1), Cell(1).tag))
            ELSE IF Cell(1).tag = "array" /\ ~Reads(Cell(2), "int") THEN Fault("type")
            ELSE IF Cell(1).tag = "dict" /\ ~Refers(heap, Cell(2), "string") THEN Fault(BadRef(Cell(2), "string"))
            ELSE IF Subscripted = {} THEN ThrowError
            ELSE Complete(SetCell(Process, OperandOf(3), CHOOSE o \in Subscripted : TRUE), heap)

\* Library functions on the array in the first operand.
ArrayOps == {"ArrayPush", "ArrayPushString", "ArrayPushArray", "ArraySize", "ArrayTop", "ArrayTopString",
             "ArrayTopArray", "ArrayPop", "ArrayClear"}

\* Strings and arrays are copied into an array and out of it.
CopyOf(kind, cell) == New(heap, kind, heap[cell.v[2]].v)
Copied(op) == CASE op \in {"ArrayPushString", "ArrayTopString"} -> "string"
                [] op \in {"ArrayPushArray", "ArrayTopArray"} -> "array"
                [] OTHER -> "none"

ArrayCall ==
  LET a == Cell(1).v[2]
      elements == Contents(Cell(1))
      kind == Copied(Op)
      old  == IF Op \in {"ArrayPush", "ArrayPushString", "ArrayPushArray"} THEN Cell(2) ELSE Last(elements)
      h    == IF kind = "none" THEN heap ELSE CopyOf(kind, old)
      new  == IF kind = "none" THEN old ELSE BuildRef(h, kind)
      Change(v) == Complete(Process, [h EXCEPT ![a].v = v])
  IN /\ Executing(ArrayOps)
     /\ IF ~Refers(heap, Cell(1), "array") THEN Fault(BadRef(Cell(1), "array"))
        ELSE IF Op \notin {"ArrayPush", "ArrayPushString", "ArrayPushArray", "ArraySize", "ArrayClear"} /\ elements = <<>>
          THEN Fault("empty")
        ELSE IF kind # "none" /\ ~Refers(heap, old, kind) THEN Fault(BadRef(old, kind))
        ELSE CASE Op \in {"ArrayPush", "ArrayPushString", "ArrayPushArray"} -> Change(Append(elements, new))
               [] Op = "ArrayPop" -> Change(Front(elements))
               [] Op = "ArrayClear" -> Change(<<>>)
               [] Op = "ArraySize" -> Complete(Assign(Process, ReturnCell, "int", Len(elements)), heap)
               [] OTHER -> Complete(SetCell(Process, ReturnCell, new), h)

ArrayConstructor ==
  /\ Executing({"ArrayConstructor"})
  /\ LET h == New(heap, "array", <<>>) IN Complete(Assign(Process, ReturnCell, "array", Len(h)), h)

(***************************************************************************)
(* Conversions and printing.                                               *)
(***************************************************************************)
FloatUnit == 10000000    \* the units of a literal (see Parser)

Conversion ==
  LET from == IF Op \in {"IntToFloat", "IntToString"} THEN "int" ELSE "float"
      h    == New(heap, "string", ToString(IntOf(Cell(1))))
  IN /\ Executing({"IntToFloat", "FloatToInt", "IntToString", "FloatToString"})
     /\ IF ~Reads(Cell(1), from) THEN Fault("type")
        ELSE CASE Op = "IntToFloat" -> Complete(Assign(Process, ReturnCell, "float", IntOf(Cell(1)) * FloatUnit), heap)
               [] Op = "FloatToInt" -> Complete(Assign(Process, ReturnCell, "int", Quotient(IntOf(Cell(1)), FloatUnit)), heap)
               [] OTHER -> Complete(Assign(Process, ReturnCell, "string", Len(h)), h)

\* What the value of a promise is its tag says; without a tag the text is empty.
PromiseToString ==
  LET value == Contents(Cell(1)).value
      text  == CASE value.tag = "string" -> Contents(value)
                 [] value.tag \in {"int", "float"} -> ToString(IntOf(value))
                 [] OTHER -> ""
      h     == New(heap, "string", text)
  IN /\ Executing({"PromiseToString"})
     /\ IF ~Refers(heap, Cell(1), "promise") THEN Fault(BadRef(Cell(1), "promise"))
        ELSE IF value.tag = "string" /\ ~Refers(heap, value, "string") THEN Fault(BadRef(value, "string"))
        ELSE Complete(Assign(Process, ReturnCell, "string", Len(h)), h)

\* What the clock and the terminal may give.
ClockReadings == {0, FloatUnit}
InputLines == {"", "line"}

Reading ==
  \/ /\ Executing({"GetTime"})
     /\ \E t \in ClockReadings : Complete(Assign(Process, ReturnCell, "float", t), heap)
  \/ /\ Executing({"GetLine"})
     /\ \E s \in InputLines : LET h == New(heap, "string", s)
                             IN Complete(Assign(Process, ReturnCell, "string", Len(h)), h)

Prints(op) ==
  CASE op = "PrintI" -> "int" [] op = "PrintF" -> "float" [] op = "PrintS" -> "string"
    [] op = "PrintSPromise" -> "promise" [] op = "PrintDict" -> "dict" [] op = "PrintObject" -> Cell(1).tag
    [] OTHER -> "array"

\* A line: a number, a text, or the elements of an array or dictionary.
Shown(cell) == IF cell.v[1] = "string" THEN heap[cell.v[2]].v ELSE cell.v[2]
Line(cell, kind) ==
  CASE kind \in {"int", "float"} -> IntOf(cell)
    [] kind = "string"  -> Contents(cell)
    [] kind = "promise" -> Shown(Contents(cell).value)
    [] kind \in {"array", "dict"} -> [i \in DOMAIN Contents(cell) |-> Shown(Contents(cell)[i])]
    [] OTHER -> ""

PrintLine ==
  LET kind == Prints(Op)
      number == kind \in {"int", "float", "bool", "nil"}
  IN /\ Executing({"PrintI", "PrintF", "PrintS", "PrintSPromise", "PrintSArr", "PrintIArr", "PrintFArr",
                   "PrintDict", "PrintObject"})
     /\ IF number /\ ~Reads(Cell(1), kind) THEN Fault("type")
        ELSE IF ~number /\ ~Refers(heap, Cell(1), kind) THEN Fault(BadRef(Cell(1), kind))
        ELSE IF Op = "PrintS" /\ ~Deletes(Process, heap, OperandOf(1)) THEN Fault("freed")
        ELSE /\ out' = [out EXCEPT ![self] = Append(@, Line(Cell(1), kind))]
             /\ heap' = IF Op = "PrintS" THEN TryCollectTempString(Process, heap, OperandOf(1)) ELSE heap
             /\ procs' = [procs EXCEPT ![self].ip[2] = @ + 1]
             /\ run' = [run EXCEPT ![Len(run)] = Counted(@)]
             /\ UNCHANGED <<fns, queue, fault>>

\* An empty instruction, which the generator makes room for operands with, has
\* no implementation: its function pointer is null.  Nor has what lies outside
\* the code of a function.
Nothing ==
  LET coded == InCode(Dispatched) /\ InCode(ip)
  IN /\ Running /\ (coded => Op \in {"NOP", "SleepMilliseconds"})
     /\ IF coded /\ Op # "NOP" THEN Complete(Process, heap) ELSE Fault("ip")

(***************************************************************************)
(* Jumps and loops.                                                        *)
(***************************************************************************)
JumpsOver ==
  CASE Op = "Jump"    -> TRUE
    [] Op = "JumpIf"  -> ~BoolOf(Cell(2))
    [] OTHER          -> IntOf(Cell(2)) >= IntOf(Cell(3))

Jump ==
  /\ Executing({"Jump", "JumpIf", "JumpGEQ"})
  /\ IF \/ Op = "JumpIf" /\ ~Reads(Cell(2), "bool")
        \/ Op = "JumpGEQ" /\ ~(Reads(Cell(2), "int") /\ Reads(Cell(3), "int")) THEN Fault("type")
     ELSE Complete([Process EXCEPT !.ip[2] = @ + IF JumpsOver THEN Slot(1) ELSE 0], heap)

Goto(i) == [procs EXCEPT ![self].ip[2] = i]
Enter(r) == run' = Append(run, r) /\ UNCHANGED <<fns, heap, queue, out, fault>>

\* While, When and Whenever: the condition comes first.  The
\* cell of the condition is kept as a pointer.
EnterConditional ==
  /\ Executing({"While", "When", "Whenever"})
  /\ Enter([k |-> "while", op |-> Op, pid |-> self, condition |-> OperandOf(1), start |-> <<ip[1], ip[2] + 1>>,
            first |-> ip[2] + 1, conditions |-> Slot(2), bodies |-> Slot(3), count |-> Slot(2), i |-> 0,
            inside |-> FALSE, moves |-> Process.moves])
  /\ procs' = Goto(ip[2] + 1)

\* The loops over a range start before their first value.
EnterFor ==
  LET kind == IF Op = "ForF" THEN "float" ELSE "int"
      loop == [k |-> "for", op |-> Op, pid |-> self, counter |-> Slot(1), first |-> ip[2] + 1,
               end |-> <<ip[1], ip[2] + 1 + Slot(4)>>, inside |-> FALSE]
  IN /\ Executing({"ForI", "ForF", "ForA"})
     /\ IF Op = "ForA"
        THEN IF ~Refers(heap, Cell(2), "array") THEN Fault(BadRef(Cell(2), "array"))
             ELSE Enter(loop @@ [array |-> Cell(2).v[2], length |-> Len(Contents(Cell(2))), i |-> 1]) /\ procs' = Goto(ip[2] + 1)
        ELSE IF \E n \in 1 .. 3 : ~Reads(Cell(n), kind) THEN Fault("type")
             ELSE /\ Enter(loop @@ [i |-> IntOf(Cell(1)), stop |-> IntOf(Cell(2)), step |-> IntOf(Cell(3)), kind |-> kind])
                  /\ procs' = Goto(ip[2] + 1)

\* A loop that ends has executed its instruction: ip goes on from i.
Leave(i) ==
  /\ run' = [Front(run) EXCEPT ![Len(run) - 1] = Counted(@)]
  /\ procs' = Goto(i)
  /\ UNCHANGED <<fns, heap, queue, out, fault>>

LoopEnds(k) == run # <<>> /\ fault = "none" /\ ~Running /\ Last(run).k = k

\* ForI, ForF, ForA: the next value, or the end.
NextRange ==
  LET r == Last(run)
      more == IF r.step >= 0 THEN r.i < r.stop ELSE r.i > r.stop
  IN /\ LoopEnds("for") /\ r.op # "ForA"
     /\ IF more THEN /\ procs' = [procs EXCEPT ![self] = [Assign(Process, Process.base + r.counter + 1, r.kind, r.i)
                                                           EXCEPT !.ip[2] = r.first]]
                     /\ run' = [run EXCEPT ![Len(run)].inside = TRUE, ![Len(run)].i = @ + r.step]
                     /\ UNCHANGED <<fns, heap, queue, out, fault>>
        ELSE Leave(r.end[2])

\* Where the body let the array grow or shrink, the iterators are undefined.
NextElement ==
  LET r == Last(run)
  IN /\ LoopEnds("for") /\ r.op = "ForA"
     /\ IF Len(heap[r.array].v) # r.length THEN Fault("iterator")
        ELSE IF r.i <= r.length
        THEN /\ procs' = [procs EXCEPT ![self] = [SetCell(Process, Process.base + r.counter + 1, heap[r.array].v[r.i])
                                                  EXCEPT !.ip[2] = r.first]]
             /\ run' = [run EXCEPT ![Len(run)].inside = TRUE, ![Len(run)].i = @ + 1]
             /\ UNCHANGED <<fns, heap, queue, out, fault>>
        ELSE Leave(r.end[2])

\* The end of a condition: into the body, or past it.
AfterCondition ==
  LET r == Last(run)
      cell == Process.stack[r.condition]
      body == r.first + r.conditions
  IN /\ LoopEnds("while") /\ ~r.inside
     /\ IF r.moves # Process.moves THEN Fault("stale")
        ELSE IF ~Reads(cell, "bool") THEN Fault("type")
        ELSE IF BoolOf(cell)
        THEN /\ run' = [run EXCEPT ![Len(run)].start[2] = body, ![Len(run)].count = r.bodies, ![Len(run)].i = 0,
                                   ![Len(run)].inside = TRUE]
             /\ procs' = Goto(body)
             /\ UNCHANGED <<fns, heap, queue, out, fault>>
        ELSE IF r.op = "While" THEN Leave(body + r.bodies)
        ELSE /\ run' = [Front(run) EXCEPT ![Len(run) - 1].taken = FALSE]
             /\ UNCHANGED <<fns, procs, heap, queue, out, fault>>

\* The end of a body: `while` goes back to the condition.  A `whenever` notes in
\* the return cell that it goes on.
AfterBody ==
  LET r == Last(run)
  IN /\ LoopEnds("while") /\ r.inside
     /\ UNCHANGED <<fns, heap, queue, out, fault>>
     /\ IF r.op = "While"
        THEN /\ run' = [run EXCEPT ![Len(run)].start[2] = r.first, ![Len(run)].count = r.conditions, ![Len(run)].i = 0,
                                   ![Len(run)].inside = FALSE]
             /\ procs' = Goto(r.first)
        ELSE /\ run' = [Front(run) EXCEPT ![Len(run) - 1].taken = TRUE]
             /\ procs' = IF r.op = "When" THEN procs ELSE [procs EXCEPT ![self] = Assign(@, ReturnCell, "bool", TRUE)]

(***************************************************************************)
(* Frames (see ProcessStack for their layout).                             *)
(***************************************************************************)
Grown(stack, size) == IF Len(stack) >= size THEN stack ELSE stack \o [i \in 1 .. size - Len(stack) |-> Zero]

SetupStackFrame(P, f) ==
  LET F    == fns[f]
      base == IF F.method THEN P.base ELSE P.top
      top  == IF F.whenEval THEN base + F.tempEnd ELSE P.top + F.storage
  IN [P EXCEPT !.frames = Append(@, [base |-> P.base, top |-> P.top, temporaries |-> P.temporaries]),
               !.callstack = Append(@, P.ip), !.ip = <<f, 1>>,
               !.base = base, !.top = top, !.temporaries = F.tempStart + IF F.method THEN 0 ELSE base,
               !.stack = Grown(@, top + 1)]

PopAllButTop(P) ==                         \* mutant: stack_top stays
  IF P.frames = <<>> THEN P
  ELSE [P EXCEPT !.base = Last(P.frames).base, !.frames = Front(@), !.ip = Last(P.callstack), !.callstack = Front(@)]
PopStackFrame(P) ==
  IF P.frames = <<>> THEN P
  ELSE [P EXCEPT !.base = Last(P.frames).base, !.top = Last(P.frames).top, !.temporaries = Last(P.frames).temporaries,
                 !.frames = Front(@), !.ip = Last(P.callstack), !.callstack = Front(@)]

\* cells, counted from `from`, are copied to the stack
CopyCells(P, from, cells) ==
  [P EXCEPT !.stack = <<>> \o [i \in DOMAIN @ |-> IF i - from \in DOMAIN cells THEN cells[i - from] ELSE @[i]]]

\* PushArgs, PushConstants and InitializeLocals: one after the other from the first parameter on.
WithoutConstants(P, f, args) == CopyCells(P, P.base + fns[f].parametersStart, args)  \* mutant: only the arguments
Prepared(P, f, args) ==
  CopyCells(P, P.base + fns[f].parametersStart,
            args \o fns[f].constants \o [i \in 1 .. fns[f].tempStart - fns[f].localsStart |-> Zero])

ParameterCount(f) == fns[f].constantsStart - fns[f].parametersStart

\* The operands from the given one on, those of the next instructions after the fourth.
OperandsFrom(n, count) ==
  <<>> \o [k \in 1 .. count |->
     LET j == n + k - 2
     IN Process.stack[Process.base + fns[ip[1]].code[ip[2] + (j \div 4)].a[(j % 4) + 1] + 1]]

FunctionIn(cell) == cell.v[2]
\* The function of the same name that the prompt has compiled since (see Repl).
Updated(f) == IF f # 0 /\ fns[f].updated # 0 THEN fns[f].updated ELSE f
Callable(cell) == cell.v[1] = "function" /\ cell.v[2] \in DOMAIN fns

\* `after` is what ends with it, for a cell (a constructor) or a promise (a message).
OnNextProcess(pid, after, for) ==           \* mutant: the id that comes next
  [k |-> "loop", pid |-> pid + 1, after |-> after, for |-> for, result |-> TRUE]
ExecutionLoop(pid, after, for) ==
  [k |-> "loop", pid |-> pid, after |-> after, for |-> for, result |-> TRUE]

\* The arguments are copied through a pointer to the frame that was taken
\* before the stack grew: when realloc has moved the stack it points to freed memory.
FunctionCall ==
  LET f == FunctionIn(Cell(1))
      parameters == OperandsFrom(2, ParameterCount(f))
  IN /\ Executing({"FunctionCall"})
     /\ IF ~Callable(Cell(1)) THEN Fault("type")
        ELSE \E frame \in {SetupStackFrame(Process, f)} :
             \E moved \in IF Len(frame.stack) > Len(Process.stack) THEN BOOLEAN ELSE {FALSE} :
               IF moved /\ parameters # <<>> THEN Fault("stale")
               ELSE /\ procs' = [procs EXCEPT ![self] = [Prepared(frame, f, parameters)
                                                         EXCEPT !.moves = IF moved THEN @ + 1 ELSE @]]
                    /\ Enter(ExecutionLoop(self, "call", 0))

\* The arguments follow `this`; the locals of a constructor are not initialized.
SpawnProcess ==
  LET f == FunctionIn(Cell(2))
      new == Len(procs) + 1
      this == <<Object("process", new)>>
  IN /\ Executing({"SpawnProcess"})
     /\ IF ~Callable(Cell(2)) THEN Fault("type")
        ELSE /\ \E frame \in {SetupStackFrame(NewProcess, f)} :
                  procs' = Append(procs, CopyCells(frame, 0, this \o OperandsFrom(3, ParameterCount(f)) \o fns[f].constants))
             /\ run' = Append(run, ExecutionLoop(new, "constructor", OperandOf(1)))
             /\ queue' = Append(queue, <<>>) /\ out' = Append(out, <<>>)
             /\ UNCHANGED <<fns, heap, fault>>

\* The arguments are copied as they are; ip moves over the instructions that hold them.
ProcessMessage ==
  LET f == FunctionIn(Cell(2))
      to == Cell(1).v[2]
      count == ParameterCount(f)
      answers == fns[f].returnType[1] # "nil"
      h == New(heap, "promise", [value |-> Zero, ready |-> FALSE, owner |-> self, timer |-> FALSE])
      promise == IF answers THEN Len(h) ELSE 0
      P == Assign(Process, ReturnCell, IF answers THEN "promise" ELSE "nil", promise)
  IN /\ Executing({"ProcessMessage"})
     /\ IF Cell(1).v[1] # "process" \/ ~Callable(Cell(2)) THEN Fault("type")
        ELSE /\ queue' = [queue EXCEPT ![to] = Append(@, [fn |-> f, args |-> OperandsFrom(3, count), promise |-> promise])]
             /\ heap' = IF answers THEN h ELSE heap
             /\ procs' = [procs EXCEPT ![self] = [P EXCEPT !.ip[2] = @ + 1 + (IF count > 2 THEN (count + 1) \div 4 ELSE 0)]]
             /\ run' = [run EXCEPT ![Len(run)] = Counted(@)]
             /\ UNCHANGED <<fns, out, fault>>

ReturnFrom ==
  /\ Executing({"Return", "ReturnValue"})
  /\ procs' = LET P == IF Op = "ReturnValue" THEN SetCell(Process, Process.base + 1, Cell(1)) ELSE Process
              IN [procs EXCEPT ![self] = IF Last(run).k = "loop" THEN P ELSE [P EXCEPT !.ip[2] = @ + 1]]
  /\ run' = [run EXCEPT ![Len(run)] = IF @.k = "loop" THEN [@ EXCEPT !.result = FALSE]
                                      ELSE IF @.k = "while" /\ @.op = "Whenever" /\ @.inside THEN [@ EXCEPT !.i = @.count]
                                      ELSE Counted(@)]
  /\ UNCHANGED <<fns, heap, queue, out, fault>>

Notice(promise) == [fn |-> 0, args |-> <<>>, promise |-> promise]

\* A call, a constructor, or a message has ended.
LoopReturns ==
  LET r == Last(run)
      Caller == run[Len(run) - 1].pid
      popped == [procs EXCEPT ![self] = PopStackFrame(@)]
      value == Process.stack[Process.base + 1]
  IN /\ LoopEnds("loop") /\ r.after # "entry"
     /\ UNCHANGED <<fns, out, fault>>
     /\ CASE r.after = "call" ->
               /\ procs' = [popped EXCEPT ![self].ip[2] = @ + 1]
               /\ run' = [Front(run) EXCEPT ![Len(run) - 1] = Counted(@)]
               /\ UNCHANGED <<heap, queue>>
          [] r.after = "constructor" ->
               /\ procs' = [procs EXCEPT ![Caller] = [Assign(@, r.for, "process", self) EXCEPT !.ip[2] = @ + 1]]
               /\ run' = [Front(run) EXCEPT ![Len(run) - 1] = Counted(@)]
               /\ UNCHANGED <<heap, queue>>
          [] r.after = "main" -> procs' = popped /\ run' = <<>> /\ UNCHANGED <<heap, queue>>
          [] r.after = "message" ->
               /\ procs' = popped
               /\ run' = <<[k |-> "scan", pid |-> self, list |-> "when", i |-> 1, waiting |-> FALSE, taken |-> FALSE]>>
               /\ IF r.for = 0 THEN UNCHANGED <<heap, queue>>
                  ELSE /\ heap' = [heap EXCEPT ![r.for].v.value = value, ![r.for].v.ready = TRUE]
                       /\ queue' = [queue EXCEPT ![heap[r.for].v.owner] = Append(@, Notice(r.for))]

(***************************************************************************)
(* Promises and blocks.                                                    *)
(***************************************************************************)
Timer ==
  LET h == New(heap, "promise", [value |-> Zero, ready |-> FALSE, owner |-> self, timer |-> TRUE])
  IN /\ Executing({"Timer"})
     /\ procs' = [procs EXCEPT ![self] = [Assign(@, ReturnCell, "promise", Len(h)) EXCEPT !.ip[2] = @ + 1]]
     /\ heap' = h
     /\ queue' = [queue EXCEPT ![self] = Append(@, Notice(Len(h)))]
     /\ run' = [run EXCEPT ![Len(run)] = Counted(@)]
     /\ UNCHANGED <<fns, out, fault>>

\* A promise whose value is a promise is as ready as that one.
RECURSIVE IsReady(_), ValueOf(_)
IsReady(p) == heap[p].v.ready /\ (heap[p].v.value.tag = "promise" => IsReady(heap[p].v.value.v[2]))
ValueOf(p) == IF heap[p].v.value.tag = "promise" THEN ValueOf(heap[p].v.value.v[2]) ELSE heap[p].v.value

PromiseReady ==
  /\ Executing({"Ready"})
  /\ IF ~Refers(heap, Cell(1), "promise") THEN Fault(BadRef(Cell(1), "promise"))
     ELSE Complete(Assign(Process, ReturnCell, "bool", IsReady(Cell(1).v[2])), heap)

\* A string or an array is copied unless it comes through another promise.
GetValue ==
  LET value == Contents(Cell(1)).value
      copied == value.tag \in {"string", "array"}
      h == CopyOf(value.tag, value)
  IN /\ Executing({"GetValue"})
     /\ IF ~Refers(heap, Cell(1), "promise") THEN Fault(BadRef(Cell(1), "promise"))
        ELSE IF copied /\ ~Refers(heap, value, value.tag) THEN Fault(BadRef(value, value.tag))
        ELSE IF copied THEN Complete(SetCell(Process, ReturnCell, BuildRef(h, value.tag)), h)
        ELSE Complete(SetCell(Process, ReturnCell, ValueOf(Cell(1).v[2])), heap)

ClosureCells(P, f) == SubSeq(P.stack, P.base + fns[f].parametersStart + 1, P.base + fns[f].tempStart)

Register ==
  LET f == FunctionIn(Cell(1))
      block == [eval |-> f, base |-> Process.base, state |-> ClosureCells(Process, f)]
  IN /\ Executing({"WhenRegister", "WheneverRegister"})
     /\ IF ~Callable(Cell(1)) THEN Fault("type")
        ELSE Complete(IF Op = "WhenRegister" THEN [Process EXCEPT !.when = Append(@, block)]
                      ELSE [Process EXCEPT !.whenever = Append(@, block)], heap)

ApplyClosureState(P, block) ==
  LET moved == [P EXCEPT !.base = block.base, !.top = @ + block.base - P.base,
                         !.temporaries = @ + block.base - P.base]
  IN CopyCells(moved, block.base + fns[block.eval].parametersStart, block.state)

Blocks(P, list) == IF list = "when" THEN P.when ELSE P.whenever

\* The next block of the scan is evaluated in its own frame.
EvaluateBlock ==
  LET r == Last(run)
      block == [Blocks(Process, r.list)[r.i] EXCEPT !.eval = Updated(@)]
      blocks == [Blocks(Process, r.list) EXCEPT ![r.i] = block]
      now == IF r.list = "when" THEN [Process EXCEPT !.when = blocks] ELSE [Process EXCEPT !.whenever = blocks]
      c == CodeAt(<<block.eval, 1>>)
  IN /\ LoopEnds("scan") /\ ~r.waiting /\ r.i <= Len(Blocks(Process, r.list))
     /\ \E frame \in {SetupStackFrame(now, block.eval)} : \E P \in {ApplyClosureState(frame, block)} :
          /\ run' = Append([run EXCEPT ![Len(run)].waiting = TRUE],
                      [k |-> "while", op |-> c.op, pid |-> self, condition |-> P.base + c.a[1] + 1,
                       start |-> <<P.ip[1], 2>>, first |-> 2, conditions |-> c.a[2], bodies |-> c.a[3], count |-> c.a[2],
                       i |-> 0, inside |-> FALSE, moves |-> P.moves])
          /\ procs' = [procs EXCEPT ![self] = [P EXCEPT !.ip[2] = 2]]
     /\ UNCHANGED <<fns, heap, queue, out, fault>>

\* swap with the last block and pop
SwapAndPop(blocks, i) == Front([blocks EXCEPT ![i] = Last(blocks)])

\* A `when` that ran goes; a `whenever` that ran keeps what its body left in its variables.
BlockEvaluated ==
  LET r == Last(run)
      block == Blocks(Process, r.list)[r.i]
      stops == r.list = "whenever" /\ ~BoolOf(Process.stack[ReturnCell])
      kept  == [block EXCEPT !.base = Process.base, !.state = ClosureCells(Process, block.eval)]
      after == CASE ~r.taken -> Process
                 [] r.taken /\ r.list = "when" -> [Process EXCEPT !.when = SwapAndPop(@, r.i)]
                 [] r.taken /\ r.list = "whenever" /\ stops -> [Process EXCEPT !.whenever = SwapAndPop(@, r.i)]
                 [] OTHER -> [Process EXCEPT !.whenever[r.i] = kept]
  IN /\ LoopEnds("scan") /\ r.waiting
     /\ procs' = [procs EXCEPT ![self] = PopStackFrame(after)]
     /\ run' = [run EXCEPT ![Len(run)] = [@ EXCEPT !.waiting = FALSE,
                              !.i = IF r.taken /\ (r.list = "when" \/ stops) THEN @ ELSE @ + 1]]
     /\ UNCHANGED <<fns, heap, queue, out, fault>>

ScanAgain ==                               \* mutant: round and round
  LET r == Last(run)
  IN /\ LoopEnds("scan") /\ ~r.waiting /\ r.i > Len(Blocks(Process, r.list))
     /\ run' = <<[r EXCEPT !.list = IF r.list = "when" THEN "whenever" ELSE "when", !.i = 1]>>
     /\ UNCHANGED <<fns, procs, heap, queue, out, fault>>
\* First all `when` blocks, then all `whenever` blocks.
ScanEnds ==
  LET r == Last(run)
  IN /\ LoopEnds("scan") /\ ~r.waiting /\ r.i > Len(Blocks(Process, r.list))
     /\ run' = IF r.list = "when" THEN <<[r EXCEPT !.list = "whenever", !.i = 1]>> ELSE <<>>
     /\ UNCHANGED <<fns, procs, heap, queue, out, fault>>

(***************************************************************************)
(* Messages.                                                               *)
(***************************************************************************)
IsTimer(m) == m.promise # 0 /\ m.fn = 0 /\ heap[m.promise].v.timer
TimersOf(pid) == {m.promise : m \in {n \in Range(queue[pid]) : IsTimer(n)}}
MarkReady(timers) == FoldSet(LAMBDA p, h : [h EXCEPT ![p].v.ready = TRUE], heap, timers)

Threads == others \union ({run} \ {<<>>})
\* A core keeps the lock of the process whose message and blocks it executes, a line
\* of the prompt that of the main process.  main() has none, nor has a constructor.
Unlocked(thread) == Head(thread).k = "loop" /\ Head(thread).after = "main"
Locked(pid) == \E thread \in Threads : Head(thread).pid = pid /\ ~Unlocked(thread)
OnCore(thread) == Head(thread).k = "loop" => Head(thread).after = "message"

\* A thread goes on with something new, beside the others.
StartThread(thread) == run' = thread /\ others' = Threads

\* ExecuteProcessMessage of the first message of a process; timers before it may not be
\* due yet.  A timer is ready when a core takes it, as the first or behind other messages.
Deliver ==
  \E pid \in DOMAIN queue : \E i \in DOMAIN queue[pid] :
    LET m == queue[pid][i]
        f == Updated(m.fn)
    IN /\ fault = "none" /\ ~Locked(pid) /\ Cardinality({thread \in Threads : OnCore(thread)}) < Cores
       /\ \A j \in 1 .. i - 1 : IsTimer(queue[pid][j]) /\ ~heap[queue[pid][j].promise].v.ready
       /\ queue' = [queue EXCEPT ![pid] = RemoveAt(@, i)]
       /\ \E due \in SUBSET TimersOf(pid) : (IsTimer(m) => m.promise \in due) /\ heap' = MarkReady(due)
       /\ IF m.fn = 0
          THEN /\ StartThread(<<[k |-> "scan", pid |-> pid, list |-> "when", i |-> 1, waiting |-> FALSE, taken |-> FALSE]>>)
               /\ UNCHANGED procs
          ELSE /\ StartThread(<<ExecutionLoop(pid, "message", m.promise)>>)
               /\ \E frame \in {SetupStackFrame(procs[pid], f)} :
                    procs' = [procs EXCEPT ![pid] = Prepared(frame, f, m.args)]
       /\ UNCHANGED <<fns, out, fault>>

\* ExecuteFunction in the main process, from outside, while cores execute messages.
ExecuteFunction(f) ==
  /\ \E frame \in {SetupStackFrame(procs[1], f)} : procs' = [procs EXCEPT ![1] = Prepared(frame, f, <<>>)]
  /\ StartThread(<<ExecutionLoop(1, "main", 0)>>)
  /\ UNCHANGED <<fns, heap, queue, out, fault>>

\* Another thread is next: between any two instructions, or when one has nothing left to do.
Switch ==
  /\ fault = "none"
  /\ \E thread \in others : run' = thread /\ others' = Threads \ {thread}
  /\ UNCHANGED <<fns, procs, heap, queue, out, fault>>
Preempt == run # <<>> /\ Switch
Resume  == run = <<>> /\ Switch

Instruction ==
  \/ IntegerArithmetic \/ FloatArithmetic \/ Comparison \/ Logic \/ Store
  \/ ConcatS \/ StringComparison \/ StringCopy
  \/ StoreElement \/ Subscript \/ ArrayCall \/ ArrayConstructor \/ Conversion \/ PromiseToString \/ Reading \/ PrintLine \/ Nothing
  \/ Jump \/ EnterConditional \/ EnterFor \/ FunctionCall \/ SpawnProcess \/ ProcessMessage \/ ReturnFrom
  \/ Timer \/ PromiseReady \/ GetValue \/ Register

Execute ==
  \/ /\ Instruction \/ NextRange \/ NextElement \/ AfterCondition \/ AfterBody \/ LoopReturns
                    \/ EvaluateBlock \/ BlockEvaluated \/ ScanEnds
     /\ UNCHANGED others
  \/ Deliver \/ Resume
=============================================================================
