---------------------------- MODULE ProcessStack ----------------------------
(***************************************************************************)
(* The stack of one process (ProcessStack and Process in eople_core.h) as  *)
(* constructors, methods, function calls and `when` blocks use it          *)
(* (eople_vm.cpp), with the addresses the code generator compiles into     *)
(* them (eople_vmcode_gen.cpp).                                            *)
(*                                                                         *)
(* The cells of the stack are modelled, and next to them the variables of  *)
(* the program as its author sees them; the properties say that the two    *)
(* agree.  One class with one member, one method, one function and their   *)
(* blocks are enough for every kind of frame.  Constants are copied into a *)
(* frame like parameters and are not told apart from them; the mark that   *)
(* tells temporary strings from others is left out.                        *)
(***************************************************************************)
EXTENDS Integers, SequencesExt

CONSTANTS Values,       \* what a variable may hold
          This,         \* the reference to the process itself
          Temps,        \* temporaries of the constructor
          Params,       \* parameters of the function
          MemberBlocks, \* whether the class body contains `when` blocks
          MaxDepth,     \* bound: frames in use at once
          MaxBlocks     \* bound: blocks registered at once

ASSUME StackAssumption ==
  /\ 0 \in Values /\ This \notin Values
  /\ Temps \in Nat /\ Params \in {0, 1}
  /\ MemberBlocks \in BOOLEAN
  /\ MaxDepth \in Nat /\ MaxBlocks \in Nat

-----------------------------------------------------------------------------
(* Layout, InitFunction: [this][parameters][constants][locals][temporaries]. *)

Functions == {"class", "method", "function"}
symbol_count == [class |-> 2, method |-> 2, function |-> Params + 1]
temp_count == [class |-> Temps, method |-> 1, function |-> 1]

storage_requirement(f) == symbol_count[f] + temp_count[f]

\* m_base_stack_offset: a method's own symbols follow those of the class.
NoOffset(f) == 0                           \* mutant: they start at the base
Offset(f) == IF f = "method" THEN storage_requirement("class") - temp_count["class"] ELSE 0

parameters_start(f) == Offset(f) + IF f = "class" THEN 1 ELSE 0
temp_end(f) == Offset(f) + symbol_count[f] + temp_count[f]

\* The parameters and locals; for the class they are the members.
Variables(f) == parameters_start(f) .. Offset(f) + symbol_count[f] - 1

\* Where the code that follows a call looks for its result.
ResultSlot(f) == storage_requirement(f) + Offset(f)

Member == parameters_start("class")

-----------------------------------------------------------------------------
VARIABLES
  stack,        \* the cells from 0 to the end of the allocation
  stack_base, stack_top,
  stack_frame,  \* saved frames
  pc,           \* "new", "rest" between messages, "run", "condition" of a
                \* block, "scan" between two blocks
  running,      \* the functions on the call stack, with their variables
  when_blocks,  \* function, closure, and the variables it captured
  at,           \* index of the block under evaluation
  member        \* the member variable

vars == <<stack, stack_base, stack_top, stack_frame, pc, running, when_blocks, at, member>>

Cells == Values \cup {This}
Environments == UNION {[Variables(f) -> Cells] : f \in Functions}
Activations == [fun : Functions, when : BOOLEAN, vars : Environments]
BlockRecords == [fun : Functions, base_offset : Nat, vars : Environments, state : Environments]

stack_end == Len(stack)
Cell(i) == stack[i + 1]                    \* sequences start at 1
Write(s, i, v) == [s EXCEPT ![i + 1] = v]
Overlay(s, start, state) ==                \* memcpy of variables
  [i \in DOMAIN s |-> IF i - 1 - start \in DOMAIN state THEN state[i - 1 - start] ELSE s[i]]

Init == /\ stack = <<>> /\ stack_base = 0 /\ stack_top = 0 /\ stack_frame = <<>>
        /\ pc = "new" /\ running = <<>> /\ when_blocks = <<>> /\ at = 1 /\ member = 0

Top == Last(running)

\* SetupStackFrame: a method or a block stays at the base it finds.
BaseFor(f, when) == IF f = "method" \/ when THEN stack_base ELSE stack_top
TopFor(f, when) == IF when THEN stack_base + temp_end(f) ELSE stack_top + storage_requirement(f)
Grows(f, when) == TopFor(f, when) + 1 > stack_end
GrownShort(top) ==                         \* mutant: no room for a result
  stack \o [i \in 1 .. (top - stack_end) |-> 0]
Grown(top) == stack \o [i \in 1 .. (top + 1 - stack_end) |-> 0]

SetupStackFrame(f, when) ==
  /\ stack_frame' = Append(stack_frame, [bp |-> stack_base, sp |-> stack_top])
  /\ stack_base' = BaseFor(f, when)
  /\ stack_top' = TopFor(f, when)

KeepBase ==                                \* mutant: the base is not restored
  /\ stack_top' = Last(stack_frame).sp
  /\ stack_frame' = Front(stack_frame)
  /\ UNCHANGED stack_base
PopStackFrame ==
  /\ stack_base' = Last(stack_frame).bp
  /\ stack_top' = Last(stack_frame).sp
  /\ stack_frame' = Front(stack_frame)

\* A new activation: arguments in place, locals zero.
Activation(f, args) ==
  [fun |-> f, when |-> FALSE,
   vars |-> [x \in Variables(f) |-> IF x \in DOMAIN args THEN args[x] ELSE 0]]

\* r with v in its variable x.
Stored(r, x, v) == [fun |-> r.fun, when |-> r.when, vars |-> [r.vars EXCEPT ![x] = v]]

\* What the code of activation r sees in its variable x.
Sees(r, x) == IF r.fun = "class" THEN member ELSE r.vars[x]

\* The code assigns v to its variable x: the cell is given, the program's
\* variables follow.
Assigned(x, v) ==
  IF Top.fun = "class"
  THEN member' = v /\ UNCHANGED running
  ELSE running' = [running EXCEPT ![Len(running)] = Stored(Top, x, v)] /\ UNCHANGED member

-----------------------------------------------------------------------------
(* SpawnProcess and ExecuteConstructor: the frame of the constructor is    *)
(* never popped, the members live in it.                                   *)
Construct ==
  /\ pc = "new"
  /\ SetupStackFrame("class", FALSE)
  /\ stack' = Write(Grown(TopFor("class", FALSE)), BaseFor("class", FALSE), This)
  /\ running' = <<Activation("class", <<>>)>>
  /\ pc' = "run"
  /\ UNCHANGED <<when_blocks, at, member>>

\* ExecuteProcessMessage with a method: arguments come from the heap.
Message ==
  /\ pc = "rest"
  /\ SetupStackFrame("method", FALSE)
  /\ \E v \in Values :
       LET r == Activation("method", [x \in {parameters_start("method")} |-> v]) IN
       /\ running' = <<r>>
       /\ stack' = Overlay(Grown(TopFor("method", FALSE)), BaseFor("method", FALSE), r.vars)
  /\ pc' = "run"
  /\ UNCHANGED <<when_blocks, at, member>>

\* ExecuteProcessMessage without a function: a notice or a timer.
Notice ==
  /\ pc = "rest"
  /\ pc' = "scan" /\ at' = 1
  /\ UNCHANGED <<stack, stack_base, stack_top, stack_frame, running, when_blocks, member>>

-----------------------------------------------------------------------------
(* Instructions of the running code.                                       *)

Assign ==
  /\ pc = "run"
  /\ \E x \in Variables(Top.fun), v \in Values :
       /\ Assigned(x, v)
       /\ stack' = Write(stack, stack_base + x, v)
  /\ UNCHANGED <<stack_base, stack_top, stack_frame, pc, when_blocks, at>>

\* A method, or a block in it, assigns to a member.
AssignMember ==
  /\ pc = "run" /\ Top.fun = "method"
  /\ \E v \in Values :
       /\ member' = v
       /\ stack' = Write(stack, stack_base + Member, v)
  /\ UNCHANGED <<stack_base, stack_top, stack_frame, pc, running, when_blocks, at>>

\* ExecuteFunction: the arguments are read through the caller's base, kept
\* from before the stack grew.  If it did grow, that memory has been freed.
FunctionCall ==
  /\ pc = "run" /\ Len(running) < MaxDepth
  /\ SetupStackFrame("function", FALSE)
  /\ \E x \in Variables(Top.fun) :
       \E read \in IF Grows("function", FALSE) THEN Cells ELSE {Cell(stack_base + x)} :
         LET start == parameters_start("function")
             r(v) == Activation("function", IF Params = 1 THEN [y \in {start} |-> v] ELSE <<>>)
         IN /\ running' = Append(running, r(Sees(Top, x)))
            /\ stack' = Overlay(Grown(TopFor("function", FALSE)),
                                BaseFor("function", FALSE), r(read).vars)
  /\ UNCHANGED <<pc, when_blocks, at, member>>

\* A function returns to its caller, which stores the result in a variable.
\* The value is left at the bottom of the callee's frame.  A runtime_error
\* ends the function in the same way, with whatever that cell holds.
FunctionReturn ==
  /\ pc = "run" /\ Top.fun = "function" /\ ~Top.when
  /\ Len(running) > 1
  /\ PopStackFrame
  /\ LET caller == running[Len(running) - 1] IN
     \E v \in Values, x \in Variables(caller.fun) :
       LET left == Write(stack, stack_base, v) IN
       /\ stack' = Write(left, stack_base' + x, left[stack_base' + ResultSlot(caller.fun) + 1])
       /\ IF caller.fun = "class"
          THEN member' = v /\ running' = Front(running)
          ELSE /\ running' = [Front(running) EXCEPT ![Len(running) - 1] = Stored(caller, x, v)]
               /\ UNCHANGED member
  /\ UNCHANGED <<pc, when_blocks, at>>

\* A call of a built-in function leaves its result at the top of the stack.
CCall ==
  /\ pc = "run"
  /\ \E v \in Values, x \in Variables(Top.fun) :
       LET left == Write(stack, stack_top, v) IN
       /\ stack' = Write(left, stack_base + x, left[stack_base + ResultSlot(Top.fun) + 1])
       /\ Assigned(x, v)
  /\ UNCHANGED <<stack_base, stack_top, stack_frame, pc, when_blocks, at>>

\* `return v` stores the result at offset 0.  The body of a loop or of a block goes on
\* after it.  At that offset a function has its first variable, so that it should
\* return at its end only: FunctionReturn.
ReturnValue ==
  /\ pc = "run" /\ Top.fun # "function"
  /\ \E v \in Values : stack' = Write(stack, stack_base, v)
  /\ UNCHANGED <<stack_base, stack_top, stack_frame, pc, running, when_blocks, at, member>>

\* WhenRegister, CaptureClosure.
CaptureZero(x) == Cell(x)                  \* mutant: captures from the bottom
Captured(x) == Cell(stack_base + x)
WhenRegister ==
  /\ pc = "run" /\ Len(when_blocks) < MaxBlocks
  /\ Top.fun = "class" => MemberBlocks
  /\ when_blocks' = Append(when_blocks,
       [fun |-> Top.fun, base_offset |-> stack_base, vars |-> Top.vars,
        state |-> [x \in Variables(Top.fun) |-> Captured(x)]])
  /\ UNCHANGED <<stack, stack_base, stack_top, stack_frame, pc, running, at, member>>

-----------------------------------------------------------------------------
(* The end of a constructor, of a method, and the evaluation of blocks.    *)

ConstructorReturn ==
  /\ pc = "run" /\ Len(running) = 1 /\ Top.fun = "class" /\ ~Top.when
  /\ running' = <<>> /\ pc' = "rest"
  /\ UNCHANGED <<stack, stack_base, stack_top, stack_frame, when_blocks, at, member>>

\* The promise has been answered from the cell at offset 0.
MethodReturn ==
  /\ pc = "run" /\ Len(running) = 1 /\ Top.fun = "method" /\ ~Top.when
  /\ PopStackFrame
  /\ running' = <<>> /\ pc' = "scan" /\ at' = 1
  /\ UNCHANGED <<stack, when_blocks, member>>

\* ApplyClosureState after SetupStackFrame.
Applied(b, s) == Overlay(s, b.base_offset, b.state)
Evaluate ==
  /\ pc = "scan" /\ at <= Len(when_blocks)
  /\ LET b == when_blocks[at] IN
       /\ stack_frame' = Append(stack_frame, [bp |-> stack_base, sp |-> stack_top])
       /\ stack_base' = b.base_offset
       /\ stack_top' = TopFor(b.fun, TRUE) + (b.base_offset - BaseFor(b.fun, TRUE))
       /\ stack' = Applied(b, Grown(TopFor(b.fun, TRUE)))
       /\ running' = <<[fun |-> b.fun, when |-> TRUE, vars |-> b.vars]>>
  /\ pc' = "condition"
  /\ UNCHANGED <<when_blocks, at, member>>

ConditionTrue ==
  /\ pc = "condition" /\ pc' = "run"
  /\ UNCHANGED <<stack, stack_base, stack_top, stack_frame, running, when_blocks, at, member>>

ConditionFalse ==
  /\ pc = "condition"
  /\ PopStackFrame
  /\ running' = <<>> /\ pc' = "scan" /\ at' = at + 1
  /\ UNCHANGED <<stack, when_blocks, member>>

StepBack ==                                \* mutant: the index steps back
  /\ pc = "run" /\ Len(running) = 1 /\ Top.when
  /\ PopStackFrame
  /\ when_blocks' = Front([when_blocks EXCEPT ![at] = Last(when_blocks)])
  /\ running' = <<>> /\ pc' = "scan" /\ at' = at - 1
  /\ UNCHANGED <<stack, member>>
EndWhen ==
  /\ pc = "run" /\ Len(running) = 1 /\ Top.when
  /\ PopStackFrame
  /\ when_blocks' = Front([when_blocks EXCEPT ![at] = Last(when_blocks)])
  /\ running' = <<>> /\ pc' = "scan"
  /\ UNCHANGED <<stack, at, member>>

ScanDone ==
  /\ pc = "scan" /\ at > Len(when_blocks)
  /\ pc' = "rest"
  /\ UNCHANGED <<stack, stack_base, stack_top, stack_frame, running, when_blocks, at, member>>

Next == \/ Construct \/ Message \/ Notice
        \/ Assign \/ AssignMember \/ FunctionCall \/ FunctionReturn \/ CCall
        \/ ReturnValue \/ WhenRegister
        \/ ConstructorReturn \/ MethodReturn
        \/ Evaluate \/ ConditionTrue \/ ConditionFalse \/ EndWhen \/ ScanDone

Spec == Init /\ [][Next]_vars

-----------------------------------------------------------------------------
TypeOK ==
  /\ stack \in Seq(Cells)
  /\ stack_base \in Nat /\ stack_top \in Nat
  /\ stack_frame \in Seq([bp : Nat, sp : Nat])
  /\ pc \in {"new", "rest", "run", "condition", "scan"}
  /\ running \in Seq(Activations)
  /\ when_blocks \in Seq(BlockRecords)
  /\ at \in Nat \ {0}
  /\ member \in Cells

(* The running code finds in its variables what it stored there, whatever  *)
(* calls, other blocks and other messages came between: for the code of a  *)
(* block that includes what the variables held when it was registered.     *)
VariablesKept ==
  pc \in {"run", "condition"} /\ Top.fun # "class" =>
    \A x \in Variables(Top.fun) : Cell(stack_base + x) = Top.vars[x]

(* A member variable keeps the value last assigned to it.                  *)
MembersKept == pc # "new" => Cell(Member) = member

(* The first cell of a process holds the reference to it from the          *)
(* constructor on.  A value returned by code of the class or of a method,  *)
(* or of their blocks, takes its place, and nothing else ever does: no     *)
(* argument, call or result, assignment, closure or code of a function.    *)
ThisKept ==
  [][IF pc = "new" THEN Cell(0)' = This
     ELSE Cell(0)' = Cell(0) \/ ReturnValue]_vars

(* Frames balance: between messages and between blocks the process is back *)
(* in the frame of its constructor, even after blocks registered at other  *)
(* depths and functions that ended in an error.                            *)
Balanced ==
  pc \in {"rest", "scan"} =>
    /\ stack_base = 0 /\ stack_top = storage_requirement("class")
    /\ Len(stack_frame) = 1 /\ running = <<>>

(* Nothing reaches past the allocation: the frame in use, with the cell    *)
(* above it for the results of built-in functions, and every closure that  *)
(* will be put back (the assertions of ProcessStack).                      *)
Fits ==
  /\ pc # "new" => stack_top < stack_end
  /\ pc = "run" => stack_base + temp_end(Top.fun) <= stack_end
  /\ \A i \in DOMAIN when_blocks :
       when_blocks[i].base_offset + temp_end(when_blocks[i].fun) < stack_end
=============================================================================
