------------------------------ MODULE CodeGen -------------------------------
(***************************************************************************)
(* The code generator (src/src/eople_vmcode_gen.cpp).  A generator state g *)
(*   P                 the program; P.fn is m_function_node                 *)
(*   fns, place        generated functions; where <<function,               *)
(*                     specialization>> is among them                       *)
(*   at, base          m_function, m_base_stack_offset                      *)
(*   result, first, temp, operand   m_result_index, m_first_temp,           *)
(*                     m_current_temp, m_current_operand                    *)
(*   heap, strings     what constants refer to; the string of a literal     *)
(*   errs              m_error_count                                        *)
(* An instruction is [op, a] with four operands, slots from the base of    *)
(* the frame; an operator on an expression returns the slot of its value.  *)
(***************************************************************************)
EXTENDS Program

Operand(n) == n % 65536
NoResult == -1

Object(kind, v) == [tag |-> kind, v |-> <<kind, v>>]
Zero == Object("nil", 0)

At(i, g) == [i |-> i, g |-> g]

(***************************************************************************)
(* Instructions.                                                           *)
(***************************************************************************)
Code(g) == g.fns[g.at].code

PushOpcode(g, op) ==
  [g EXCEPT !.fns[g.at].code = Append(@, [op |-> op, a |-> <<0, 0, 0, 0>>]), !.operand = 0]

SetOperand(g, i, n, v) == [g EXCEPT !.fns[g.at].code[i].a[n] = Operand(v)]

\* Operands that do not fit into an instruction go to empty ones after it.
PushOperand(g, v) ==
  LET h == IF g.operand > 3 THEN PushOpcode(g, "NOP") ELSE g
  IN [SetOperand(h, Len(Code(h)), h.operand + 1, v) EXCEPT !.operand = @ + 1]

Push(g, op, operands) == FoldLeft(PushOperand, PushOpcode(g, op), operands)

StackIndex(g, e) == GetStackIndex(g.P, g.P.fn, e)

\* Results of calls are left just above the frame.
ResultSlot(g) == g.fns[g.at].storage + g.base

\* The constant in a slot: `this` and the parameters have none.
SetConstant(g, slot, object) ==
  LET f == g.fns[g.at]
      offset == slot - g.base - (f.constantsStart - f.parametersStart) - (IF f.constructor THEN 1 ELSE 0)
  IN [g EXCEPT !.fns[g.at].constants[offset + 1] = object]

BumpCodeError(g) == [g EXCEPT !.errs = @ + 1]

(***************************************************************************)
(* Types and callees.                                                      *)
(***************************************************************************)
Compiled(g, f, s) == g.place[<<f, s>>]
Callee(g, call) ==
  LET f == GetFunction(g.P, call)
  IN IF f = 0 THEN 0 ELSE Compiled(g, f, GetSpecialization(g.P, call, g.P.fns[g.P.fn].current))

RECURSIVE GetType(_, _)
GetType(g, e) ==
  CASE e.k = "sub" -> GetExpressionType(g.P, g.P.fn, e.ident)
    [] e.k = "bin" -> IF e.op \in {">", "<", "==", "!=", "<=", ">=", "and", "or"} THEN BoolType
                      ELSE GetType(g, e.l)
    [] e.k = "call" /\ Callee(g, e) # 0 -> g.fns[Callee(g, e)].returnType
    [] e.k = "msg" -> IF Callee(g, e.call) # 0 THEN g.fns[Callee(g, e.call)].returnType
                      ELSE GetReturnType(g.P, e.call, g.P.fns[g.P.fn].current)
    [] OTHER -> GetExpressionType(g.P, g.P.fn, e)

\* What an operator becomes for a left operand of this type.
OpcodeFor(op, type) ==
  LET name == CASE op = ">" -> "GreaterThan" [] op = "<" -> "LessThan" [] op = "<=" -> "LessEqual"
                [] op = ">=" -> "GreaterEqual" [] op = "==" -> "Equal" [] op = "!=" -> "NotEqual"
                [] op = "+" -> "Add" [] op = "-" -> "Sub" [] op = "*" -> "Mul" [] OTHER -> "Div"
      F == name \o "F"
      I == name \o "I"
  IN CASE op = "and" -> "And"
       [] op = "or" -> "Or"
       [] op = "<<" -> "ShiftLeft"
       [] op = ">>" -> "ShiftRight"
       [] op = "&" -> "BAnd"
       [] op = "^" -> "BXor"
       [] op = "|" -> "BOr"
       [] op = "%" -> IF type = IntType THEN "ModI" ELSE "NOP"
       [] op \in {"==", "!="} -> CASE type = FloatType -> F [] type \in {IntType, BoolType} -> I
                                   [] type = StringType -> name \o "S" [] OTHER -> "NOP"
       [] op = "+" -> CASE type = FloatType -> F [] type = IntType -> I
                        [] type = StringType -> "ConcatS" [] OTHER -> "NOP"
       [] OTHER -> IF type = FloatType THEN F ELSE I

(***************************************************************************)
(* Expressions.                                                            *)
(***************************************************************************)
RECURSIVE GenExpressionTerm(_, _, _), GenArguments(_, _, _), GenStatement(_, _)

\* The destination of an operation: the target of the statement or a temporary.
Destination(g, root) == IF root THEN At(g.result, g) ELSE At(g.temp, [g EXCEPT !.temp = @ + 1])

GenIdentifier(g, e) ==
  IF e.id \in g.P.guards
  THEN At(ResultSlot(g), Push(g, GetCFunction(g.P, <<"is_ready">>, 0), <<StackIndex(g, e)>>))
  ELSE At(StackIndex(g, e), g)

\* Literals and dictionaries are built once, as constants.
Intern(g, e) ==
  LET key == <<g.P.fn, e.label>>
  IN IF e.type # StringType \/ key \in DOMAIN g.strings THEN g
     ELSE [g EXCEPT !.heap = Append(@, [k |-> "string", v |-> e.v]), !.strings = (key :> Len(g.heap) + 1) @@ @]

\* The upper half of a bool's union is what the memory held (see Interpreter).
LiteralObject(g, e) ==
  CASE e.type = StringType -> Object("string", g.strings[<<g.P.fn, e.label>>])
    [] e.type = BoolType   -> [tag |-> "bool", v |-> <<"bool", e.v, g.P.garbage>>]
    [] OTHER -> [Object(e.type[1], e.v) EXCEPT !.tag = IF @ = "kind" THEN "nil" ELSE @]

GenLiteral(g, e) ==
  LET h == Intern(g, e) IN At(StackIndex(g, e), SetConstant(h, StackIndex(g, e), LiteralObject(h, e)))

GenArrayLiteral(g, e) ==
  LET h == FoldLeft(Intern, g, e.elements)
      objects == [i \in DOMAIN e.elements |-> LiteralObject(h, e.elements[i])]
  IN At(StackIndex(g, e), SetConstant([h EXCEPT !.heap = Append(@, [k |-> "array", v |-> objects])], StackIndex(g, e),
                                      Object("array", Len(h.heap) + 1)))

GenDictLiteral(g, e) ==
  LET h == FoldLeft(Intern, g, e.values)
      At2(key) == CHOOSE i \in DOMAIN e.keys : e.keys[i] = key /\ \A j \in DOMAIN e.keys : e.keys[j] = key => j <= i
      dict == [key \in {e.keys[i] : i \in DOMAIN e.keys} |-> LiteralObject(h, e.values[At2(key)])]
  IN At(StackIndex(g, e), SetConstant([h EXCEPT !.heap = Append(@, [k |-> "dict", v |-> dict])], StackIndex(g, e),
                                      Object("dict", Len(h.heap) + 1)))

\* Operands use the temporaries from the one this operation leaves its value in.
GenBinaryOp(g, e, root) ==
  LET type == GetType(g, e.l)
      op   == OpcodeFor(e.op, type)
      l    == GenExpressionTerm(IF e.op = "%" /\ op = "NOP" THEN BumpCodeError(g) ELSE g, e.l, FALSE)
      r    == GenExpressionTerm(l.g, e.r, FALSE)
      dest == Destination([r.g EXCEPT !.temp = g.temp], root)
  IN At(dest.i, Push(dest.g, op, <<l.i, r.i, dest.i>>))

GenArraySubscript(g, e, root) ==
  LET index == GenExpressionTerm(g, e.index, FALSE)
      dest  == Destination(index.g, root)
  IN At(dest.i, Push(dest.g, "ArraySubscript", <<StackIndex(g, e), index.i, dest.i>>))

\* The slots of the arguments are kept in `slots`.
GenArguments(g, args, slots) ==
  LET a == GenExpressionTerm(g, Head(args), FALSE)
  IN IF args = <<>> THEN [slots |-> slots, g |-> g] ELSE GenArguments(a.g, Tail(args), Append(slots, a.i))

GenFunctionCall(g, e) ==
  LET untyped == \E i \in DOMAIN e.args : GetType(g, e.args[i]) = Nil
      args   == GenArguments(g, e.args, <<>>)
      h      == args.g
      target == Callee(h, e)
      slot   == StackIndex(h, e)
      bound  == SetConstant(h, slot, Object("function", target))
      name   == GetCFunction(h.P, e.name, GetSpecialization(h.P, e, h.P.fns[h.P.fn].current))
  IN CASE untyped -> BumpCodeError(g)
       [] ~untyped /\ target # 0 ->
            IF h.fns[target].returnType[1] = "process"
            THEN Push(bound, "SpawnProcess", <<h.result, slot>> \o args.slots)
            ELSE Push(bound, "FunctionCall", <<slot>> \o args.slots)
       [] OTHER -> IF name = "none" THEN BumpCodeError(h) ELSE Push(h, name, args.slots)

GenCallTerm(g, e, root) ==
  LET dest == Destination(GenFunctionCall(g, e), root)
      type == LET f == Callee(g, e) IN IF f # 0 THEN g.fns[f].returnType
                                       ELSE GetReturnType(g.P, e, g.P.fns[g.P.fn].current)
  IN At(dest.i, IF type[1] = "process" THEN dest.g
                ELSE Push(dest.g, IF type = StringType THEN "StringCopy" ELSE "Store", <<dest.i, ResultSlot(dest.g)>>))

GenProcessMessage(g, e) ==
  LET slot    == StackIndex(g, e)
      process == StackIndex(g, e.process)
      args    == GenArguments(g, e.call.args, <<>>)
      h       == args.g
      method  == GetMemberFunction(h.P, GetTableEntry(h.P, h.P.fn, e.process.name).target, e.call.name)
      target  == Compiled(h, method, GetSpecialization(h.P, e.call, h.P.fns[h.P.fn].current))
  IN IF method = 0 THEN BumpCodeError(h)
     ELSE Push(SetConstant(h, slot, Object("function", target)), "ProcessMessage", <<process, slot>> \o args.slots)

GenMessageTerm(g, e, root) ==
  LET dest == Destination(GenProcessMessage(g, e), root)
  IN At(dest.i, Push(dest.g, "Store", <<dest.i, ResultSlot(dest.g)>>))

GenExpressionTerm(g, e, root) ==
  CASE e.k = "ident" -> GenIdentifier(g, e)
    [] e.k = "lit"   -> GenLiteral(g, e)
    [] e.k = "bin"   -> GenBinaryOp(g, e, root)
    [] e.k = "call"  -> GenCallTerm(g, e, root)
    [] e.k = "msg"   -> GenMessageTerm(g, e, root)
    [] e.k = "sub"   -> GenArraySubscript(g, e, root)
    [] e.k = "array" -> GenArrayLiteral(g, e)
    [] OTHER         -> GenDictLiteral(g, e)

(***************************************************************************)
(* Statements.                                                             *)
(***************************************************************************)
Start(g) == [g EXCEPT !.result = NoResult, !.temp = g.first]
GenStatements(g, body) == FoldLeft(GenStatement, g, body)

GenReturn(g, e) ==
  LET v == GenExpressionTerm(g, e.v, FALSE)
  IN IF e.v = Null THEN PushOpcode(g, "Return") ELSE Push(v.g, "ReturnValue", <<v.i>>)

\* An element is stored from the slot of the array, where an operation has
\* left its result; a variable is stored where no operation did.
GenAssignment(g, e) ==
  LET target == StackIndex(g, e.l)
      r      == GenExpressionTerm([g EXCEPT !.result = target], e.r, TRUE)
      index  == GenExpressionTerm(r.g, e.l.index, FALSE)
      string == GetType(g, e.l) = StringType
      simple == r.i # target /\ (r.i < g.first \/ r.i = ResultSlot(r.g))
  IN CASE e.l.k = "sub" -> Push(index.g, IF string THEN "StoreArrayStringElement" ELSE "StoreArrayElement",
                                <<target, index.i, r.i>>)
       [] e.l.k = "ident" /\ simple -> Push(r.g, IF string THEN "StringCopy" ELSE "Store", <<target, r.i>>)
       [] OTHER -> r.g

\* The length of the body is set when it is known.
GenFor(g, e) ==
  LET Bound(h, n) == IF n = Null THEN At(0, h) ELSE GenExpressionTerm(h, n, FALSE)
      counter == StackIndex(g, e.counter)
      start == GenExpressionTerm(g, e.start, FALSE)
      end   == Bound(start.g, e.end)
      step  == Bound(end.g, e.step)
      loop  == IF GetType(step.g, e.start)[1] = "array" THEN Push(step.g, "ForA", <<counter, start.i>>)
               ELSE Push(Push(step.g, "Store", <<counter, start.i>>),
                         IF GetType(step.g, e.counter) = FloatType THEN "ForF" ELSE "ForI", <<counter, end.i, step.i>>)
      body  == GenStatements(loop, e.body)
  IN SetOperand(body, Len(Code(loop)), 4, Len(Code(body)) - Len(Code(loop)))

\* A loop or a block: the slot of the condition, the lengths of condition and body.
GenConditional(g, op, e) ==
  LET head == PushOpcode(g, op)
      c    == GenExpressionTerm(head, e.c, FALSE)
      body == GenStatements(c.g, e.body)
      i    == Len(Code(head))
  IN SetOperand(SetOperand(SetOperand(body, i, 1, c.i), i, 2, Len(Code(c.g)) - i), i, 3, Len(Code(body)) - Len(Code(c.g)))

\* GenWhen: the block becomes a function of its own that overlays this one and
\* shares its constants.
GenBlock(g, e) ==
  LET outer == g.fns[g.at]
      block == [outer EXCEPT !.name = e.label, !.code = <<>>, !.whenEval = TRUE, !.method = TRUE]
      inner == [g EXCEPT !.fns = Append(@, block), !.at = Len(g.fns) + 1, !.first = block.tempStart, !.temp = block.tempStart]
      done  == GenConditional(inner, IF e.k = "when" THEN "When" ELSE "Whenever", e)
      kept  == [done EXCEPT !.fns[inner.at].storage = IF g.P.fns[g.P.fn].constructor \/ outer.repl THEN 0 ELSE @,
                            !.fns[g.at].constants = done.fns[inner.at].constants,
                            !.at = g.at, !.first = g.first, !.temp = g.temp]
      slot  == StackIndex(kept, [k |-> "lit", label |-> e.label])
      op    == Push(kept, IF e.k = "when" THEN "WhenRegister" ELSE "WheneverRegister", <<slot>>)
  IN SetConstant(op, slot, Object("function", inner.at))

\* The test of a branch: a comparison of integers with `<` turns into the jump
\* itself; the last instruction of the code is taken for it (before the first
\* one lies memory that is no such instruction).
GenTest(g, condition) ==
  LET c    == GenExpressionTerm(g, condition, FALSE)
      last == Len(Code(c.g))
      op   == Code(c.g)[last]
      jump == PushOpcode(c.g, "JumpIf")
  IN IF last > 0 /\ op.op = "LessThanI"
     THEN At(last, [c.g EXCEPT !.fns[g.at].code[last] = [op |-> "JumpGEQ", a |-> <<op.a[1], op.a[1], op.a[2], op.a[4]>>]])
     ELSE At(last + 1, SetOperand(jump, last + 1, 2, c.i))

\* The branches [c, body] from the second on, `test` being the jump of the one
\* before and `ends` the jumps from the ends of branches to the end of all.
RECURSIVE GenBranches(_, _, _, _)
GenBranches(g, branches, test, ends) ==
  LET end  == PushOpcode(g, "Jump")
      over == SetOperand(end, test, 1, Code(end)[test].a[1] + 1)
      next == IF Head(branches).c = Null THEN At(0, over) ELSE GenTest(over, Head(branches).c)
      body == GenStatements(next.g, Head(branches).body)
      far  == IF next.i = 0 THEN body ELSE SetOperand(body, next.i, 1, Len(Code(body)) - Len(Code(next.g)))
      now  == FoldLeft(LAMBDA h, j : SetOperand(h, j, 1, Code(h)[j].a[1] + Len(Code(body)) - Len(Code(g))), far, ends)
      last == Len(Code(end))
  IN IF branches = <<>> THEN g
     ELSE GenBranches(SetOperand(now, last, 1, Len(Code(body)) - last), Tail(branches), next.i, Append(ends, last))

GenIf(g, e) ==
  LET test == GenTest(g, e.c)
      body == GenStatements(test.g, e.body)
      else == IF e.else = <<>> THEN <<>> ELSE << [c |-> Null, body |-> e.else] >>
  IN GenBranches(SetOperand(body, test.i, 1, Len(Code(body)) - Len(Code(test.g))), e.elseifs \o else, test.i, <<>>)

GenStatement(g, e) ==
  CASE e.k = "return" -> GenReturn(Start(g), e)
    [] e.k = "assign" -> GenAssignment(Start(g), e)
    [] e.k = "for"    -> GenFor(Start(g), e)
    [] e.k = "while"  -> GenConditional(Start(g), "While", e)
    [] e.k = "if"     -> GenIf(Start(g), e)
    [] e.k = "call"   -> GenFunctionCall([Start(g) EXCEPT !.result = g.first], e)
    [] e.k = "msg"    -> GenProcessMessage(Start(g), e)
    [] OTHER          -> GenBlock(Start(g), e)

(***************************************************************************)
(* Functions and modules.                                                  *)
(***************************************************************************)
NewFunction ==
  [name |-> <<>>, source |-> 0, code |-> <<>>, constants |-> <<>>, parametersStart |-> 0, constantsStart |-> 0,
   localsStart |-> 0, tempStart |-> 0, tempEnd |-> 0, storage |-> 0, returnType |-> Nil,
   constructor |-> FALSE, method |-> FALSE, whenEval |-> FALSE, repl |-> FALSE, updated |-> 0]

\* The functions of a module and their blocks, without constructors and methods.
IsFunction(f) == f.whenEval \/ ~(f.constructor \/ f.method)

\* [this][parameters][constants][locals][temporaries]
InitFunction(g, f) ==
  LET T      == Table(g.P, f)
      this   == IF g.P.fns[f].constructor THEN 1 ELSE 0
      params == Len(g.P.fns[f].parameters)
      consts == T.nextConst - params - this
      start  == g.base + this
      locals == start + params + consts
  IN [NewFunction EXCEPT
        !.name = g.P.fns[f].name, !.source = f, !.parametersStart = start, !.constantsStart = start + params,
        !.localsStart = locals, !.tempStart = locals + T.nextVar, !.tempEnd = locals + T.nextVar + g.P.fns[f].temps,
        !.storage = symbol_count(T) + g.P.fns[f].temps, !.constants = <<>> \o [i \in 1 .. consts |-> Zero],
        !.constructor = g.P.fns[f].constructor, !.method = g.P.fns[f].context # 0, !.repl = g.P.fns[f].repl, !.returnType = GetValueType(g.P, f)]

\* The specializations of a function one after the other; a template is left out.
Specializations(g, f, Do(_, _)) ==
  FoldLeft(LAMBDA h, s : LET k == [h EXCEPT !.P.fns[f].current = s - 1, !.P.fn = f]
                         IN IF k.P.fns[f].template[s] THEN k ELSE Do(k, f),
           g, [s \in DOMAIN g.P.fns[f].tables |-> s])

\* Every generated function has its place before any code is generated.
Reserve(g, f) ==
  [g EXCEPT !.fns = @ \o [s \in DOMAIN g.P.fns[f].tables |-> NewFunction],
            !.place = [k \in {<<f, s - 1>> : s \in DOMAIN g.P.fns[f].tables} |-> Len(g.fns) + 1 + k[2]] @@ @]

Prepare(g, f) == LET i == Compiled(g, f, g.P.fns[f].current) IN [g EXCEPT !.fns[i] = InitFunction(g, f)]

\* The specialization that serves as template for others has no code.
GenFunction(g, f) ==
  LET i == Compiled(g, f, g.P.fns[f].current)
      h == GenStatements([g EXCEPT !.at = i, !.first = g.fns[i].tempStart, !.temp = g.fns[i].tempStart], g.P.fns[f].body)
  IN IF g.P.fns[f].current = 0 /\ Len(g.P.fns[f].tables) > 1 THEN [g EXCEPT !.at = i]
     ELSE IF Code(h) # <<>> /\ Last(Code(h)).op \in {"Return", "ReturnValue"} THEN h ELSE PushOpcode(h, "Return")

\* A class: its constructor, then its methods above the symbols of its last specialization.
Class(g, c, Do(_, _)) ==
  LET h    == Specializations(g, c, Do)
      last == h.fns[Compiled(h, c, Len(h.P.fns[c].tables) - 1)]
  IN [FoldLeft(LAMBDA k, f : Specializations(k, f, Do),
               [h EXCEPT !.base = last.storage - h.P.fns[c].temps], h.P.fns[c].members) EXCEPT !.base = 0]

NewGenerator(P) ==
  [P |-> P, fns |-> <<>>, place |-> <<>>, at |-> 0, base |-> 0, result |-> NoResult, first |-> 0, temp |-> 0, operand |-> 0,
   heap |-> <<>>, strings |-> <<>>, errs |-> 0]

\* First all functions are laid out, then their code is generated.
GenModule(P) ==
  LET m     == P.mods[P.mod]
      own   == SelectSeq(m.functions, LAMBDA f : ~P.fns[f].ccall)
      all   == own \o FlattenSeq([i \in DOMAIN m.classes |-> <<m.classes[i]>> \o P.fns[m.classes[i]].members])
      g     == FoldLeft(Reserve, NewGenerator(P), all)
      Pass(h, Do(_, _)) == FoldLeft(LAMBDA k, c : Class(k, c, Do),
                                    FoldLeft(LAMBDA k, f : Specializations(k, f, Do), h, own), m.classes)
  IN Pass(Pass(g, Prepare), GenFunction)
=============================================================================
