----------------------------- MODULE TypeInfer ------------------------------
(***************************************************************************)
(* Type inference (src/src/eople_type_infer.cpp).  Types flow through the  *)
(* statements of a function in order; a call infers the function it calls  *)
(* for the types of its arguments.  An operator on an expression returns   *)
(* the InferenceState [type, clear] and the program; after a throw what it *)
(* does is of no consequence.                                              *)
(***************************************************************************)
EXTENDS Program

InferenceState(type, clear, P) == [type |-> type, clear |-> clear, P |-> P]
Unknown(P) == InferenceState(Nil, FALSE, P)
Error(s) == [s EXCEPT !.P = BumpTypeError(@)]

Boolean    == {">", "<", "==", "!=", "<=", ">=", "and", "or"}
Bitwise    == {"<<", ">>", "&", "^", "|"}

RECURSIVE PropagateType(_, _, _), PropagateCall(_, _, _), PropagateMessage(_, _), InferStatement(_, _),
          InferFunction(_, _), ArgumentTypes(_, _, _), PropagateElements(_, _, _, _)

PropagateIdentifier(P, e, type) ==
  LET mine == GetExpressionType(P, P.fn, e)
  IN CASE type = Nil -> InferenceState(mine, mine # Nil, P)
       [] type # Nil /\ mine[1] = "promise" /\ (type = BoolType \/ type[1] = "promise") ->
            InferenceState(type, TRUE, [P EXCEPT !.guards = @ \union {e.id}])
       [] type # Nil /\ mine \notin {Nil, type} /\ mine[1] # "promise" -> Error(Unknown(P))
       [] type # Nil /\ mine[1] = "promise" /\ type # BoolType /\ type[1] # "promise" -> Error(Unknown(P))
       [] OTHER -> InferenceState(type, TRUE, IF e.id \in P.guards THEN P
                                              ELSE TrySetExpressionType(P, P.fn, e, type))

PropagateLiteral(P, e, type) ==
  InferenceState(e.type, TRUE, IF type \in {Nil, e.type} THEN P ELSE BumpTypeError(P))

\* The types of the arguments from i on, known up to the first unknown one.
ArgumentTypes(s, args, i) ==
  LET a == PropagateType(s.P, args[i], Nil)
  IN IF i > Len(args) THEN s
     ELSE IF a.type = Nil THEN [s EXCEPT !.type = Nil, !.P = a.P]
     ELSE ArgumentTypes([types |-> Append(s.types, a.type), type |-> a.type, P |-> a.P], args, i + 1)

\* Where only that they are clear counts, up to the first that is not.
RECURSIVE ClearArguments(_, _)
ClearArguments(P, args) ==
  LET a == PropagateType(P, Head(args), Nil)
  IN IF args = <<>> \/ ~a.clear THEN InferenceState(Nil, args = <<>>, IF args = <<>> THEN P ELSE a.P)
     ELSE ClearArguments(a.P, Tail(args))

Arguments(P, args) == ArgumentTypes([types |-> <<>>, type |-> AnyType, P |-> P], args, 1)

\* What a call and a message do once the types of the arguments are known.
Specialize(P, f, e, call, types) ==
  LET found == FindSpecializationForArgs(P, f, types)
      named == [SetParameterClassNames(found.P, f, found.s, call.args, types, 1) EXCEPT
                  !.fns[f].current = found.s]
      bound == SetSpecialization(named, call, named.fns[named.fn].current, found.s)
      Q     == RegisterCall(bound, bound.fn, e)
  IN InferFunction(IF Q.fns[f].constructor THEN TrySetValueType(Q, f, ProcessType(Q.fns[f].name)) ELSE Q, f)

\* InferProcessMessage looks at the arguments first and changes nothing else.
PropagateMessage(P, e) ==
  LET f    == FunctionFromProcessMessage(P, GetTableEntry(P, P.fn, e.process.name).target, e.call)
      args == Arguments(ClearArguments(P, e.call.args).P, e.call.args)
      Q    == Specialize(args.P, f, e, e.call, args.types)
      type == GetValueType(Q, f)
      R    == IF type[1] = "nil" THEN Q ELSE TrySetReturnType(Q, e.call, Q.fns[Q.fn].current, type)
  IN IF f = 0 THEN InferenceState(Promise(Nil), FALSE, P)
     ELSE IF Len(P.fns[f].parameters) # Len(e.call.args)
       THEN Error(InferenceState(Promise(Nil), FALSE, P))
     ELSE IF args.type = Nil THEN Unknown(args.P)
     ELSE InferenceState(Promise(type), TRUE, R)

\* Some library functions have their types here.
ExpectedType(P, e, type) ==
  CASE e.name \in {<<"get_value">>, <<"top">>} -> GetExpressionVaryingType(P, P.fn, e.args[1])
    [] e.name = <<"array">> -> ArrayOf(e.args[1].v)
    [] OTHER -> type

PushedElement(P, e) ==
  IF e.name # <<"push">> THEN P
  ELSE TrySetExpressionType(P, P.fn, e.args[2], GetVaryingType(GetExpressionType(P, P.fn, e.args[1])))

Compatible(result, type) ==
  \/ result[1] \in {"nil", "any"} \/ result = type
  \/ GetVaryingType(result)[1] = "any" \/ GetVaryingType(result) = GetVaryingType(type)

PropagateCall(P, e, expected) ==
  LET f      == FunctionFromCall(P, e)
      type   == ExpectedType(P, e, expected)
      args   == Arguments(PushedElement(P, e), e.args)
      Q      == Specialize(args.P, f, e, e, args.types)
      result == GetValueType(Q, f)
      Returns(t) == InferenceState(t, TRUE, TrySetReturnType(Q, e, Q.fns[Q.fn].current, t))
  IN IF f = 0 THEN Error(Unknown(P))
     ELSE IF args.type = Nil THEN Unknown(args.P)
     ELSE IF Len(P.fns[f].parameters) # Len(e.args) THEN Error(Unknown(args.P))
     ELSE IF type[1] = "nil" THEN IF result[1] = "nil" THEN Unknown(Q) ELSE Returns(result)
     ELSE IF Compatible(result, type) THEN Returns(type) ELSE Error(Unknown(Q))

\* The first element with a complete type, then the same type for all.
PropagateElements(s, elements, type, i) ==
  LET a == PropagateType(s.P, elements[i], type)
      known == a.clear /\ ~IsIncompleteType(a.type)
  IN IF i > Len(elements) THEN s
     ELSE IF type = Nil THEN IF known THEN a
                             ELSE PropagateElements([s EXCEPT !.P = a.P], elements, type, i + 1)
     ELSE IF ~a.clear THEN [s EXCEPT !.clear = FALSE, !.P = a.P]
     ELSE PropagateElements([s EXCEPT !.P = a.P], elements, type, i + 1)

PropagateArrayLiteral(P, e) ==
  LET first == PropagateElements(Unknown(P), e.elements, Nil, 1)
      all   == IF first.clear THEN PropagateElements(first, e.elements, first.type, 1) ELSE first
  IN IF first.clear /\ ~all.clear THEN all
     ELSE InferenceState(ArrayOf(first.type), first.clear, [all.P EXCEPT !.arrays = Put(@, e.label, first.type)])

\* Comparisons pass no type to their operands, `and` and `or` the one they are given,
\* bit operators int; then the operand without a type gets that of the other.
PropagateBinaryOp(P, e, type) ==
  LET wrong == \/ e.op \in Boolean /\ type[1] \notin {"nil", "bool"}
               \/ e.op \in Bitwise /\ type[1] \notin {"nil", "int"}
      inner == CASE e.op \in Boolean \ {"and", "or"} -> Nil
                 [] e.op \in Bitwise -> IntType
                 [] OTHER -> type
      l == PropagateType(IF wrong THEN BumpTypeError(P) ELSE P, e.l, inner)
      r == PropagateType(l.P, e.r, inner)
      promises == e.op \in Boolean /\ {l.type[1], r.type[1]} \subseteq {"promise", "bool"}
      mismatch == Nil \notin {l.type, r.type} /\ l.type # r.type /\ ~promises
      r2 == IF l.type # Nil /\ r.type = Nil THEN PropagateType(r.P, e.r, l.type) ELSE r
      l2 == IF l.type = Nil /\ r.type # Nil THEN PropagateType(r.P, e.l, r.type) ELSE l
      Q  == IF l.type = Nil /\ r.type # Nil THEN l2.P ELSE r2.P
  IN InferenceState(IF e.op \in Boolean THEN BoolType ELSE l2.type, l2.clear /\ r2.clear,
                    IF mismatch THEN BumpTypeError(Q) ELSE Q)

\* The condition that ParseCondition failed on is a null pointer.
PropagateType(P, e, type) ==
  CASE e.k = "null"  -> InferenceState(Nil, FALSE, Throw(P))
    [] e.k = "ident" -> PropagateIdentifier(P, e, type)
    [] e.k = "lit"   -> PropagateLiteral(P, e, type)
    [] e.k = "sub"   -> InferenceState(GetVaryingType(GetExpressionType(P, P.fn, e.ident)), TRUE, P)
    [] e.k = "bin"   -> PropagateBinaryOp(P, e, type)
    [] e.k = "call"  -> PropagateCall(P, e, type)
    [] e.k = "msg"   -> PropagateMessage(P, e)
    [] e.k = "array" -> PropagateArrayLiteral(P, e)
    [] OTHER         -> InferenceState(DictType, TRUE, P)

(***************************************************************************)
(* Statements.                                                             *)
(***************************************************************************)
DelayedCheck(P, statement) ==
  IF \E i \in DOMAIN P.check : P.check[i].statement = statement THEN P
  ELSE [P EXCEPT !.check = Append(@, [fn |-> P.fn, statement |-> statement])]

RECURSIVE InferStatements(_, _), InferElseIfs(_, _, _)
InferStatements(P, body) == FoldLeft(InferStatement, P, body)

CheckUnless(clear, P, statement) == IF clear THEN P ELSE DelayedCheck(P, statement)

\* A variable that is given a process takes the name of its class.
AssignProcess(P, e) ==
  CASE e.r.k = "call"  -> SetEntry(P, P.fn, e.l.name, "target", e.r.name)
    [] e.r.k = "ident" -> SetEntry(P, P.fn, e.l.name, "target", GetTableEntry(P, P.fn, e.r.name).target)
    [] OTHER -> BumpTypeError(P)

InferAssignment(P, e) ==
  LET l == PropagateType(P, e.l, Nil)
      r == PropagateType(l.P, e.r, Nil)
      Has(t) == t # Nil /\ t # Promise(Nil)
      Q == IF r.type[1] = "process" THEN AssignProcess(r.P, e) ELSE r.P
      guard == e.l.k = "ident" /\ e.l.id \in Q.guards /\ r.type[1] = "promise"
      r2 == IF ~guard /\ Has(l.type) /\ ~Has(r.type) THEN PropagateType(Q, e.r, l.type) ELSE [r EXCEPT !.P = Q]
      l2 == IF ~guard /\ ~Has(l.type) /\ Has(r.type) THEN PropagateType(r2.P, e.l, r.type)
            ELSE [l EXCEPT !.P = r2.P]
      mismatch == ~guard /\ Has(l.type) /\ Has(r.type) /\ l.type # r.type
  IN CheckUnless(guard \/ (l2.clear /\ r2.clear), IF mismatch THEN BumpTypeError(l2.P) ELSE l2.P, e)

InferElseIfs(P, e, i) ==
  LET c == PropagateType(P, e.elseifs[i].c, BoolType)
  IN IF i > Len(e.elseifs) THEN P
     ELSE InferElseIfs(InferStatements(CheckUnless(c.clear, c.P, e), e.elseifs[i].body), e, i + 1)

\* `if`, `while`, `when` and `whenever` begin with a condition.
InferCondition(P, e) ==
  LET c == PropagateType(P, e.c, BoolType)
      Q == InferStatements(CheckUnless(c.clear, c.P, e), e.body)
  IN IF e.k = "if" THEN InferStatements(InferElseIfs(Q, e, 1), e.else) ELSE Q

\* The end, the step and the counter have the type of the start or of its elements.
InferFor(P, e) ==
  LET start == PropagateType(P, e.start, Nil)
      type  == IF start.type[1] = "array" THEN GetExpressionVaryingType(start.P, P.fn, e.start) ELSE start.type
      Bound(s, n) == IF n = Null THEN s
                     ELSE LET b == PropagateType(s.P, n, type) IN [b EXCEPT !.clear = @ /\ s.clear]
      all == Bound(Bound(Bound([start EXCEPT !.clear = TRUE], e.end), e.step), e.counter)
  IN InferStatements(IF type = Nil THEN DelayedCheck(start.P, e) ELSE CheckUnless(start.clear /\ all.clear, all.P, e),
                     e.body)

InferCall(P, e) ==
  LET f == FunctionFromCall(P, e)
      args == ClearArguments(P, e.args)
  IN IF f = 0 THEN BumpTypeError(P)
     ELSE IF Len(P.fns[f].parameters) # Len(e.args) THEN BumpTypeError(P)
     ELSE IF args.clear THEN PropagateCall(args.P, e, Nil).P ELSE args.P

InferMessage(P, e) ==
  LET f    == FunctionFromProcessMessage(P, GetTableEntry(P, P.fn, e.process.name).target, e.call)
      sent == PropagateMessage(P, e)
      args == Arguments(sent.P, e.call.args)
      Q    == Specialize(args.P, f, e, e.call, args.types)
      type == GetValueType(Q, f)
  IN IF f = 0 THEN DelayedCheck(P, e)
     ELSE IF Len(P.fns[f].parameters) # Len(e.call.args) THEN BumpTypeError(P)
     ELSE IF args.type = Nil THEN args.P
     ELSE IF type[1] = "nil" THEN Q ELSE TrySetReturnType(Q, e.call, Q.fns[Q.fn].current, type)

InferReturn(P, e) ==
  LET v == PropagateType(P, e.v, Nil)
      Q == CheckUnless(v.clear, v.P, e)
  IN IF e.v = Null THEN P ELSE IF v.type = Nil THEN Q ELSE TrySetValueType(Q, Q.fn, v.type)

InferStatement(P, e) ==
  CASE e.k = "assign" -> InferAssignment(P, e)
    [] e.k \in {"if", "while", "when", "whenever"} -> InferCondition(P, e)
    [] e.k = "for"    -> InferFor(P, e)
    [] e.k = "call"   -> InferCall(P, e)
    [] e.k = "msg"    -> InferMessage(P, e)
    [] OTHER          -> InferReturn(P, e)

\* InferFunction and InferClass: the body, then the methods, once for each specialization.
InferFunction(P, f) ==
  LET now == P.fns[f].current + 1
      Q   == InferStatements([P EXCEPT !.fns[f].template[now] = FALSE, !.fn = f], P.fns[f].body)
  IN IF P.fns[f].ccall \/ ~P.fns[f].template[now] THEN P
     ELSE [FoldLeft(InferFunction, Q, P.fns[f].members) EXCEPT !.fn = P.fn]

(***************************************************************************)
(* Statements without a type are looked at once more when all else is      *)
(* inferred, in the specialization their function has by then.             *)
(***************************************************************************)
Recheck(P) ==
  FoldLeft(LAMBDA Q, c : InferStatement([Q EXCEPT !.fn = c.fn], c.statement), P, P.check)

\* InferTypes: from the entry function on.
InferTypes(P, name) ==
  LET s == SelectSeq(P.mods[P.mod].functions, LAMBDA f : P.fns[f].name = name)
      start == [P EXCEPT !.errs = 0]
      Q == IF s = <<>> THEN start ELSE InferFunction(start, Head(s))
  IN IF Q.errs > 0 THEN Q ELSE Recheck(Q)
=============================================================================
