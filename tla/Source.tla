------------------------------- MODULE Source -------------------------------
(***************************************************************************)
(* Programs as their author sees them, apart from how they are compiled:   *)
(* syntax trees (the nodes of module Syntax, without places and labels),   *)
(* the tokens they are written with, and what they print.  This is the     *)
(* reference that modules Language and Repl compare the compiler and the   *)
(* virtual machine with.                                                   *)
(***************************************************************************)
EXTENDS Integers, Sequences, SequencesExt, Syntax

(***************************************************************************)
(* Trees.                                                                  *)
(***************************************************************************)
Name(n) == Identifier(<<n>>, 0)
Number(n) == Literal(<<"int">>, n, <<>>)
Real(units) == Literal(<<"float">>, units, <<>>)
Text(s) == Literal(<<"string">>, s, <<>>)
Truth(b) == Literal(<<"bool">>, b, <<>>)
Elements(s) == ArrayLiteral(s, <<>>)
Pairs(keys, values) == DictLiteral(keys, values, <<>>)
Bin(l, op, r) == BinaryOp(op, l, r)
Index(name, i) == ArraySubscript(Name(name), i)
Invoke(name, args) == CallNode(<<name>>, args, <<>>, 0)
Send(process, name, args) == Message(Name(process), Invoke(name, args))
Let(name, e) == Assignment(Name(name), e)
Echo(e) == Invoke("print", <<e>>)
ForRange(name, from, to, by, body) == For(Name(name), from, to, by, body)
When(c, body) == Block("when", <<>>, c, body)
Whenever(c, body) == Block("whenever", <<>>, c, body)
Def(name, parameters, body) == [FunctionNode(<<name>>, FALSE) EXCEPT !.parameters = parameters, !.body = body]
Class(name, parameters, body, methods) ==
  [FunctionNode(<<name>>, TRUE) EXCEPT !.parameters = parameters, !.body = body, !.functions = methods]

(***************************************************************************)
(* Tokens.                                                                 *)
(***************************************************************************)
T(k) == <<[k |-> k, v |-> 0]>>
Word(name) == <<[k |-> "ident", v |-> name]>>
NewLine == T("nl")

\* The further down the list an operator stands, the tighter it binds.
Precedence == << {"or"}, {"and"}, {"|"}, {"^"}, {"&"}, {"<", ">", "==", "!=", "<=", ">="}, {"<<", ">>"}, {"+", "-"},
                 {"*", "/", "%"} >>
Tightness(op) == CHOOSE i \in DOMAIN Precedence : op \in Precedence[i]

Separated(texts) == FoldLeft(LAMBDA all, t : IF all = <<>> THEN t ELSE all \o T(",") \o t, <<>>, texts)

Sign(n) == IF n < 0 THEN T("-") ELSE <<>>
Magnitude(n) == IF n < 0 THEN -n ELSE n

LiteralTokens(e) ==
  CASE e.type[1] = "bool"   -> T(IF e.v THEN "true" ELSE "false")
    [] e.type[1] = "string" -> <<[k |-> "string", v |-> e.v]>>
    [] e.type[1] = "kind"   -> T(":") \o Word(e.v)
    [] OTHER -> Sign(e.v) \o <<[k |-> e.type[1], v |-> Magnitude(e.v)]>>

\* An expression where operators of at least this tightness need no parentheses.
RECURSIVE Tokens(_, _)
Arguments(args) == T("(") \o Separated([i \in DOMAIN args |-> Tokens(args[i], 1)]) \o T(")")
Tokens(e, level) ==
  LET t == Tightness(e.op)
      operation == Tokens(e.l, t) \o T(e.op) \o Tokens(e.r, t + 1)
  IN CASE e.k = "ident" -> Word(e.name)
       [] e.k = "lit"   -> LiteralTokens(e)
       [] e.k = "array" -> T("[") \o Separated([i \in DOMAIN e.elements |-> Tokens(e.elements[i], 1)]) \o T("]")
       [] e.k = "dict"  -> T("{") \o Separated([i \in DOMAIN e.keys |-> Word(<<e.keys[i]>>) \o T(":")
                                                                       \o Tokens(e.values[i], 1)]) \o T("}")
       [] e.k = "sub"   -> Word(e.ident.name) \o T("[") \o Tokens(e.index, 1) \o T("]")
       [] e.k = "call"  -> Word(e.name) \o Arguments(e.args)
       [] e.k = "msg"   -> Word(e.process.name) \o T("->") \o Word(e.call.name) \o Arguments(e.call.args)
       [] OTHER -> IF t < level THEN T("(") \o operation \o T(")") ELSE operation

Expression(e) == Tokens(e, 1)

RECURSIVE Lines(_)
LineOf(s) ==
  CASE s.k = "assign" -> Expression(s.l) \o T("=") \o Expression(s.r)
    [] s.k = "return" -> T("return") \o IF s.v = Null THEN <<>> ELSE Expression(s.v)
    [] s.k \in {"while", "when", "whenever"} ->
         T(s.k) \o Expression(s.c) \o T(":") \o NewLine \o Lines(s.body) \o T("end")
    [] s.k = "for" ->
         T("for") \o Expression(s.counter) \o T("in") \o Expression(s.start)
           \o (IF s.end = Null THEN <<>> ELSE T("to") \o Expression(s.end))
           \o (IF s.step = Null THEN <<>> ELSE T("by") \o Expression(s.step))
           \o T(":") \o NewLine \o Lines(s.body) \o T("end")
    [] s.k = "if" ->
         T("if") \o Expression(s.c) \o T(":") \o NewLine \o Lines(s.body)
           \o FlattenSeq([i \in DOMAIN s.elseifs |-> T("elif") \o Expression(s.elseifs[i].c) \o T(":") \o NewLine
                                                      \o Lines(s.elseifs[i].body)])
           \o (IF s.else = <<>> THEN <<>> ELSE T("else") \o T(":") \o NewLine \o Lines(s.else)) \o T("end")
    [] OTHER -> Expression(s)
Lines(body) == FlattenSeq([i \in DOMAIN body |-> LineOf(body[i]) \o NewLine])

RECURSIVE Definition(_)
Definition(f) ==
  T(IF f.constructor THEN "class" ELSE "def") \o Word(f.name) \o T("(")
    \o Separated([i \in DOMAIN f.parameters |-> Word(f.parameters[i])]) \o T(")") \o T(":") \o NewLine
    \o Lines(f.body) \o FlattenSeq([i \in DOMAIN f.functions |-> Definition(f.functions[i])])
    \o T("end") \o NewLine

Module(definitions) == FlattenSeq([i \in DOMAIN definitions |-> Definition(definitions[i])]) \o T("eof")

(***************************************************************************)
(* Characters, as module Lexer takes them.                                 *)
(***************************************************************************)
RECURSIVE Decimal(_)
Decimal(n) == IF n < 10 THEN <<ToString(n)>> ELSE Decimal(n \div 10) \o <<ToString(n % 10)>>

\* A float with all its decimals.
Fraction(n) == Tail(Decimal(10^7 + n))

Spelling(t) ==
  CASE t.k = "ident"  -> FoldLeft(LAMBDA all, part : all \o <<":", ":", part>>, <<Head(t.v)>>, Tail(t.v))
    [] t.k = "int"    -> Decimal(t.v)
    [] t.k = "float"  -> Decimal(t.v \div 10^7) \o <<".">> \o Fraction(t.v % 10^7)
    [] t.k = "string" -> <<"\"", t.v, "\"">>
    [] t.k = "nl"     -> <<"\n">>
    [] t.k = "eof"    -> <<>>
    [] t.k = "->"     -> <<"-", ">">>
    [] t.k \in {"==", "!=", "<=", ">="} -> <<CASE t.k = "==" -> "=" [] t.k = "!=" -> "!" [] t.k = "<=" -> "<" [] OTHER -> ">", "=">>
    [] t.k \in {"<<", ">>"} -> IF t.k = "<<" THEN <<"<", "<">> ELSE <<">", ">">>
    [] OTHER -> <<t.k>>

\* Blanks stand only where two tokens would otherwise be one.
Keywords == {"def", "class", "end", "namespace", "import", "from", "if", "elif", "else", "for", "in", "to", "by", "while",
             "when", "whenever", "return", "true", "false", "and", "or"}
Alphanumeric(t) == t.k \in {"ident", "int", "float"} \union Keywords
Written(tokens) ==
  FlattenSeq([i \in DOMAIN tokens |->
    (IF i > 1 /\ Alphanumeric(tokens[i]) /\ Alphanumeric(tokens[i - 1]) THEN <<" ">> ELSE <<>>) \o Spelling(tokens[i])])

(***************************************************************************)
(* Meaning of a program without processes.  Values are tagged; `out` is    *)
(* what was printed, `ret` the value returned, in a sequence.               *)
(***************************************************************************)
V(t, v) == [t |-> t, v |-> v]
Of(v, st) == [v |-> v, st |-> st]
Divides(a, b) == IF (a < 0) = (b < 0) THEN Magnitude(a) \div Magnitude(b) ELSE -(Magnitude(a) \div Magnitude(b))

Apply(op, a, b) ==
  CASE op = "+" /\ a.t = "string" -> V("string", a.v \o b.v)
    [] op = "+" /\ a.t # "string" -> V(a.t, a.v + b.v)
    [] op = "-" -> V(a.t, a.v - b.v)
    [] op = "*" -> V(a.t, a.v * b.v)
    [] op = "/" -> V(a.t, Divides(a.v, b.v))
    [] op = "%" -> V(a.t, a.v - b.v * Divides(a.v, b.v))
    [] op = "<<" -> V(a.t, a.v * 2^b.v)
    [] op = ">>" -> V(a.t, a.v \div 2^b.v)
    [] op = "==" -> V("bool", a.v = b.v)
    [] op = "!=" -> V("bool", a.v # b.v)
    [] op = "<"  -> V("bool", a.v < b.v)
    [] op = ">"  -> V("bool", a.v > b.v)
    [] op = "<=" -> V("bool", a.v <= b.v)
    [] op = ">=" -> V("bool", a.v >= b.v)
    [] op = "and" -> V("bool", a.v /\ b.v)
    [] op = "or" -> V("bool", a.v \/ b.v)

Printed(value) == IF value.t \in {"array", "dict"} THEN [i \in DOMAIN value.v |-> value.v[i].v] ELSE value.v

RECURSIVE Eval(_, _, _), EvalAll(_, _, _), Do(_, _, _), DoAll(_, _, _), Loop(_, _, _), Count(_, _, _, _), Each(_, _, _, _)

EvalAll(F, args, st) ==
  FoldLeft(LAMBDA r, e : LET x == Eval(F, e, r.st) IN Of(Append(r.v, x.v), x.st), Of(<<>>, st), args)

\* Library functions on values; the ones that change an array are statements.
Library(name, args) ==
  CASE name = <<"to_string">> -> V("string", ToString(args[1].v))
    [] name = <<"to_float">> -> V("float", args[1].v * 10000000)
    [] name = <<"to_int">> -> V("int", Divides(args[1].v, 10000000))
    [] name = <<"size">> -> V("int", Len(args[1].v))
    [] name = <<"top">> -> Last(args[1].v)
    [] name = <<"array">> -> V("array", <<>>)
    [] OTHER -> V("nil", 0)

Call(F, e, st) ==
  LET args == EvalAll(F, e.args, st)
      f    == F[e.name]
      env  == [p \in {f.parameters[i] : i \in DOMAIN f.parameters} |->
                 args.v[CHOOSE i \in DOMAIN f.parameters : f.parameters[i] = p]]
      end  == DoAll(F, f.body, [env |-> env, out |-> args.st.out, ret |-> <<>>])
      after == [args.st EXCEPT !.out = end.out]
  IN IF e.name = <<"print">> THEN Of(V("nil", 0), [args.st EXCEPT !.out = Append(@, Printed(args.v[1]))])
     ELSE IF e.name \in DOMAIN F THEN Of(IF end.ret = <<>> THEN V("nil", 0) ELSE end.ret[1], after)
     ELSE Of(Library(e.name, args.v), args.st)

Eval(F, e, st) ==
  CASE e.k = "lit" -> Of(V(e.type[1], e.v), st)
    [] e.k = "ident" -> Of(st.env[e.name], st)
    [] e.k = "array" -> LET r == EvalAll(F, e.elements, st) IN Of(V("array", r.v), r.st)
    [] e.k = "dict" -> LET r == EvalAll(F, e.values, st)
                       IN Of(V("dict", [n \in {e.keys[i] : i \in DOMAIN e.keys} |->
                                          r.v[CHOOSE i \in DOMAIN e.keys : e.keys[i] = n]]), r.st)
    [] e.k = "sub" -> LET i == Eval(F, e.index, st)
                          a == st.env[e.ident.name]
                      IN Of(a.v[IF a.t = "array" THEN i.v.v + 1 ELSE i.v.v], i.st)
    [] e.k = "call" -> Call(F, e, st)
    [] OTHER -> LET l == Eval(F, e.l, st) r == Eval(F, e.r, l.st) IN Of(Apply(e.op, l.v, r.v), r.st)

Bind(st, name, v) == [st EXCEPT !.env = (name :> v) @@ @]
Holds(F, c, st) == Eval(F, c, st).v.v

Loop(F, s, st) ==
  IF st.ret # <<>> \/ ~Holds(F, s.c, st) THEN st ELSE Loop(F, s, DoAll(F, s.body, Eval(F, s.c, st).st))

\* The bounds of a range are computed once.
Count(F, s, i, st) ==
  LET end == Eval(F, s.end, st).v.v
      step == IF s.step = Null THEN 1 ELSE Eval(F, s.step, st).v.v
      more == IF step >= 0 THEN i < end ELSE i > end
  IN IF st.ret # <<>> \/ ~more THEN st
     ELSE Count(F, s, i + step, DoAll(F, s.body, Bind(st, s.counter.name, V(s.start.type[1], i))))

Each(F, s, elements, st) ==
  IF elements = <<>> THEN st
  ELSE Each(F, s, Tail(elements), DoAll(F, s.body, Bind(st, s.counter.name, Head(elements))))

\* The branches of an `if`: the first whose condition holds.
RECURSIVE Branch(_, _, _, _)
Branch(F, branches, else, st) ==
  IF branches = <<>> THEN DoAll(F, else, st)
  ELSE IF Holds(F, Head(branches).c, st) THEN DoAll(F, Head(branches).body, st)
  ELSE Branch(F, Tail(branches), else, st)

ChangeArray(F, e, st) ==
  LET name == e.args[1].name
      a == st.env[name].v
  IN CASE e.name = <<"push">> -> Bind(st, name, V("array", Append(a, Eval(F, e.args[2], st).v)))
       [] e.name = <<"pop">> -> Bind(st, name, V("array", Front(a)))
       [] OTHER -> Bind(st, name, V("array", <<>>))

Do(F, s, st) ==
  LET r == Eval(F, s.r, st)
      i == Eval(F, s.l.index, r.st).v.v + 1
  IN CASE s.k = "assign" /\ s.l.k = "ident" -> Bind(r.st, s.l.name, r.v)
       [] s.k = "assign" /\ s.l.k = "sub" -> Bind(r.st, s.l.ident.name, V("array", [r.st.env[s.l.ident.name].v EXCEPT ![i] = r.v]))
       [] s.k = "return" -> IF s.v = Null THEN [st EXCEPT !.ret = <<V("nil", 0)>>]
                            ELSE LET v == Eval(F, s.v, st) IN [v.st EXCEPT !.ret = <<v.v>>]
       [] s.k = "if" -> Branch(F, <<[c |-> s.c, body |-> s.body]>> \o s.elseifs, s.else, st)
       [] s.k = "while" -> Loop(F, s, st)
       [] s.k = "for" -> IF s.end = Null THEN Each(F, s, Eval(F, s.start, st).v.v, st)
                         ELSE Count(F, s, Eval(F, s.start, st).v.v, st)
       [] OTHER -> IF s.name \in {<<"push">>, <<"pop">>, <<"clear">>} THEN ChangeArray(F, s, st) ELSE Eval(F, s, st).st

DoAll(F, body, st) == FoldLeft(LAMBDA now, s : IF now.ret # <<>> THEN now ELSE Do(F, s, now), st, body)

\* What main() prints.
Prints(definitions) ==
  LET F == [n \in {definitions[i].name : i \in DOMAIN definitions} |->
              definitions[CHOOSE i \in DOMAIN definitions : definitions[i].name = n]]
  IN DoAll(F, F[<<"main">>].body, [env |-> <<>>, out |-> <<>>, ret |-> <<>>]).out
=============================================================================
