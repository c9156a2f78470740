------------------------------- MODULE Parser -------------------------------
(***************************************************************************)
(* The recursive descent parser (src/src/eople_parse.cpp).  The text is a  *)
(* sequence of tokens [k |-> kind, v |-> payload] that ends in "eof".  An  *)
(* operator takes a parser state p and returns [n |-> node, p |-> state];  *)
(* the node is Null where the code returns nullptr.                        *)
(*   text                              how many texts were parsed           *)
(*   toks, at, line, lastLine, errLine   lexer position and line numbers   *)
(*   errs                                m_error_count                     *)
(*   tc, tm                              m_temp_count, m_temp_max          *)
(*   whens, whenevers                    m_when_count, m_whenever_count    *)
(*   labels       the static counters that name literals, by kind          *)
(*   open         functions being parsed, the innermost (m_function) last  *)
(*   context      the first of them that inner functions see (m_context_stack) *)
(*   spaces       m_namespace_stack, the enclosing namespace last          *)
(*   classes, functions, structs, imports        what the module holds     *)
(***************************************************************************)
EXTENDS Integers, Sequences, SequencesExt, Syntax

CONSTANT LabelValues  \* how many values a static char counter has (256)

ASSUME LabelsAssumption == LabelValues \in Nat \ {0}

(***************************************************************************)
(* Tokens, errors, temporaries.                                            *)
(***************************************************************************)
Tok(p) == p.toks[p.at].k
Place(p) == <<p.text, p.at>>
Payload(p) == p.toks[p.at].v
Res(n, p) == [n |-> n, p |-> p]

\* A name as text, the key of a dictionary.
Spelled(name) == FoldLeft(LAMBDA s, part : s \o "::" \o part, Head(name), Tail(name))

\* The lexer has read one token ahead: `line` counts the newlines up to it.
ConsumeToken(p) ==
  LET next == IF p.at < Len(p.toks) THEN p.at + 1 ELSE p.at
  IN [p EXCEPT !.lastLine = p.line, !.at = next,
               !.line = IF next # p.at /\ p.toks[next].k = "nl" THEN @ + 1 ELSE @]

RECURSIVE ConsumeNewlines(_)
ConsumeNewlines(p) == IF Tok(p) = "nl" THEN ConsumeNewlines(ConsumeToken(p))
                      ELSE [p EXCEPT !.lastLine = p.line]

BumpError(p) == [p EXCEPT !.errs = @ + 1, !.errLine = p.lastLine]
Fail(p) == Res(Null, BumpError(p))
FailOnce(p) == IF p.lastLine # p.errLine THEN Fail(p) ELSE Res(Null, p)

\* ConsumeExpected where the code reports a missing token and goes on.
Expect(p, k) == IF Tok(p) = k THEN ConsumeToken(p) ELSE BumpError(p)

\* m_temp_max takes the temporaries counted since the last reset.
KeepTemps(p) == [p EXCEPT !.tm = IF p.tc > @ THEN p.tc ELSE @, !.tc = 0]

(***************************************************************************)
(* Names.  m_function is the innermost open function; it sees its own      *)
(* symbols and those of the functions that enclose it.                     *)
(***************************************************************************)
EnterSymbol(p, name, constant) ==
  IF p.open = <<>> THEN p
  ELSE [p EXCEPT !.open[Len(p.open)].symbols = Declare(@, name, constant)]

Known(p, name) ==
  \E i \in DOMAIN p.open : /\ i = Len(p.open) \/ i >= p.context
                           /\ Find(p.open[i].symbols, name) # NotFound

\* A literal, an array or a key gets a label from the static counter of its kind.
NewLabel(p, kind) ==
  LET label == <<"$" \o kind, ToString(p.labels[kind])>>
  IN Res(label, EnterSymbol([p EXCEPT !.labels[kind] = (@ + 1) % LabelValues], label, TRUE))

ParseUniqueIdentifier(p) ==
  IF Tok(p) # "ident" THEN Res(Null, p)
  ELSE LET q == ConsumeToken(p)
       IN IF p.open # <<>> /\ HasSymbol(Last(p.open).symbols, Payload(p)) THEN Fail(q)
          ELSE Res(Identifier(Payload(p), Place(p)), EnterSymbol(q, Payload(p), FALSE))

\* A name that no enclosing function knows becomes a variable of this one.
ParseIdentifier(p) ==
  IF Tok(p) # "ident" THEN Res(Null, p)
  ELSE LET q == ConsumeToken(p)
       IN Res(Identifier(Payload(p), Place(p)),
              IF Known(q, Payload(p)) THEN q ELSE EnterSymbol(q, Payload(p), FALSE))

ParseValidIdentifier(p, name) ==
  IF Known(p, name) THEN Res(Identifier(name, Place(p)), p) ELSE Fail(p)

(***************************************************************************)
(* Expressions.                                                            *)
(***************************************************************************)
\* Binary operators from the loosest to the tightest level.
Levels == << {"or"}, {"and"}, {"|"}, {"^"}, {"&"}, {">", "<", "==", "!=", "<=", ">="},
             {"<<", ">>"}, {"+", "-"}, {"*", "/", "%"} >>

TypeNames == {"float", "int", "bool", "string", "dict", "struct", "process", "function", "promise"}

RECURSIVE ParseLevel(_, _), ParseOpLoop(_, _), ParseFactor(_), ParseArguments(_), ParseElements(_, _),
          ParsePairs(_, _, _)

ParseExpression(p) == ParseLevel(p, 1)

\* ParseExpression ... ParseTerm: an operand of the next level, then as many
\* operators of this level as follow, grouped to the left.
ParseLevel(p, level) ==
  IF level > Len(Levels) THEN ParseFactor(p)
  ELSE LET first == ParseLevel(p, level + 1)
       IN IF first.n = Null THEN first ELSE ParseOpLoop(first, level)

\* ParseOp after its first operand.
ParseOpLoop(lhs, level) ==
  IF Tok(lhs.p) \notin Levels[level] THEN lhs
  ELSE LET rhs == ParseLevel(ConsumeNewlines(ConsumeToken([lhs.p EXCEPT !.tc = @ + 1])), level + 1)
       IN IF rhs.n = Null THEN FailOnce(rhs.p)
          ELSE ParseOpLoop(Res(BinaryOp(Tok(lhs.p), lhs.n, rhs.n), rhs.p), level)

\* Arguments up to the token that is no argument; a comma may follow the last.
ParseArguments(r) ==
  LET arg == ParseExpression(r.p)
      q   == ConsumeNewlines(arg.p)
  IN IF arg.n = Null THEN Res(r.n, arg.p)
     ELSE IF Tok(q) = "," THEN ParseArguments(Res(Append(r.n, arg.n), ConsumeToken(q)))
     ELSE Res(Append(r.n, arg.n), q)

\* `callee(...)`, `object.method(...)`, or `object.key`, which is a subscript.
ParseBaseFunctionCall(p, callee, terminated) ==
  LET method == Tok(p) = "."
      name   == ParseIdentifier(ConsumeToken(p))
      member == NewLabel(name.p, "subscriptkey")
      open   == IF method THEN name.p ELSE p
      self   == IF method /\ callee # Null THEN <<callee>> ELSE <<>>
      args   == ParseArguments(Res(self, ConsumeNewlines(ConsumeToken([open EXCEPT !.tc = @ + 1]))))
      close  == ConsumeNewlines(args.p)
      node   == CallNode(IF method THEN name.n.name ELSE callee.name, args.n, p.spaces,
                         Place(p))
  IN CASE Tok(p) \notin {"(", "."} -> Res(Null, p)
       [] method /\ name.n = Null -> Fail(name.p)
       [] method /\ Tok(name.p) # "(" ->
            Res(ArraySubscript(callee, Literal(<<"string">>, Spelled(name.n.name), member.n)), member.p)
       [] Tok(close) # ")" -> Fail(close)
       [] terminated /\ Tok(ConsumeToken(close)) \notin {"nl", "eof", ";"} -> Fail(ConsumeToken(close))
       [] OTHER -> Res(node, IF terminated THEN KeepTemps(ConsumeToken(ConsumeToken(close)))
                             ELSE ConsumeToken(close))

\* A function that is called becomes a variable of the caller's table.
ParseFunctionCallExpression(p, name) ==
  LET callee == IF Tok(p) = "." THEN ParseValidIdentifier(p, name)
                ELSE Res(Identifier(name, Place(p)), EnterSymbol(p, name, FALSE))
      call   == ParseBaseFunctionCall(callee.p, callee.n, FALSE)
  IN CASE Tok(p) \notin {"(", "."} -> Res(Null, p)
       [] call.n = Null -> Fail(call.p)
       [] OTHER -> call

\* The sign of an index is consumed and not used.
ParseArraySubscript(p, name) ==
  LET open  == ConsumeToken(p)
      index == ParseExpression(IF Tok(open) = "-" THEN ConsumeToken(open) ELSE open)
  IN CASE Tok(p) # "[" -> Res(Null, p)
       [] ~Known(p, name) -> Fail(open)
       [] OTHER -> Res(ArraySubscript(Identifier(name, Place(p)), index.n),
                       Expect(IF index.n = Null THEN BumpError(index.p) ELSE index.p, "]"))

ParseProcessMessage(p, process) ==
  LET name == ParseIdentifier(ConsumeToken(p))
      call == ParseBaseFunctionCall(name.p, name.n, FALSE)
  IN CASE Tok(p) # "->" -> Res(Null, p)
       [] name.n = Null -> Fail(name.p)
       [] call.n = Null -> FailOnce(call.p)
       [] call.n.k # "call" -> FailOnce(BumpError(call.p))
       [] OTHER -> Res(Message(process, call.n), KeepTemps(call.p))

ParseType(p) ==
  LET q == ConsumeToken(p)
  IN CASE Tok(p) # ":" -> Res(Null, p)
       [] Tok(q) # "ident" -> Fail(q)
       [] Payload(q) \notin {<<t>> : t \in TypeNames} -> Fail(ConsumeToken(q))
       [] OTHER -> Res(Literal(<<"kind", "nil">>, Payload(q), Payload(q) \o <<"type">>),
                       EnterSymbol(ConsumeToken(q), Payload(q) \o <<"type">>, TRUE))

ParseElements(r, label) ==
  LET element == ParseExpression(r.p)
      q       == ConsumeNewlines(IF Tok(element.p) = "," THEN ConsumeToken(element.p) ELSE element.p)
      grown   == Append(r.n, element.n)
  IN IF element.n = Null THEN Res(ArrayLiteral(r.n, label), Expect(element.p, "]"))
     ELSE IF Tok(element.p) = "," THEN ParseElements(Res(grown, q), label)
     ELSE Res(ArrayLiteral(grown, label), Expect(q, "]"))

ParseArrayLiteral(p) ==
  LET new == NewLabel(ConsumeToken(p), "arrayliteral")
  IN IF Tok(p) # "[" THEN Res(Null, p) ELSE ParseElements(Res(<<>>, new.p), new.n)

\* Pairs `key : value`; a key that is no name ends the literal with no error.
ParsePairs(r, values, label) ==
  LET key   == NewLabel(ConsumeToken(r.p), "key")
      value == ParseExpression(Expect(key.p, ":"))
      after == IF value.n = Null THEN BumpError(value.p) ELSE value.p
      q     == ConsumeNewlines(IF Tok(after) = "," THEN ConsumeToken(after) ELSE after)
      keys  == Append(r.n, Spelled(Payload(r.p)))
  IN IF Tok(r.p) # "ident" THEN Res(Null, r.p)
     ELSE IF Tok(after) = "," THEN ParsePairs(Res(keys, q), Append(values, value.n), label)
     ELSE Res(DictLiteral(keys, Append(values, value.n), label), Expect(q, "}"))

ParseDictLiteral(p) ==
  LET new == NewLabel(ConsumeToken(p), "dictliteral")
  IN IF Tok(p) # "{" THEN Res(Null, p) ELSE ParsePairs(Res(<<>>, new.p), <<>>, new.n)

\* Numbers take the sign before them.  A float, counted in units of 10^-7, is
\* labelled with its text to six decimals, a bool with its text, every int and
\* every string with a fresh label.
ParseFloat(p, neg) ==
  LET v == IF neg THEN -Payload(p) ELSE Payload(p)
      label == <<"$float", ToString((v + 5) \div 10)>>
  IN IF Tok(p) # "float" THEN Res(Null, p)
     ELSE Res(Literal(<<"float">>, v, label), EnterSymbol(ConsumeToken(p), label, TRUE))

ParseInt(p, neg) ==
  LET new == NewLabel(ConsumeToken(p), "int")
  IN IF Tok(p) # "int" THEN Res(Null, p)
     ELSE Res(Literal(<<"int">>, IF neg THEN -Payload(p) ELSE Payload(p), new.n), new.p)

ParseString(p) ==
  LET new == NewLabel(ConsumeToken(p), "string")
  IN IF Tok(p) # "string" THEN Res(Null, p) ELSE Res(Literal(<<"string">>, Payload(p), new.n), new.p)

ParseBool(p) ==
  IF Tok(p) \notin {"true", "false"} THEN Res(Null, p)
  ELSE Res(Literal(<<"bool">>, Tok(p) = "true", <<"#" \o Tok(p) \o "#">>),
           EnterSymbol(ConsumeToken(p), <<"#" \o Tok(p) \o "#">>, TRUE))

ParseParExpression(p) ==
  LET inner == ParseExpression(ConsumeToken(p))
  IN CASE Tok(p) # "(" -> Res(Null, p)
       [] Tok(inner.p) # ")" -> Fail(inner.p)
       [] OTHER -> Res(inner.n, ConsumeToken(inner.p))

\* The first of the alternatives that yields a node, each starting where the
\* one before it stopped.
ParseName(p) ==
  LET name == Payload(p)
      q    == ConsumeToken(p)
      call == ParseFunctionCallExpression(q, name)
      sub  == ParseArraySubscript(call.p, name)
  IN CASE Tok(q) = "->" -> ParseProcessMessage(EnterSymbol(q, name, FALSE), Identifier(name, Place(p)))
       [] Tok(q) # "->" /\ call.n # Null -> call
       [] Tok(q) # "->" /\ call.n = Null /\ sub.n # Null -> sub
       [] OTHER -> ParseValidIdentifier(sub.p, name)

ParseLiteral(p, neg, signed) ==
  LET type == ParseType(p)
      arr  == ParseArrayLiteral(type.p)
      dict == ParseDictLiteral(arr.p)
      flt  == ParseFloat(dict.p, neg)
      int  == ParseInt(flt.p, neg)
      bool == ParseBool(int.p)
      str  == ParseString(bool.p)
      Unsigned(r) == IF signed THEN Fail(r.p) ELSE r
  IN CASE type.n # Null -> Unsigned(type)
       [] type.n = Null /\ arr.n # Null -> Unsigned(arr)
       [] type.n = Null /\ arr.n = Null /\ dict.n # Null -> Unsigned(dict)
       [] OTHER -> IF flt.n # Null THEN flt
                   ELSE IF int.n # Null THEN int
                   ELSE IF bool.n # Null THEN Unsigned(bool)
                   ELSE IF str.n # Null THEN Unsigned(str) ELSE Res(Null, str.p)

ParseFactor(p) ==
  LET paren  == ParseParExpression(p)
      q      == paren.p
      signed == Tok(q) \in {"-", "+"}
  IN IF paren.n # Null THEN paren
     ELSE IF Tok(q) = "ident" THEN ParseName(q)
     ELSE ParseLiteral(IF signed THEN ConsumeToken(q) ELSE q, Tok(q) = "-", signed)

(***************************************************************************)
(* Statements.                                                             *)
(***************************************************************************)
RECURSIVE ParseStatement(_), ParseStatementList(_), ParseElseIfs(_)

ParseCondition(p) ==
  LET c == ParseExpression(p)
      q == ConsumeNewlines(c.p)
  IN IF c.n = Null THEN Fail(c.p)
     ELSE IF Tok(q) # ":" THEN Fail(q) ELSE Res(c.n, KeepTemps(ConsumeToken(q)))

\* Statements from r.p on, appended to r.n.
ParseStatementList(r) ==
  LET s == ParseStatement(r.p)
  IN IF s.n = Null THEN Res(r.n, s.p)
     ELSE ParseStatementList(Res(Append(r.n, s.n), ConsumeNewlines(s.p)))

Body(p) == LET b == ParseStatementList(Res(<<>>, ConsumeNewlines(p)))
           IN Res(b.n, ConsumeNewlines(b.p))

\* The `end` of a statement.
Close(node, p) == IF Tok(p) # "end" THEN FailOnce(p)
                  ELSE Res(node, KeepTemps(ConsumeNewlines(ConsumeToken(p))))

\* The step of a range without `by` is the constant "1", which is no fresh label.
ParseForInit(p) ==
  LET counter == ParseIdentifier(p)
      start   == ParseFactor(ConsumeToken(counter.p))
      end     == ParseFactor(ConsumeToken(start.p))
      step    == ParseFactor(ConsumeToken(end.p))
      one     == Literal(<<"int">>, 1, <<"1">>)
      Node(e, s) == For(counter.n, start.n, e, s, <<>>)
  IN CASE counter.n = Null -> Fail(counter.p)
       [] Tok(counter.p) # "in" -> Fail(counter.p)
       [] start.n = Null -> Fail(start.p)
       [] Tok(start.p) # "to" -> Res(Node(Null, Null), KeepTemps(start.p))
       [] end.n = Null -> Fail(end.p)
       [] Tok(end.p) # "by" -> Res(Node(end.n, one), KeepTemps(EnterSymbol(end.p, <<"1">>, TRUE)))
       [] step.n = Null -> Fail(step.p)
       [] OTHER -> Res(Node(end.n, step.n), KeepTemps(step.p))

ParseFor(p) ==
  LET open  == ConsumeToken(p)
      paren == Tok(open) = "("
      init  == ParseForInit(IF paren THEN ConsumeNewlines(ConsumeToken(open)) ELSE open)
      q     == ConsumeNewlines(init.p)
      colon == IF paren THEN ConsumeToken(q) ELSE q
      body  == Body(ConsumeToken(colon))
  IN CASE Tok(p) # "for" -> Res(Null, p)
       [] init.n = Null -> init
       [] paren /\ Tok(q) # ")" -> Fail(q)
       [] Tok(colon) # ":" -> Fail(colon)
       [] OTHER -> Close([init.n EXCEPT !.body = body.n], body.p)

ParseWhile(p) ==
  LET c    == ParseCondition(ConsumeToken(p))
      body == Body(c.p)
  IN IF Tok(p) # "while" THEN Res(Null, p) ELSE Close(While(c.n, body.n), body.p)

\* `when` and `whenever`: a label among the constants holds the block's function,
\* and one temporary more than counted so far is kept for it.
ParseBlock(p, kind) ==
  LET count == IF kind = "when" THEN p.whens ELSE p.whenevers
      label == <<"$" \o kind>> \o Last(p.open).name \o <<ToString(count)>>
      q     == EnterSymbol([ConsumeToken(p) EXCEPT !.tm = @ + 1], label, TRUE)
      c     == ParseCondition(IF kind = "when" THEN [q EXCEPT !.whens = @ + 1]
                              ELSE [q EXCEPT !.whenevers = @ + 1])
      body  == Body(c.p)
  IN IF Tok(p) # kind THEN Res(Null, p) ELSE Close(Block(kind, label, c.n, body.n), body.p)

\* r.n is the sequence of branches [c, body] read so far.
ParseElseIfs(r) ==
  LET c    == ParseCondition(ConsumeToken(r.p))
      body == ParseStatementList(Res(<<>>, ConsumeNewlines(c.p)))
  IN IF Tok(r.p) # "elif" THEN r
     ELSE ParseElseIfs(Res(Append(r.n, [c |-> c.n, body |-> body.n]), body.p))

ParseIf(p) ==
  LET c     == ParseCondition(ConsumeToken(p))
      body  == Body(c.p)
      elifs == ParseElseIfs(Res(<<>>, body.p))
      q     == ConsumeNewlines(elifs.p)
      else  == ParseStatementList(Res(<<>>, ConsumeNewlines(ConsumeToken(ConsumeToken(q)))))
  IN CASE Tok(p) # "if" -> Res(Null, p)
       [] Tok(p) = "if" /\ Tok(q) # "else" -> Close(If(c.n, body.n, elifs.n, <<>>), q)
       [] Tok(p) = "if" /\ Tok(q) = "else" /\ Tok(ConsumeToken(q)) # ":" -> Fail(ConsumeToken(q))
       [] OTHER -> Close(If(c.n, body.n, elifs.n, else.n), else.p)

\* Whatever the assignment operator is, the node is a plain assignment.  The
\* target takes the outermost result, so it needs one temporary less.
ParseAssignment(p, left) ==
  LET right == ParseExpression([ConsumeToken(p) EXCEPT !.tc = 0])
      q     == [ConsumeToken(right.p) EXCEPT !.tc = IF right.p.tc >= 1 THEN right.p.tc - 1 ELSE 0]
  IN CASE right.n = Null -> FailOnce(right.p)
       [] Tok(right.p) \notin {"nl", ";"} -> Fail(right.p)
       [] OTHER -> Res(Assignment(left, right.n), KeepTemps(q))

ParseReturn(p) ==
  LET v == ParseExpression([ConsumeToken(p) EXCEPT !.tc = 0])
  IN CASE Tok(p) # "return" -> Res(Null, p)
       [] Tok(v.p) \notin {"nl", ";"} -> Fail(v.p)
       [] OTHER -> Res(Return(v.n), KeepTemps(ConsumeToken(v.p)))

AssignmentOps == {"=", "+=", "-=", "*=", "/=", "%="}

\* A statement that begins with a name: assignment, message or call.
ParseNameStatement(p) ==
  LET ident  == ParseIdentifier(p)
      sub    == ParseArraySubscript(ident.p, ident.n.name)
      left   == IF sub.n # Null THEN sub.n ELSE ident.n
      assign == IF Tok(sub.p) \in AssignmentOps THEN ParseAssignment(sub.p, left)
                ELSE Res(Null, IF sub.n # Null THEN BumpError(sub.p) ELSE sub.p)
      msg    == ParseProcessMessage(assign.p, ident.n)
      call   == ParseBaseFunctionCall(msg.p, ident.n, TRUE)
  IN CASE assign.n # Null -> assign
       [] assign.n = Null /\ msg.n # Null -> msg
       [] OTHER -> IF call.n # Null /\ call.n.k = "call" THEN call
                   ELSE Fail(IF call.n # Null THEN BumpError(call.p) ELSE call.p)

\* Every ParseX but ParseReturn skips newlines before it looks for its keyword.
ParseStatement(p) ==
  LET s == [p EXCEPT !.tc = 0]
      q == ConsumeNewlines(s)
  IN CASE Tok(s) = "ident" -> ParseNameStatement(s)
       [] Tok(q) = "if" -> ParseIf(q)
       [] Tok(q) = "for" -> ParseFor(q)
       [] Tok(q) = "while" -> ParseWhile(q)
       [] Tok(q) \in {"when", "whenever"} -> ParseBlock(q, Tok(q))
       [] Tok(q) = "return" -> ParseReturn(q)
       [] OTHER -> Res(Null, q)

(***************************************************************************)
(* Functions, classes, modules.                                            *)
(***************************************************************************)
PushNamespace(p, name) ==
  [p EXCEPT !.spaces = Append(@, (IF @ = <<>> THEN <<>> ELSE Last(@)) \o name)]

RECURSIVE ParseFunction(_, _), ParseMembers(_), ParseParameters(_), ParseModuleItems(_),
          ParseNamespace(_), ParseNamespaceItems(_), ParseSymbols(_), ParseBuffer(_)

\* Names up to the one that no comma follows.
ParseParameters(r) ==
  LET name == ParseIdentifier(r.p)
      q    == ConsumeNewlines(name.p)
  IN IF name.n = Null THEN Res(r.n, name.p)
     ELSE IF Tok(q) = "," THEN ParseParameters(Res(Append(r.n, name.n.name), ConsumeToken(q)))
     ELSE Res(Append(r.n, name.n.name), q)

\* Statements and nested functions.  A nested function counts its temporaries
\* from 0 and leaves those of this one alone; the counts of blocks it leaves at 0.
ParseMembers(r) ==
  LET s == ParseStatement(r.p)
      f == ParseFunction([s.p EXCEPT !.tm = 0], FALSE)
      q == [f.p EXCEPT !.tm = s.p.tm]
      grown == [r.n EXCEPT !.body = IF s.n = Null THEN @ ELSE Append(@, s.n),
                           !.functions = IF f.n = Null \/ ~r.n.constructor THEN @ ELSE Append(@, f.n)]
      nested == f.n # Null /\ ~r.n.constructor
  IN IF s.n = Null /\ f.n = Null THEN Res(r.n, q)
     ELSE ParseMembers(Res(grown, ConsumeNewlines(IF nested THEN BumpError(q) ELSE q)))

\* `def` and `class`.  A function that the importer named is in no namespace.
ParseFunction(p, constructor) ==
  LET start    == ConsumeNewlines(p)
      ident    == ParseUniqueIdentifier(ConsumeNewlines(
                    [ConsumeToken(start) EXCEPT !.whens = 0, !.whenevers = 0]))
      open     == ConsumeNewlines(ident.p)
      exported == ident.n.name \in p.exported
      outer    == IF exported \/ p.spaces = <<>> THEN <<>> ELSE Last(p.spaces)
      node     == FunctionNode(outer \o ident.n.name, constructor)
      params   == ForceConstant(node.symbols, TRUE)
      this     == [Declare(params, <<"this">>, FALSE) EXCEPT !.entries[1].type = <<"process">> \o ident.n.name,
                                                              !.entries[1].target = ident.n.name]
      inside   == [ConsumeNewlines(ConsumeToken(open)) EXCEPT
                     !.spaces = IF exported THEN <<>> ELSE @,
                     !.open = Append(@, [node EXCEPT !.symbols = IF constructor THEN this ELSE params])]
      names    == ParseParameters(Res(<<>>, inside))
      close    == ConsumeNewlines(names.p)
      colon    == ConsumeToken(close)
      body     == ConsumeNewlines([ConsumeToken(colon) EXCEPT
                     !.open[Len(close.open)].symbols = ForceConstant(@, FALSE)])
      members  == ParseMembers(Res([node EXCEPT !.parameters = names.n],
                     IF constructor THEN PushNamespace(body, ident.n.name) ELSE body))
      end      == ConsumeNewlines([members.p EXCEPT !.spaces = p.spaces])
      done     == ConsumeNewlines(ConsumeToken(end))
      Leave(q) == [q EXCEPT !.open = Front(@)]
  IN CASE Tok(start) # (IF constructor THEN "class" ELSE "def") -> Res(Null, start)
       [] ident.n = Null -> Fail(ident.p)
       [] Tok(open) # "(" -> Fail(open)
       [] Tok(close) # ")" -> Fail(Leave(close))
       [] Tok(colon) # ":" -> Fail(Leave(colon))
       [] Tok(end) # "end" -> Fail(Leave(end))
       [] OTHER -> Res([members.n EXCEPT !.temps = done.tm, !.symbols = Last(done.open).symbols],
                       [Leave(done) EXCEPT !.tm = 0])

ParseStruct(p) ==
  LET start == ConsumeNewlines(p)
      ident == ParseUniqueIdentifier(ConsumeToken(start))
      open  == ConsumeNewlines(ident.p)
      names == ParseParameters(Res(<<>>, ConsumeNewlines(ConsumeToken(open))))
      close == ConsumeNewlines(names.p)
      outer == IF p.spaces = <<>> THEN <<>> ELSE Last(p.spaces)
  IN CASE Tok(start) # "struct" -> Res(Null, start)
       [] ident.n = Null -> Fail(ident.p)
       [] Tok(open) # "(" -> Fail(open)
       [] Tok(close) # ")" -> Fail(close)
       [] OTHER -> Res([k |-> "struct", name |-> outer \o ident.n.name, members |-> names.n],
                       ConsumeToken(close))

ParseNamespace(p) ==
  LET start == ConsumeNewlines(p)
      name  == ConsumeNewlines(ConsumeToken(start))
      colon == ConsumeToken(name)
      items == ParseNamespaceItems(PushNamespace(ConsumeToken(colon), Payload(name)))
      end   == ConsumeNewlines([items EXCEPT !.spaces = Front(@)])
  IN CASE Tok(start) # "namespace" -> Res(Null, start)
       [] Tok(name) # "ident" -> Fail(name)
       [] Tok(colon) # ":" -> Fail(colon)
       [] Tok(end) # "end" -> Fail(end)
       [] OTHER -> Res([k |-> "namespace"], ConsumeToken(end))

\* Classes of a namespace are put among the module's functions.
ParseNamespaceItems(p) ==
  LET f == ParseFunction(p, FALSE)
      c == ParseFunction(f.p, TRUE)
      n == ParseNamespace(c.p)
  IN IF f.n # Null THEN ParseNamespaceItems([f.p EXCEPT !.functions = Append(@, f.n)])
     ELSE IF c.n # Null THEN ParseNamespaceItems([c.p EXCEPT !.functions = Append(@, c.n)])
     ELSE IF n.n # Null THEN ParseNamespaceItems(n.p) ELSE n.p

\* The rest of the names of `from m import a, b`.
ParseSymbols(r) ==
  IF Tok(r.p) # "ident" THEN Fail(r.p)
  ELSE LET q == ConsumeToken(r.p)
           names == [r.n EXCEPT !.symbols = @ \union {Payload(r.p)}]
       IN IF Tok(q) = "," THEN ParseSymbols(Res(names, ConsumeToken(q))) ELSE Res(names, q)

ParseImport(p) ==
  LET start == ConsumeNewlines(p)
      name  == ConsumeToken(start)
      after == ConsumeToken(name)
      whole == Res([k |-> "import", name |-> Payload(name), symbols |-> {}], after)
  IN CASE Tok(start) \notin {"from", "import"} -> Res(Null, start)
       [] Tok(name) # "ident" -> Fail(name)
       [] Tok(start) = "from" /\ Tok(after) # "import" -> Fail(after)
       [] Tok(start) = "from" /\ Tok(after) = "import" -> ParseSymbols([whole EXCEPT !.p = ConsumeToken(after)])
       [] OTHER -> whole

ParseModuleItems(p) ==
  LET s == ParseStruct(p)
      f == ParseFunction(s.p, FALSE)
      c == ParseFunction(f.p, TRUE)
      n == ParseNamespace(c.p)
      i == ParseImport(n.p)
  IN IF s.n # Null THEN ParseModuleItems([s.p EXCEPT !.structs = Append(@, s.n)])
     ELSE IF f.n # Null THEN ParseModuleItems([f.p EXCEPT !.functions = Append(@, f.n)])
     ELSE IF c.n # Null THEN ParseModuleItems([c.p EXCEPT !.classes = Append(@, c.n)])
     ELSE IF n.n # Null THEN ParseModuleItems(n.p)
     ELSE IF i.n # Null THEN ParseModuleItems([i.p EXCEPT !.imports = Append(@, i.n)])
     ELSE i.p

\* A parser before its first text.  No line has had an error yet.
NewParser ==
  [text |-> 0, toks |-> <<>>, at |-> 1, line |-> 1, lastLine |-> 0, errLine |-> 0, errs |-> 0, tc |-> 0, tm |-> 0,
   whens |-> 0, whenevers |-> 0, open |-> <<>>, context |-> 1, spaces |-> <<>>, exported |-> {},
   labels |-> [k \in {"int", "string", "arrayliteral", "dictliteral", "key", "subscriptkey"} |-> 0],
   structs |-> <<>>, functions |-> <<>>, classes |-> <<>>, imports |-> <<>>]

\* What both entries of the parser reset, and the first token read.  The line of
\* the last error is kept.
Begin(p, toks) ==
  LET start == [p EXCEPT !.text = @ + 1, !.toks = toks, !.at = 1, !.lastLine = 1, !.errs = 0, !.tc = 0, !.tm = 0,
                         !.open = <<>>, !.spaces = <<>>]
  IN [start EXCEPT !.line = IF toks[1].k = "nl" THEN 2 ELSE 1]

Finish(p) == IF Tok(p) # "eof" /\ p.errs = 0 THEN BumpError(p) ELSE p

ParseModule(p, toks, space, exported) ==
  LET start == [Begin(p, toks) EXCEPT !.whens = 0, !.whenevers = 0, !.context = 1, !.exported = exported]
  IN Finish(ParseModuleItems(IF space = <<>> THEN start ELSE PushNamespace(start, space)))

\* Statements of the prompt go to the function that is open, definitions to the
\* module.
ParseBuffer(p) ==
  LET s == ParseStatement(p)
      f == ParseFunction(s.p, FALSE)
      c == ParseFunction(f.p, TRUE)
  IN IF s.n # Null THEN ParseBuffer(ConsumeNewlines([s.p EXCEPT !.open[1].body = Append(@, s.n)]))
     ELSE IF f.n # Null THEN ParseBuffer(ConsumeNewlines([f.p EXCEPT !.functions = Append(@, f.n)]))
     ELSE IF c.n # Null THEN ParseBuffer(ConsumeNewlines([c.p EXCEPT !.classes = Append(@, c.n)]))
     ELSE c.p

\* The prompt's function, the first of the module, grows from text to text; what
\* it held before the text can be restored.
IncrementalParse(p, toks) ==
  LET main  == IF p.functions = <<>> THEN FunctionNode(<<"__anonymous">>, FALSE) ELSE Head(p.functions)
      ready == [main EXCEPT !.symbols = PrepRollback(@)]
      start == [Begin(p, toks) EXCEPT !.context = 2, !.open = <<ready>>,
                  !.functions = IF @ = <<>> THEN <<ready>> ELSE @]
      end   == ParseBuffer(start)
      grown == [end.open[1] EXCEPT !.temps = @ + end.tm]
  IN Finish([end EXCEPT !.open = <<>>, !.functions[1] = grown])
=============================================================================
