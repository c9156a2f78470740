------------------------------- MODULE Prompt --------------------------------
(***************************************************************************)
(* What becomes of a line at the prompt (src/src/eople_eve.cpp,            *)
(* ExecuteBuffer and ExecuteFunction of src/src/eople_exec_env.cpp,        *)
(* IncrementalInfer).  The statements of all lines make up one function,   *)
(* `__anonymous`, which grows; every line compiles it and all definitions  *)
(* anew.  R is what the environment keeps from line to line:               *)
(*   p, P      the parser and the program                                  *)
(*   errs      m_error_count of the code generator, never reset            *)
(*   loaded    m_loaded_modules: the names of their functions              *)
(*   steps     what has been asked of the virtual machine                  *)
(*   ended     nothing more is read: the program has been terminated       *)
(* A step is [fns, heap, swap, task, module, name, locals]: code to load, whether *)
(* it replaces that of the lines before, and what is then executed.        *)
(***************************************************************************)
EXTENDS Compiler

Library == 1
ReplModule == 2
ReplFunction(P) == Head(P.mods[ReplModule].functions)

\* ExecutionEnvironment: nothing but the library.
NewEnvironment(garbage) ==
  [p |-> NewParser, P |-> [AddModule(ImportBuiltins, <<1>>) EXCEPT !.garbage = garbage], errs |-> 0, loaded |-> <<>>, steps |-> <<>>,
   ended |-> FALSE]

NoStep == [fns |-> <<>>, heap |-> <<>>, swap |-> FALSE, task |-> "none", module |-> 0, name |-> <<>>, locals |-> <<>>]
Asks(R, step) == [R EXCEPT !.steps = Append(@, step)]

(***************************************************************************)
(* ExecuteBuffer.                                                          *)
(***************************************************************************)
\* The parser has put new statements and definitions into the module.
Entered(P, p, before) ==
  LET main == Head(p.functions)
      Q == IF P.mods[P.mod].functions = <<>> THEN LoadFunction(P, main) ELSE P
      f == ReplFunction(Q)
      New(now, then) == SubSeq(now, Len(then) + 1, Len(now))
  IN Load([Q EXCEPT !.fns[f].body = main.body, !.fns[f].tables[1] = main.symbols, !.fns[f].temps = main.temps],
          New(p.functions, IF before.functions = <<>> THEN <<main>> ELSE before.functions) \o New(p.classes, before.classes))

\* The statements of a function that are new; if there has been an error they go again.
InferNew(P, f) ==
  LET Q == FoldLeft(InferStatement, [P EXCEPT !.fn = f], SubSeq(P.fns[f].body, P.fns[f].next + 1, Len(P.fns[f].body)))
      kept == IF Q.errs = 0 THEN Q
              ELSE [SetTable(Q, f, Rollback(Table(Q, f))) EXCEPT !.fns[f].body = SubSeq(@, 1, Q.fns[f].next)]
  IN [kept EXCEPT !.fns[f].next = Len(kept.fns[f].body)]

\* The rollback of any other function goes by registers that were never set, and aborts.
IncrementalInfer(P) ==
  LET m == P.mods[P.mod]
      Q == FoldLeft(InferFunction, FoldLeft(InferNew, [P EXCEPT !.errs = 0], m.functions), m.classes)
  IN IF Q.errs = 0 THEN Recheck(Q) ELSE [Q EXCEPT !.thrown = @ \/ Len(m.functions) > 1]

FunctionsOf(G) == SelectSeq(G.fns, IsFunction)

\* Code is loaded even where the generator has found an error.
Generated(R, P, step) ==
  LET G == GenModule(P)
      errs == R.errs + G.errs
      now == [R EXCEPT !.P = G.P, !.errs = errs, !.loaded = Append(@, [i \in DOMAIN FunctionsOf(G) |-> FunctionsOf(G)[i].name])]
      load == [step EXCEPT !.fns = G.fns, !.heap = G.heap, !.module = Len(now.loaded)]
  IN [ok |-> errs = 0, R |-> Asks(now, IF errs = 0 THEN load ELSE [load EXCEPT !.swap = FALSE, !.task = "none"])]

\* The variables of a table in the order of their registers.
Locals(T) == [i \in 1 .. T.nextVar |-> LET e == CHOOSE n \in DOMAIN T.entries : ~T.entries[n].const /\ T.entries[n].reg = i - 1
                                       IN T.entries[e].ident]

ExecuteBuffer(R, text) ==
  LET p == IncrementalParse(R.p, Lexed(text))
      P == Entered([R.P EXCEPT !.mod = ReplModule], p, R.p)
      Q == IF p.errs > 0 THEN P ELSE IncrementalInfer(P)
      main == Q.fns[ReplFunction(Q)]
      now == [R EXCEPT !.P = Q, !.p = [p EXCEPT !.functions[1].symbols = main.tables[1], !.functions[1].body = main.body]]
  IN IF p.errs > 0 \/ Q.errs > 0 \/ Q.thrown THEN [ok |-> FALSE, R |-> now]
     ELSE Generated(now, [Q EXCEPT !.fns[ReplFunction(Q)].repl = TRUE, !.fns[ReplFunction(Q)].template[1] = FALSE],
                    [NoStep EXCEPT !.swap = TRUE, !.task = "entry", !.name = main.name, !.locals = Locals(main.tables[1])])

(***************************************************************************)
(* Eve.                                                                    *)
(***************************************************************************)
\* What stands between the first parenthesis and the last character.
FromParenthesis(line) == SelectSeq(line, LAMBDA c : c # ")")  \* mutant: what stands before it is kept
Argument(line) ==
  LET open == CHOOSE i \in DOMAIN line : line[i] = "(" /\ \A j \in 1 .. i - 1 : line[j] # "("
  IN SubSeq(line, open + 1, Len(line) - 1)
Commands(line, name) == \E i \in 1 .. Len(line) - 1 : line[i] = name /\ line[i + 1] = "("

\* A file becomes a module of its own.  What files before it imported is imported once more.
Import(R, files, name) ==
  LET empty == [R.p EXCEPT !.functions = <<>>, !.classes = <<>>, !.structs = <<>>]
      p == ImportAll([files |-> files], ParseModule(empty, loadFile(files[name]), <<>>, {}), 1)
  IN IF name \notin DOMAIN files THEN R
     ELSE [R EXCEPT !.P = Load(AddModule(@, <<1>>), p.functions \o p.classes),
                    !.p = [p EXCEPT !.functions = R.p.functions, !.classes = R.p.classes, !.structs = R.p.structs]]

\* A function that was compiled before, in the module loaded last that has it;
\* or else one of a file or of the library, whose module is compiled now.  Nobody
\* catches what inference throws here.  Where the library has been loaded as a
\* module the search meets its functions, which are null pointers.
Ends(R, how) == [Asks(R, [NoStep EXCEPT !.task = how]) EXCEPT !.ended = TRUE]
ExecuteNamed(R, name, task) ==
  LET cached == {m \in DOMAIN R.loaded : name \in Range(R.loaded[m])}
      null   == \E m \in DOMAIN R.loaded : R.loaded[m] = <<>>
      in     == {m \in DOMAIN R.P.mods \ {ReplModule} : \E f \in Range(R.P.mods[m].functions) : R.P.fns[f].name = name}
      first  == CHOOSE m \in in : \A n \in in : m <= n
      step   == [NoStep EXCEPT !.task = task, !.name = name]
      P      == InferTypes([R.P EXCEPT !.mod = first, !.thrown = FALSE], name)
  IN IF null THEN Ends(R, "null")
     ELSE IF cached # {} THEN Asks(R, [step EXCEPT !.module = CHOOSE m \in cached : \A n \in cached : n <= m])
     ELSE IF in = {} THEN R
     ELSE IF P.thrown THEN Ends(R, "terminate")
     ELSE IF P.errs > 0 THEN [R EXCEPT !.P = P]
     ELSE IF first = Library /\ R.errs = 0 THEN Ends(R, "null")
     ELSE Generated(R, P, step).R

\* These change nothing.
Informs == {<<name, "(", ")">> : name \in {"help", "clear", "imported"}}

\* A line that is not accepted may be an expression.
Command(R, files, line) ==
  LET forced == line[1] = "!"
      first  == IF forced THEN [ok |-> FALSE, R |-> R] ELSE ExecuteBuffer(R, Append(line, "\n"))
      print  == <<"print", "(">> \o (IF forced THEN Tail(line) ELSE line) \o <<")">>
      named  == Commands(line, "import") \/ Commands(line, "call") \/ Commands(line, "spawn")
  IN CASE line \in Informs \union {<<>>} \/ (named /\ Last(line) # ")") -> R
       [] line \notin Informs \union {<<>>} /\ ~named -> IF first.ok THEN first.R ELSE ExecuteBuffer(first.R, print).R
       [] Commands(line, "import") -> Import(R, files, Argument(line))
       [] OTHER -> ExecuteNamed(R, Argument(line), IF Commands(line, "call") THEN "call" ELSE "spawn")

\* A line that ends in a colon goes on until an empty one.
RECURSIVE Eve(_, _, _)
Eve(R, files, lines) ==
  LET block == Head(lines) # <<>> /\ Last(Head(lines)) = ":"
      last  == IF block THEN CHOOSE i \in 2 .. Len(lines) : lines[i] = <<>> /\ \A j \in 2 .. i - 1 : lines[j] # <<>> ELSE 1
      command == Head(lines) \o FlattenSeq([i \in 1 .. last - 1 |-> IF lines[i + 1] = <<>> THEN <<>> ELSE <<"\n">> \o lines[i + 1]])
  IN IF lines = <<>> \/ R.ended THEN R ELSE Eve(Command(R, files, command), files, SubSeq(lines, last + 1, Len(lines)))
=============================================================================
