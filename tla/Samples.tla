------------------------------ MODULE Samples -------------------------------
(***************************************************************************)
(* The programs that the runs of module Language go through, in families.  *)
(* Each stays within what the code gets right, as the README says, and     *)
(* reaches for what is hard to get right there.                            *)
(***************************************************************************)
EXTENDS Source, FiniteSetsExt

x == Name("x")  y == Name("y")  i == Name("i")
Three == Number(3)

\* `prints` are the possible outputs of the processes, none for a program that is to be rejected;
\* `memory` is what memory that the compiler leaves uninitialized may read as.
Concurrent(definitions, prints) == [text |-> Written(Module(definitions)), files |-> <<>>, prints |-> prints, memory |-> {0, 1}]

\* A program without processes, which prints what its tree means.
Sequential(definitions) == Concurrent(definitions, {<<Prints(definitions)>>})
Main(body) == Sequential(<<Def("main", <<>>, body)>>)
IllTyped(body) == Concurrent(<<Def("main", <<>>, body)>>, {})

\* Elements of arrays and dictionaries are found only where that memory is zero.
Zeroed(programs) == [m \in DOMAIN programs |-> [programs[m] EXCEPT !.memory = {0}]]

\* A program for each member of a set.
ForEach(S, Program(_)) == FoldSet(LAMBDA e, programs : Append(programs, Program(e)), <<>>, S)

If2(c, yes, no) == If(c, yes, <<>>, no)
Shows(c) == If2(c, <<Echo(Number(1))>>, <<Echo(Number(0))>>)

(***************************************************************************)
(* Expressions: operators of every level, grouped to the left and right.   *)
(***************************************************************************)
IntOps == <<"+", "-", "*", "/", "%", "<<", ">>">>
Values == <<Let("x", Number(-7)), Let("y", Number(2))>>

Groupings ==
  ForEach((Range(IntOps) \ {"<<", ">>"}) \X {SubSeq(IntOps, 1, 3), SubSeq(IntOps, 4, 7)}, LAMBDA pick :
    Main(Values \o FlattenSeq([m \in DOMAIN pick[2] |->
           << Let("z", Bin(Bin(x, pick[1], y), pick[2][m], Three)), Echo(Name("z")) >>])))
  \o
  ForEach(Range(IntOps), LAMBDA op :
    Main(Values \o FlattenSeq([m \in 1 .. 5 |->
           << Echo(Bin(Number(50), IntOps[m], Bin(Bin(y, "+", Three), op, y))) >>])))

Comparisons2 == {"<", ">", "==", "!=", "<=", ">="}
Conditions ==
  ForEach(Comparisons2 \X {"and", "or"} \X {2, 3}, LAMBDA pick :
    LET op == pick[1]  logic == pick[2]  n == pick[3] IN
    Main(Values \o << Shows(Bin(Bin(x, op, y), logic, Bin(y, "==", Number(n)))),
                      Shows(Bin(Bin(Number(n), op, y), logic, Bin(x, op, y))) >>))

Floats ==
  ForEach({"+", "-"} \X Comparisons2, LAMBDA pick :
    LET op == pick[1]  c == pick[2] IN
    Main(<< Let("x", Real(15000000)), Let("y", Bin(x, op, Real(5000000))), Echo(y),
            Echo(Invoke("to_int", <<y>>)), Echo(Bin(Invoke("to_float", <<Three>>), op, y)),
            Shows(Bin(y, c, Real(10000000))) >>))

(***************************************************************************)
(* Statements.                                                             *)
(***************************************************************************)
Steps(from, to, by, body) == ForRange("i", Number(from), Number(to), IF by = 1 THEN Null ELSE Number(by), body)

Branches ==
  ForEach({"<", "==", ">"} \X {"<", "==", ">"} \X {<<>>, << Echo(Number(30)) >>}, LAMBDA pick :
    LET op == pick[1]  op2 == pick[2]  else == pick[3] IN
    Main(Values \o << Steps(0, 5, 1, << If(Bin(i, op, y), << Let("x", Bin(x, "+", i)), Echo(x) >>,
                                          << [c |-> Bin(i, op2, Three), body |-> << Echo(i) >>] >>, else) >>) >>))

Loops ==
  ForEach({0, 3} \X {1, 4} \X {1, 2, -1}, LAMBDA pick :
    LET from == pick[1]  to == pick[2]  by == pick[3] IN
    Main(<< Let("x", Number(0)), Let("y", Number(0)),
            Steps(from, to, by, << While(Bin(x, "<", i), << Let("x", Bin(x, "+", Number(1))), Echo(Bin(x, "*", i)) >>),
                                   ForRange("j", Number(0), i, Number(2), << Let("y", Bin(Name("j"), "-", i)), Echo(y) >>) >>),
            Echo(x) >>))
  \o
  ForEach({10000000, 7000000}, LAMBDA n :
    Main(<< For(i, Real(0), Real(20000000), Real(n), << Echo(i) >>) >>))

\* Functions of no parameters may be called anywhere; those with parameters once
\* deeper calls have made the stack large enough.
Grow == << Def("deep", <<>>, << Let("a", Number(1)), Let("b", Number(2)), Let("c", Number(3)), Let("d", Number(4)),
                                Echo(Bin(Name("a"), "+", Name("d"))) >>),
           Def("grow", <<>>, << Let("a", Number(1)), Let("b", Number(2)), Let("c", Number(3)), Invoke("deep", <<>>) >>) >>

Calls ==
  ForEach({"<", ">"} \X {2, 4}, LAMBDA pick :
    LET op == pick[1]  n == pick[2] IN
    Sequential(Grow \o << Def("least", << <<"a">>, <<"b">> >>, << If2(Bin(Name("a"), op, Name("b")), << Return(Name("a")) >>, <<>>),
                                                                Return(Name("b")) >>),
                          Def("five", <<>>, << Return(Number(5)) >>),
                          Def("main", <<>>, << Invoke("grow", <<>>), Let("x", Number(n)),
                             Echo(Bin(Invoke("least", <<x, Three>>), "*", Invoke("five", <<>>))),
                             Let("y", Invoke("least", << Bin(x, "-", Number(1)), Bin(x, "+", Number(1)) >>)), Echo(y),
                             Steps(0, 3, 1, << Let("x", Invoke("least", << x, i >>)), Echo(x) >>) >>) >>))
  \o
  ForEach({0, 7}, LAMBDA n :
    Sequential(Grow \o << Def("count", <<>>, << Let("n", Number(0)), Steps(0, 4, 1, << Let("n", Bin(Name("n"), "+", i)) >>), Return(Name("n")) >>),
                  Def("main", <<>>, << Invoke("grow", <<>>), Let("x", Number(0)), While(Bin(x, "<", Number(n)),
                       << Let("x", Bin(x, "+", Invoke("count", <<>>))), Echo(x) >>), Return(Null) >>) >>))

(***************************************************************************)
(* Strings, arrays and dictionaries.                                       *)
(***************************************************************************)
s == Name("s")  t == Name("t")  a == Name("a")  d == Name("d")

Strings ==
  ForEach({"==", "!="} \X {1, 2}, LAMBDA pick :
    LET op == pick[1]  n == pick[2] IN
    Main(<< Let("s", Text("a")), Let("t", Text("b")), Echo(Bin(Bin(s, "+", t), "+", Text("c"))),
            Let("s", Bin(Bin(s, "+", t), "+", Invoke("to_string", <<Number(n)>>))), Echo(s),
            Shows(Bin(s, op, Text("ab1"))), Shows(Bin(Bin(s, "+", t), op, Bin(Text("ab"), "+", Text("1b")))) >>))

Arrays == Zeroed(
  ForEach({0, 1, 2}, LAMBDA n :
    Main(<< Let("a", Elements(<<Number(4), Number(5), Number(6)>>)), Let("x", Number(n)), Assignment(Index("a", x), Number(9)),
            Echo(Bin(Invoke("size", <<a>>), "+", x)), Invoke("push", <<a, x>>), Echo(a), Let("y", Invoke("top", <<a>>)), Echo(y),
            Invoke("pop", <<a>>), Invoke("pop", <<a>>), For(i, a, Null, Null, << Echo(Bin(i, "*", Number(2))) >>),
            Let("y", Index("a", Number(0))), Echo(y), Invoke("clear", <<a>>), Echo(Invoke("size", <<a>>)) >>))
  \o
  ForEach({0, 1}, LAMBDA n :
    Main(<< Let("a", Elements(<<Text("p"), Text("q")>>)), Invoke("push", <<a, Text("r")>>), Assignment(Index("a", Number(n)), Text("s")),
            For(s, a, Null, Null, << Echo(s) >>), Let("t", Invoke("top", <<a>>)), Echo(t), Echo(a) >>))
  \o
  ForEach({1, 5}, LAMBDA n :
    Main(<< Let("d", Pairs(<<"k", "l">>, <<Number(n), Number(2)>>)), Let("x", Index("d", Text("k"))), Echo(x), Echo(d) >>)))

\* What only one instruction does: an empty array of a type, arrays of floats, the clock and the terminal.
Instructions == Zeroed(
  ForEach({0, 1}, LAMBDA n :
    Main(<< Let("b", Elements(<<Real(15000000), Real(25000000)>>)), Assignment(Index("b", Number(n)), Real(5)), Echo(Name("b")),
            Let("x", Index("b", Number(1))), Echo(x) >>))
  \o
  <<Concurrent(<<Def("main", <<>>, << Let("a", Invoke("array", <<Literal(<<"kind">>, <<"string">>, <<>>)>>)),
      Invoke("push", <<a, Text("p")>>), Invoke("push", <<a, Text("q")>>), Let("s", Text("")),
      Let("t", Invoke("get_time", <<>>)), Invoke("sleep", <<Number(1)>>),
      Let("s", Invoke("get_line", <<>>)), Echo(Bin(s, "+", Text("!"))),
      Assignment(Index("a", Number(0)), Text("r")), Echo(a) >>)>>,
     { << << line, <<"r", "q">> >> >> : line \in {"!", "line!"} })>>)

(***************************************************************************)
(* Processes: messages in the order sent, promises, blocks.                *)
(***************************************************************************)
n == Name("n")  k == Name("k")  p == Name("p")  q == Name("q")
Value(promise) == Invoke("get_value", <<promise>>)

\* Blocks are registered by a method, under the lock of its process: main() starts
\* process 2 and sends it `go`.  (Beside a main() that registers blocks cores may execute what
\* its blocks wait for, or the blocks themselves on the stack it uses: README, "Where
\* the code disagrees".)
InMethod(classes, body, prints) ==
  Concurrent(classes \o << Class("Starter", <<>>, <<>>, << Def("go", <<>>, body) >>),
                           Def("main", <<>>, << Let("starter", Invoke("Starter", <<>>)), Send("starter", "go", <<>>) >>) >>,
             { << <<>> >> \o printed : printed \in prints })

\* README, "Hello World".
BeanCounter ==
  Class("BeanCounter", <<>>, <<Let("count", Number(0))>>,
        << Def("AddBeans", <<<<"beans">>>>, <<Let("count", Bin(Name("count"), "+", Name("beans")))>>),
           Def("GetCount", <<>>, <<Return(Name("count"))>>) >>)
Beans ==
  ForEach({0, 3}, LAMBDA times :
    InMethod(<<BeanCounter>>,
      << Let("counter", Invoke("BeanCounter", <<>>)),
        ForRange("i", Number(0), Number(times), Null, << Send("counter", "AddBeans", <<Number(2)>>) >>),
        Let("beans", Send("counter", "GetCount", <<>>)),
        When(Name("beans"), << Echo(Bin(Bin(Text("Collected "), "+", Invoke("to_string", <<Name("beans")>>)), "+",
                                        Text(" beans."))) >>) >>,
      { << <<"Collected " \o ToString(2 * times) \o " beans.">>, <<>> >> }))

\* test_suite.eop, "thread-ring": a token goes round.
Link ==
  Class("Link", <<<<"id">>>>, <<Let("next", Name("this"))>>,
        << Def("SetNext", <<<<"next_link">>>>, <<Let("next", Name("next_link"))>>),
           Def("ProcessToken", <<<<"token">>>>,
               << If2(Bin(Name("token"), ">", Number(0)),
                      << Let("token", Bin(Name("token"), "-", Number(1))), Send("next", "ProcessToken", <<Name("token")>>) >>,
                      << Echo(Name("id")) >>) >>) >>)
Rings ==
  ForEach({0, 1, 4}, LAMBDA token :
    Concurrent(<< Link,
      Def("main", <<>>, << Let("first", Invoke("Link", <<Number(1)>>)), Let("prev", Name("first")),
        ForRange("i", Number(2), Number(4), Null,
                 << Let("next", Invoke("Link", <<i>>)), Send("prev", "SetNext", <<Name("next")>>), Let("prev", Name("next")) >>),
        Send("prev", "SetNext", <<Name("first")>>), Send("first", "ProcessToken", <<Number(token)>>) >>) >>,
      { [pid \in 1 .. 4 |-> IF pid = (token % 3) + 2 THEN <<(token % 3) + 1>> ELSE <<>>] }))

\* Messages of two senders: those of each in their order.
Senders ==
  <<Concurrent(<< Class("Sink", <<>>, <<>>, << Def("take", <<<<"v">>>>, <<Echo(Name("v"))>>) >>),
                  Class("Src", <<<<"sink">>>>, <<>>,
                        << Def("go", <<<<"n">>>>, << ForRange("i", Number(0), n, Null, << Send("sink", "take", <<i>>) >>) >>) >>),
                  Def("main", <<>>, << Let("sink", Invoke("Sink", <<>>)), Let("a", Invoke("Src", <<Name("sink")>>)),
                                       Let("b", Invoke("Src", <<Name("sink")>>)),
                                       Send("a", "go", <<Number(2)>>), Send("b", "go", <<Number(1)>>) >>) >>,
      { << <<>>, printed, <<>>, <<>> >> : printed \in {<<0, 0, 1>>, <<0, 1, 0>>} })>>

\* A class with members that its constructor computes and methods of each kind.
Methods ==
  ForEach({<<2, 1>>, <<3, 0>>, <<4, 1>>}, LAMBDA pick :
    LET l == pick[1]  r == pick[2] IN
    InMethod(<< Class("A", <<<<"n">>>>, << Let("x", Number(1)), Let("y", Bin(x, "+", n)), Echo(y) >>,
                      << Def("less", << <<"a">>, <<"b">> >>,
                             << Let("z", Bin(Name("a"), "-", Name("b"))),
                                If(Bin(Name("z"), ">", x), <<Return(Name("z"))>>,
                                   <<[c |-> Bin(Name("z"), "==", x), body |-> <<Return(y)>>]>>, <<>>),
                                Return(Number(0)) >>) >>) >>,
      << Let("a", Invoke("A", <<Number(2)>>)), Let("p", Send("a", "less", <<Number(l), Number(2)>>)),
         Let("q", Send("a", "less", <<Number(1), Number(r)>>)),
         When(Bin(p, "and", q), << Echo(Value(p)), Echo(Value(q)) >>) >>,
      { << << IF l - 2 > 1 THEN l - 2 ELSE IF l - 2 = 1 THEN 3 ELSE 0,
              IF 1 - r > 1 THEN 1 - r ELSE IF 1 - r = 1 THEN 3 ELSE 0 >>, <<3>> >> }))

\* A `when` runs once, as soon as its promise is ready; a `whenever` again and again.  A
\* promise may become ready at any time, also between two blocks.
Accumulator ==
  Class("Acc", <<>>, <<Let("n", Number(0))>>, << Def("add", <<<<"k">>>>, << Let("n", Bin(n, "+", k)), Return(n) >>) >>)
Temporal ==
  ForEach({0, 1, 2}, LAMBDA times :
    InMethod(<<Accumulator>>,
      << Let("w", Invoke("Acc", <<>>)), Let("p", Send("w", "add", <<Number(1)>>)), Let("k", Number(0)),
         Whenever(Bin(p, "and", Bin(k, "<", Number(times))),
                  << Let("k", Bin(k, "+", Number(1))), Echo(Value(p)), Let("p", Send("w", "add", <<Number(10)>>)) >>) >>,
      { << SubSeq(<<1, 11, 21>>, 1, times), <<>> >> }))
  \o
  <<InMethod(<<Accumulator>>,
      << Let("w", Invoke("Acc", <<>>)), Let("p", Send("w", "add", <<Number(1)>>)),
         Let("q", Send("w", "add", <<Number(2)>>)), When(q, << Echo(Value(q)) >>), When(p, << Echo(Value(p)) >>),
         If2(Invoke("is_ready", <<q>>), <<Echo(Number(9))>>, <<>>) >>,
      { << early \o values, <<>> >> : early \in {<<>>, <<9>>}, values \in {<<1, 3>>, <<3, 1>>} })>>
  \o
  <<InMethod(<< Class("Named", <<<<"name">>>>, <<>>, << Def("id", <<>>, <<Return(Name("name"))>>) >>) >>,
      << Let("w", Invoke("Named", <<Text("x")>>)), Let("p", Send("w", "id", <<>>)),
         When(p, << Let("s", Value(p)), Echo(Bin(s, "+", Text("!"))) >>), When(p, << Echo(p) >>) >>,
      { <<order, <<>>>> : order \in {<<"x!", "x">>, <<"x", "x!">>} })>>

\* Timers may come in any order.
Timers ==
  <<InMethod(<<>>, << Let("p", Invoke("after", <<Number(1)>>)), Let("q", Invoke("after", <<Number(2)>>)),
        When(p, << Echo(Number(1)) >>), When(q, << Echo(Number(2)) >>), When(Bin(p, "and", q), << Echo(Number(3)) >>) >>,
      { <<order>> : order \in {<<1, 2, 3>>, <<2, 1, 3>>, <<1, 3, 2>>, <<2, 3, 1>>} })>>

\* main() asks whether there is an answer yet; that it is notified of one disturbs it nowhere.
Answers ==
  ForEach({0, 2}, LAMBDA times :
    Concurrent(<< Accumulator,
      Def("main", <<>>, << Let("w", Invoke("Acc", <<>>)), Let("p", Send("w", "add", <<Number(1)>>)),
        Steps(0, times, 1, << Let("q", Send("w", "add", << i >>)) >>),
        If2(Invoke("is_ready", <<p>>), << Echo(Value(p)) >>, << Echo(Number(0)) >>), Echo(Number(5)) >>) >>,
      { << <<v, 5>>, <<>> >> : v \in {0, 1} }))

\* README, `whenever`: an object that flushes what its methods have collected.
Flushes ==
  Zeroed(ForEach({1, 3, 4}, LAMBDA times :
    Concurrent(<< Class("Foo", <<>>, << Let("log", Invoke("array", <<Literal(<<"kind">>, <<"int">>, <<>>)>>)),
            Whenever(Bin(Invoke("size", <<Name("log")>>), "==", Number(2)), << Echo(Name("log")), Invoke("clear", <<Name("log")>>) >>) >>,
            << Def("stuff", <<<<"k">>>>, << Invoke("push", <<Name("log"), k>>) >>) >>),
      Def("main", <<>>, << Let("foo", Invoke("Foo", <<>>)),
        ForRange("i", Number(0), Number(times), Null, << Send("foo", "stuff", <<i>>) >>) >>) >>,
      { << <<>>, SubSeq(<< <<0, 1>>, <<2, 3>> >>, 1, times \div 2) >> })))

(***************************************************************************)
(* Types, names and modules.                                               *)
(***************************************************************************)
Same == Def("same", <<<<"v">>>>, <<Return(Name("v"))>>)
Twice == Def("twice", <<<<"v">>>>, << Let("w", Bin(Name("v"), "+", Name("v"))), Return(Name("w")) >>)

\* One function for arguments of several types.
Generics ==
  <<Sequential(Grow \o << Same, Twice, Def("main", <<>>, << Invoke("grow", <<>>),
      Let("x", Invoke("same", <<Number(4)>>)), Echo(x), Let("y", Invoke("twice", <<Real(25000000)>>)), Echo(y),
      Let("s", Invoke("same", <<Text("a")>>)), Echo(s), Let("x", Invoke("twice", <<Invoke("same", <<x>>)>>)), Echo(x) >>) >>)>>

\* README, namespaces: what is found from inside and from outside.
Namespaces ==
  LET inner == T("namespace") \o Word(<<"Inner">>) \o T(":") \o NewLine
                 \o Definition(Def("up", <<>>, <<Return(Number(1))>>))
                 \o Definition(Def("top", <<>>, << Return(Bin(Invoke("up", <<>>), "+", Number(10))) >>)) \o T("end") \o NewLine
      outer == T("namespace") \o Word(<<"Outer">>) \o T(":") \o NewLine \o inner
                 \o Definition(Def("up", <<>>, <<Return(Number(2))>>)) \o T("end") \o NewLine
      main(call) == Definition(Def("main", <<>>, <<Echo(call)>>)) \o Definition(Def("up", <<>>, <<Return(Number(3))>>)) \o T("eof")
      Program(path, value) == [Concurrent(<<>>, {<<<<value>>>>}) EXCEPT !.text = Written(outer \o main(CallNode(path, <<>>, <<>>, 0)))]
  IN <<Program(<<"up">>, 3), Program(<<"Outer", "up">>, 2), Program(<<"Outer", "Inner", "up">>, 1),
      Program(<<"Outer", "Inner", "top">>, 11)>>

\* import_test.eop: a module of its own and a name taken from another.
Imports ==
  LET util == Module(<<Def("say", <<>>, <<Return(Number(7))>>)>>)
      math == Module(<<Def("one", <<>>, <<Return(Number(1))>>), Def("two", <<>>, <<Return(Number(2))>>)>>)
      whole == T("import") \o Word(<<"util">>) \o NewLine
      named == T("from") \o Word(<<"math">>) \o T("import") \o Word(<<"one">>) \o NewLine
      Program(imports, call, prints) ==
        [Concurrent(<<>>, prints) EXCEPT !.text = Written(imports \o Module(<<Def("main", <<>>, <<Echo(CallNode(call, <<>>, <<>>, 0))>>)>>)),
                                         !.files = (<<"util">> :> Written(util)) @@ (<<"math">> :> Written(math))]
  IN <<Program(whole, <<"util", "say">>, {<<<<7>>>>}), Program(whole \o named, <<"one">>, {<<<<1>>>>}),
      Program(named \o whole, <<"math", "two">>, {<<<<2>>>>}), Program(named, <<"two">>, {}),
      Program(whole, <<"say">>, {}), Program(T("import") \o Word(<<"none">>) \o NewLine, <<"say">>, {})>>

\* What the parser and type inference must find.
Wrong(bodies) == ForEach(DOMAIN bodies, LAMBDA m :
    IllTyped(bodies[m]))
WrongBodies ==
  << << Let("x", Number(1)), Let("x", Text("a")) >>, << Let("x", Bin(Number(1), "+", Text("a"))) >>,
     << Let("x", Bin(Number(1), "<", Real(1))) >>, << Let("x", Number(1)), Shows(x) >>,
     << Let("x", Number(1)), While(x, <<Let("x", Number(0))>>) >>, << Let("a", Elements(<<Number(1), Text("b")>>)) >>,
     << Let("a", Elements(<<Number(1)>>)), Let("a", Number(1)) >>, << Let("x", Invoke("none", <<Number(1)>>)) >>,
     << Let("a", Elements(<<Number(1)>>)), Invoke("push", <<a, Text("b")>>) >>,
     << ForRange("i", Number(0), Text("a"), Null, <<Echo(i)>>) >>, << When(Number(3), <<Echo(Number(2))>>) >> >>
WrongCalls ==
  << << Let("x", Invoke("same", <<Number(1), Number(2)>>)) >>, << Let("x", Number(1)), Let("x", Invoke("same", <<Text("a")>>)) >>,
     << Let("x", Invoke("same", <<>>)) >>, << Let("s", Invoke("same", <<Text("a")>>)), Let("x", Bin(s, "+", Number(1))) >> >>
WrongMessages ==
  << << Send("w", "none", <<>>) >>, << Send("w", "add", <<Text("a")>>) >>, << Let("w", Number(3)) >>,
     << Let("p", Send("w", "add", <<Number(1)>>)), Let("x", Bin(p, "+", Number(1))) >>,
     << Let("p", Send("w", "add", <<Number(1)>>)), Let("p", Number(1)) >>, << Let("x", Number(1)), Send("x", "add", <<Number(1)>>) >> >>
IllTypedPrograms ==
  Wrong(WrongBodies)
  \o ForEach(DOMAIN WrongCalls, LAMBDA m :
    Concurrent(<<Same, Twice, Def("main", <<>>, WrongCalls[m])>>, {}))
  \o ForEach(DOMAIN WrongMessages, LAMBDA m :
    Concurrent(<<Accumulator, Def("main", <<>>, << Let("w", Invoke("Acc", <<>>)) >> \o WrongMessages[m])>>, {}))

(***************************************************************************)
(* Texts that module Source would not write: layout, comments, numbers,    *)
(* strings, and programs that lack a token.                                *)
(***************************************************************************)
Broken(lines, break) == FlattenSeq([m \in DOMAIN lines |-> lines[m] \o break])
Layout(lines, break, prints) ==
  [Concurrent(<<>>, {<<prints>>}) EXCEPT !.text = Broken(<< <<"def", " ", "main", "(", ")", ":">> >> \o lines \o << <<"end">> >>, break)]
Quoted(content) == <<"print", "(", "\"">> \o content \o <<"\"", ")">>

Texts ==
  FlattenSeq([m \in 1 .. 3 |->
    LET break == << <<"\n">>, <<"\r", "\n">>, <<" ", "#", "note", "\"", "\n", "\t", "\n">> >>[m] IN
    << Layout(<< <<"x", "=", "0", "0", "7", "-", "2", "*", "3", "+", "1">>, <<"\t", "print", "(", "x", ")">> >>, break, <<2>>),
       Layout(<< <<"x", "=", "1", ";", "print", " ", "(", "x", "<", "<", "3", ")">>, <<"#", "end">>, <<"print", "(", "x", "+">>,
                 <<" ", "4", ")">> >>, break, <<8, 5>>),
       Layout(<< <<"x", "_", "1", "=", ".", "5">>, <<"print", "(", "x", "_", "1", "+", "2", ".", ")">> >>, break, <<25000000>>),
       Layout(<< <<"ending", "=", "[", "1", ",">>, <<"2", "]">>, <<"ending", ".", "push", "(", "3", ")">>,
                 <<"to", "_", "x", "=", "ending", ".", "size", "(", ")">>, <<"print", "(", "to", "_", "x", ")">> >>, break, <<3>>),
       Layout(<< <<"x", "=", "5">>, <<"if", " ", "x", "!", "=", "5", ":">>, <<"print", "(", "1", ")">>,
                 <<"elif", " ", "x", ">", "=", "5", ":">>, <<"print", "(", "x", ">", ">", "1", ")">>, <<"end">> >>, break, <<2>>) >>])
  \o
  << Layout(<< <<"print", "(", "'", "a", "\\", "'", "b", "\"", "'", ")">> >>, <<"\n">>, <<"a'b\"">>),
     Layout(<< Quoted(<<"a", "\\", "\"", "b", "'">>) >>, <<"\n">>, <<"a\"b'">>),
     Layout(<< Quoted(<<"a", "\\", "n", "\\", "t", "b#">>) >>, <<"\n">>, <<"a\n\tb#">>),
     Layout(<< Quoted(<<"a", "\\", "\\", "c">>) >>, <<"\n">>, <<"a\\c">>),
     Layout(<< Quoted(<<>>), <<"print", "(", "'", "end", "'", ")">> >>, <<"\n">>, <<"", "end">>),
     [Concurrent(<<>>, {}) EXCEPT !.text = <<"def", " ", "main", "(", ")", ":", "\n", "print", "(", "'", "a", ")", "\n", "end", "\n">>] >>

\* Without one of these tokens no `main` is left.  (The code goes on without a statement that ends where
\* it should, and stops at the condition that no colon follows: README, "Where the code disagrees".)
Complete ==
  Module(<<Def("main", <<>>, << Let("x", Number(1)), Steps(0, 2, 1, << Let("x", Bin(x, "+", i)) >>),
                                While(Bin(x, "<", Number(5)), << Let("x", Bin(x, "*", Number(3))) >>),
                                If2(Bin(x, "==", Number(6)), << Echo(x) >>, << Echo(Number(0)) >>) >>)>>)
Needed == {m \in DOMAIN Complete : Complete[m].k \in {"def", "(", "in", "to", "end"}}
Damaged == ForEach(Needed, LAMBDA m :
  [Concurrent(<<>>, {}) EXCEPT !.text = Written(SubSeq(Complete, 1, m - 1) \o SubSeq(Complete, m + 1, Len(Complete)))])
=============================================================================
