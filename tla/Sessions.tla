------------------------------ MODULE Sessions -------------------------------
(***************************************************************************)
(* Sessions at the prompt, line by line, with what is to be printed.  They *)
(* stay within what the code gets right, as those of module Samples do.    *)
(***************************************************************************)
EXTENDS Samples

\* The lines of a text; what takes several is ended by an empty one.
LinesOf(text) ==
  LET breaks == SelectSeq([m \in DOMAIN text |-> m], LAMBDA m : text[m] = "\n")
      From(m) == IF m = 1 THEN 1 ELSE breaks[m - 1] + 1
      To(m)   == IF m > Len(breaks) THEN Len(text) ELSE breaks[m] - 1
      lines   == [m \in 1 .. Len(breaks) + 1 |-> SubSeq(text, From(m), To(m))]
  IN IF breaks = <<>> \/ Last(lines) = <<>> THEN lines ELSE Append(lines, <<>>)

\* What is typed, and the definitions and statements that it stands for.
Input(text, definitions, body) == [lines |-> LinesOf(text), definitions |-> definitions, body |-> body]
Entry(statement) == Input(Written(LineOf(statement)), <<>>, <<statement>>)
Asks(e)    == Input(Written(Expression(e)), <<>>, <<Echo(e)>>)
Bang(e)    == Input(<<"!">> \o Written(Expression(e)), <<>>, <<Echo(e)>>)
Defines(f) == Input(Written(Definition(f)), <<f>>, <<>>)
Types(text) == Input(text, <<>>, <<>>)

\* `patient`: whether each line waits until nothing is left to do.
Conversation(inputs, patient, prints) ==
  [lines |-> FlattenSeq([m \in DOMAIN inputs |-> inputs[m].lines]), files |-> <<>>, patient |-> patient, prints |-> prints, memory |-> {0, 1}]

\* Without processes a session prints what its statements do one after the other.
Alone(inputs) ==
  Conversation(inputs, FALSE,
    {<<Prints(FlattenSeq([m \in DOMAIN inputs |-> inputs[m].definitions])
              \o <<Def("main", <<>>, FlattenSeq([m \in DOMAIN inputs |-> inputs[m].body]))>>)>>})

z == Name("z")

\* New variables with and without new constants, and what is not accepted in between.
Growing ==
  ForEach({<<"help", "(", ")">>, <<"y", "=", "x", "+">>, <<"x", "=", "2", " ", "3">>, <<"x", "=", "\"", "a", "\"">>, <<>>}, LAMBDA refused :
    Alone(<< Entry(Let("x", Number(7))), Types(refused), Entry(Let("y", Bin(x, "+", Number(2)))), Entry(Let("z", y)), Types(refused),
             Asks(z), Entry(Let("x", Bin(x, "*", z))), Bang(Bin(x, "-", y)), Entry(Echo(x)), Asks(Bin(z, "-", x)) >>))

Repeating ==
  ForEach({0, 3}, LAMBDA times :
    Alone(<< Entry(Let("x", Number(0))), Entry(Steps(0, times, 1, << Let("x", Bin(x, "+", i)), Echo(x) >>)), Entry(Let("y", Number(10))),
             Entry(While(Bin(x, "<", y), << Let("x", Bin(x, "+", Number(4))) >>)), Asks(x),
             Entry(If2(Bin(x, "==", y), << Echo(y) >>, << Let("z", Number(5)), Echo(z) >>)), Asks(x) >>))

\* A name that nothing has, as the last line: the code generator would refuse any later one.
Texting ==
  << Alone(<< Entry(Let("x", Number(7))), Asks(x), Types(<<"none">>) >>),
     Alone(<< Entry(Let("s", Text("a"))), Entry(Echo(Bin(s, "+", Text("b")))), Entry(Let("x", Number(4))),
              Asks(Bin(Invoke("to_string", <<x>>), "+", s)), Entry(If(Bin(s, "==", Text("a")), << Echo(s) >>, <<>>, <<>>)), Asks(s) >>) >>

Listing ==
  Zeroed(<< Alone(<< Entry(Let("a", Elements(<<Number(1), Number(2)>>))), Entry(Let("x", Number(3))), Entry(Invoke("push", <<a, x>>)), Asks(a),
                     Entry(Let("y", Index("a", Number(2)))), Entry(Assignment(Index("a", Number(0)), y)), Asks(a) >>) >>)

\* Definitions stay; those of parameters are called once the stack is large enough.
Defining ==
  << Alone(<< Defines(Def("five", <<>>, <<Return(Number(5))>>)), Entry(Let("x", Invoke("five", <<>>))), Asks(x),
              Entry(Let("y", Bin(Invoke("five", <<>>), "+", x))), Asks(Bin(Invoke("five", <<>>), "*", y)), Asks(x) >>),
     Alone([m \in DOMAIN Grow |-> Defines(Grow[m])]
           \o << Defines(Same), Entry(Invoke("grow", <<>>)), Entry(Let("x", Invoke("same", <<Number(4)>>))), Asks(x),
                 Entry(Let("s", Invoke("same", <<Text("a")>>))), Asks(s), Asks(Bin(Invoke("same", <<x>>), "+", x)) >>) >>

(***************************************************************************)
(* Processes, while the prompt goes on.                                    *)
(***************************************************************************)
\* A value is asked for when the answer is there; a block of the last line runs if the
\* promise is not yet ready.
Messaging ==
  << Conversation(<< Defines(Accumulator), Entry(Let("w", Invoke("Acc", <<>>))), Entry(Let("p", Send("w", "add", <<Number(1)>>))),
                     Entry(Let("x", Value(p))), Entry(Let("p", Send("w", "add", <<x>>))), Entry(Echo(Bin(Value(p), "+", x))) >>,
                  TRUE, {<< <<3>>, <<>> >>}),
     Conversation(<< Defines(Accumulator), Entry(Let("w", Invoke("Acc", <<>>))), Entry(Let("p", Send("w", "add", <<Number(4)>>))),
                     Entry(When(p, << Echo(Value(p)) >>)) >>,
                  FALSE, {<< <<>>, <<>> >>, << <<4>>, <<>> >>}) >>

\* Timers, and blocks that are left waiting by a line which adds nothing.
Waiting ==
  << Conversation(<< Entry(Let("x", Number(5))), Entry(Let("p", Invoke("after", <<x>>))), Entry(Echo(x)),
                     Entry(When(p, << Let("x", Bin(x, "+", x)), Echo(x) >>)), Entry(Echo(x)) >>,
                  FALSE, {<< <<5, 5>> >>, << <<5, 5, 10>> >>, << <<5, 10, 10>> >>}) >>

\* Functions of a file, and one of the prompt that a line has called, called and started as processes.
Files ==
  LET util == Module(<< Def("say", <<>>, << Let("x", Number(7)), Echo(x) >>), Def("low", <<>>, << Echo(Number(1)) >>) >>)
      Names(command, name) == Types(<<command, "(", name, ")">>)
      Session(command, prints) ==
        [Conversation(<< Entry(Let("x", Number(2))), Types(<<"import", "(", "util", ".", "eop", ")">>), Names(command, "say"),
                         Defines(Def("own", <<>>, << Echo(Number(3)) >>)), Entry(Invoke("own", <<>>)), Names(command, "own"),
                         Names(command, "say"), Names("call", "none"), Asks(x) >>, command = "spawn", prints)
         EXCEPT !.files = <<"util", ".", "eop">> :> Written(util)]
  IN << Session("call", {<< <<7, 3, 3, 7, 2>> >>}), Session("spawn", {<< <<3, 2>>, <<7>>, <<3>>, <<7>> >>}) >>

(***************************************************************************)
(* What the code gets wrong.                                               *)
(***************************************************************************)
\* README, "Variables defined in the REPL can of course be referenced in future statements": a
\* line in between reads behind the end of an array.
Erring ==
  Zeroed(<< Alone(<< Entry(Let("a", Elements(<<Number(1), Number(2)>>))), Entry(Let("x", Number(7))), Types(<<"y", "=", "a", "[", "5", "]">>),
                     Entry(Echo(x)) >>) >>)
=============================================================================
