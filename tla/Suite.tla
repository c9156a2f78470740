------------------------------- MODULE Suite ---------------------------------
(***************************************************************************)
(* The programs of module Samples, compiled.  Each stage of the compiler   *)
(* goes over all of them.                                                  *)
(***************************************************************************)
EXTENDS Compiler
S == INSTANCE Samples

Samples ==
  S!Groupings \o S!Conditions \o S!Floats \o S!Branches \o S!Loops \o S!Calls \o S!Strings \o S!Arrays
    \o S!Instructions \o S!Beans \o S!Rings \o S!Senders \o S!Methods \o S!Temporal \o S!Timers \o S!Answers \o S!Flushes
    \o S!Generics \o S!Namespaces \o S!Imports \o S!IllTypedPrograms \o S!Texts \o S!Damaged

\* Each with what memory may hold.
Cases  == FlattenSeq(<<>> \o [i \in DOMAIN Samples |-> S!ForEach(Samples[i].memory, LAMBDA u : <<i, u>>)])
Parsed == <<>> \o [i \in DOMAIN Samples |-> ImportModuleFromFile(Samples[i])]
Typed  == <<>> \o [c \in DOMAIN Cases |-> Infer(Parsed[Cases[c][1]], Cases[c][2])]
Output == <<>> \o [c \in DOMAIN Cases |-> Generate(Typed[c])]

\* A program for which memory makes no difference is executed once.
Differs(c) == \A b \in 1 .. c - 1 : Cases[b][1] = Cases[c][1] => Output[b] # Output[c]
CompiledSamples ==
  LET kept == SelectSeq([c \in DOMAIN Cases |-> c], Differs)
  IN <<>> \o [k \in DOMAIN kept |-> Output[kept[k]] @@ [prints |-> Samples[Cases[kept[k]][1]].prints]]
=============================================================================
