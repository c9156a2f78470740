---------------------------- MODULE SessionSuite -----------------------------
(***************************************************************************)
(* The sessions of module Sessions, compiled.                              *)
(***************************************************************************)
EXTENDS Prompt
S == INSTANCE Sessions

Sequences == S!Growing \o S!Repeating \o S!Texting \o S!Listing \o S!Defining \o S!Messaging \o S!Waiting \o S!Files
Cases(sessions) == FlattenSeq(<<>> \o [i \in DOMAIN sessions |-> S!ForEach(sessions[i].memory, LAMBDA u : <<i, u>>)])
CompileAll(sessions, cases) ==
  <<>> \o [c \in DOMAIN cases |-> LET it == sessions[cases[c][1]]
                                  IN [steps |-> Eve(NewEnvironment(cases[c][2]), it.files, it.lines).steps,
                                      patient |-> it.patient, prints |-> it.prints]]

CompiledSessions == CompileAll(Sequences, Cases(Sequences))
CompiledErring   == CompileAll(S!Erring, Cases(S!Erring))
=============================================================================
