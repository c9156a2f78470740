------------------------------ MODULE Futures ------------------------------
(***************************************************************************)
(* What promises and `when` blocks promise the programmer: a promise is    *)
(* resolved once and for all, a block waits for a set of promises, and it  *)
(* runs exactly once, after all of them are resolved.                      *)
(***************************************************************************)
CONSTANTS Promises, Blocks

VARIABLES resolved,  \* the promises whose results are there
          waiting,   \* the blocks that have not run, with what they wait for
          ran        \* the blocks that have

vars == <<resolved, waiting, ran>>

Init == resolved = {} /\ waiting = {} /\ ran = {}

Resolve(S) == /\ S # {} /\ S \cap resolved = {}
              /\ resolved' = resolved \cup S
              /\ UNCHANGED <<waiting, ran>>

Register(b, S) == /\ b \notin ran /\ \A w \in waiting : w[1] # b
                  /\ waiting' = waiting \cup {<<b, S>>}
                  /\ UNCHANGED <<resolved, ran>>

Run(w) == /\ w[2] \subseteq resolved
          /\ waiting' = waiting \ {w}
          /\ ran' = ran \cup {w[1]}
          /\ UNCHANGED resolved

Next == \/ \E S \in SUBSET Promises : Resolve(S)
        \/ \E b \in Blocks, S \in SUBSET Promises : Register(b, S)
        \/ \E w \in waiting : Run(w)

Spec == Init /\ [][Next]_vars
=============================================================================
