---------------------------- MODULE SymbolTable ----------------------------
(***************************************************************************)
(* The symbol table of one function (src/inc/eople_symbol_table.h).  Every *)
(* new name gets an entry and the next register of its kind.  Constants    *)
(* (`this`, parameters, literals) lie below variables on the stack, so the *)
(* register of a variable moves when a constant is added after it.  A name *)
(* is a sequence of identifiers, `a::b` being <<"a", "b">>; the scope of   *)
(* the table is prefixed to the names it creates.                          *)
(***************************************************************************)
EXTENDS Naturals, Sequences

NotFound == 0

EmptyTable ==
  [entries |-> <<>>, ids |-> <<>>, scope |-> <<>>, force |-> FALSE,
   nextConst |-> 0, nextVar |-> 0, rollbackConst |-> 0, rollbackVar |-> 0]

HasSymbol(T, ident) == ident \in DOMAIN T.ids

\* GetTableEntryIndex with must_exist: with the scope first, then without.
Find(T, ident) ==
  IF HasSymbol(T, T.scope \o ident) THEN T.ids[T.scope \o ident]
  ELSE IF HasSymbol(T, ident) THEN T.ids[ident] ELSE NotFound

\* GetTableEntryIndex without must_exist: a missing entry is created.
Declare(T, ident, constant) ==
  LET const == T.force \/ constant
      entry == [ident |-> T.scope \o ident, const |-> const, type |-> <<"nil">>, target |-> <<>>,
                reg   |-> IF const THEN T.nextConst ELSE T.nextVar]
  IN IF Find(T, ident) # NotFound THEN T
     ELSE [T EXCEPT !.entries = Append(@, entry),
                    !.ids = [k \in DOMAIN @ \cup {entry.ident} |-> IF k = entry.ident THEN Len(T.entries) + 1 ELSE @[k]],
                    !.nextConst = IF const THEN @ + 1 ELSE @,
                    !.nextVar = IF const THEN @ ELSE @ + 1]

ForceConstant(T, force) == [T EXCEPT !.force = force]

GetRegisterIndex(T, id) ==
  T.entries[id].reg + IF T.entries[id].const THEN 0 ELSE T.nextConst

symbol_count(T) == T.nextConst + T.nextVar

PrepRollback(T) == [T EXCEPT !.rollbackConst = T.nextConst, !.rollbackVar = T.nextVar]

\* The last entries go, as many as registers were handed out since PrepRollback.
\* size() - 1 - count is unsigned: when no entry is left it is the largest
\* integer, and no name is erased.
Rollback(T) ==
  LET count == (T.nextConst - T.rollbackConst) + (T.nextVar - T.rollbackVar)
      left  == Len(T.entries) - count
  IN [T EXCEPT !.entries = SubSeq(@, 1, left),
               !.ids = IF left = 0 THEN @
                       ELSE [k \in {j \in DOMAIN T.ids : T.ids[j] <= left} |-> T.ids[k]],
               !.nextConst = T.rollbackConst, !.nextVar = T.rollbackVar]
=============================================================================
