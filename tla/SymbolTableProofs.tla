-------------------------- MODULE SymbolTableProofs --------------------------
(***************************************************************************)
(* Proofs about the symbol table, for every set of names and types: each   *)
(* name has a cell of its own on the stack, names keep their meaning while *)
(* others are added, and a rollback restores what was there.               *)
(***************************************************************************)
EXTENDS SymbolTable, SequenceTheorems, TLAPS

CONSTANTS Names, Types, Targets  \* identifiers, types of symbols, names of processes and functions

(* The default type and target of a new entry are some of them. *)
Defaults == <<"nil">> \in Types /\ << >> \in Targets

Idents == Seq(Names)
Entries == [ident : Idents, const : BOOLEAN, type : Types, target : Targets, reg : Nat]
Indices == UNION {[K -> Nat] : K \in SUBSET Idents}
Tables == [entries : Seq(Entries), ids : Indices, scope : Idents, force : BOOLEAN,
           nextConst : Nat, nextVar : Nat, rollbackConst : Nat, rollbackVar : Nat]

(* Every entry has a register of its kind that no other has, every         *)
(* register is an entry's, and m_table is the inverse of the names.        *)
Ids(T) == 1 .. Len(T.entries)
Handed(T, const) == IF const THEN T.nextConst ELSE T.nextVar
Within(T) == \A i \in Ids(T) : T.entries[i].reg < Handed(T, T.entries[i].const)
Distinct(T) ==
  \A i, j \in Ids(T) :
    T.entries[i].const = T.entries[j].const /\ T.entries[i].reg = T.entries[j].reg => i = j
Used(T) ==
  \A c \in BOOLEAN, r \in Nat : r < Handed(T, c) =>
    \E i \in Ids(T) : T.entries[i].const = c /\ T.entries[i].reg = r
Named(T) ==
  /\ \A i \in Ids(T) : HasSymbol(T, T.entries[i].ident) /\ T.ids[T.entries[i].ident] = i
  /\ \A k \in DOMAIN T.ids : T.ids[k] \in Ids(T) /\ T.entries[T.ids[k]].ident = k
Whole(T) ==
  /\ T \in Tables /\ Len(T.entries) = T.nextConst + T.nextVar
  /\ Within(T) /\ Distinct(T) /\ Used(T) /\ Named(T)

-----------------------------------------------------------------------------
(* The fields of a table and of its entries. *)
LEMMA TableTypes ==
  ASSUME NEW T \in Tables
  PROVE  /\ T.entries \in Seq(Entries) /\ Len(T.entries) \in Nat /\ T.ids \in Indices
         /\ T.scope \in Idents /\ T.force \in BOOLEAN
         /\ T.nextConst \in Nat /\ T.nextVar \in Nat /\ T.rollbackConst \in Nat /\ T.rollbackVar \in Nat
         /\ \A i \in Ids(T) : /\ T.entries[i] \in Entries
                              /\ T.entries[i].ident \in Idents /\ T.entries[i].const \in BOOLEAN
                              /\ T.entries[i].reg \in Nat
         /\ DOMAIN T.ids \subseteq Idents /\ \A k \in DOMAIN T.ids : T.ids[k] \in Nat
<1>1. /\ T.entries \in Seq(Entries) /\ T.ids \in Indices /\ T.scope \in Idents /\ T.force \in BOOLEAN
      /\ T.nextConst \in Nat /\ T.nextVar \in Nat /\ T.rollbackConst \in Nat /\ T.rollbackVar \in Nat
  BY DEF Tables
<1>2. Len(T.entries) \in Nat /\ \A i \in Ids(T) : T.entries[i] \in Entries
  BY <1>1, LenProperties, ElementOfSeq DEF Ids
<1>3. \A i \in Ids(T) : T.entries[i].ident \in Idents /\ T.entries[i].const \in BOOLEAN /\ T.entries[i].reg \in Nat
  BY <1>2 DEF Entries
<1>4. DOMAIN T.ids \subseteq Idents /\ \A k \in DOMAIN T.ids : T.ids[k] \in Nat
  <2>1. PICK K \in SUBSET Idents : T.ids \in [K -> Nat]
    BY <1>1 DEF Indices
  <2> QED
    BY <2>1
<1> QED
  BY <1>1, <1>2, <1>3, <1>4

(* What a name means: its entry, if it has one. *)
LEMMA Meaning ==
  ASSUME NEW T, Whole(T), NEW ident \in Idents
  PROVE  /\ T.scope \o ident \in Idents
         /\ Find(T, ident) = NotFound <=> ~HasSymbol(T, T.scope \o ident) /\ ~HasSymbol(T, ident)
         /\ Find(T, ident) # NotFound => Find(T, ident) \in Ids(T)
<1>1. T.scope \o ident \in Idents
  BY ConcatProperties, TableTypes DEF Whole, Idents
<1>2. \A k \in DOMAIN T.ids : T.ids[k] \in Ids(T) /\ T.ids[k] # NotFound
  BY TableTypes DEF Whole, Named, Ids, NotFound
<1> QED
  BY <1>1, <1>2 DEF Find, HasSymbol

(* What Declare adds: an entry for the name, with the next register of its *)
(* kind, after the entries that were there.                                *)
Adds(T, D, const, name) ==
  /\ D \in Tables /\ const \in BOOLEAN /\ name \in Idents
  /\ Len(D.entries) = Len(T.entries) + 1
  /\ \A i \in Ids(T) : D.entries[i] = T.entries[i]
  /\ D.entries[Len(T.entries) + 1].ident = name /\ D.entries[Len(T.entries) + 1].const = const
  /\ D.entries[Len(T.entries) + 1].reg = Handed(T, const)
  /\ name \notin DOMAIN T.ids /\ DOMAIN D.ids = DOMAIN T.ids \cup {name}
  /\ D.ids[name] = Len(T.entries) + 1 /\ \A k \in DOMAIN T.ids : D.ids[k] = T.ids[k]
  /\ D.nextConst = (IF const THEN T.nextConst + 1 ELSE T.nextConst)
  /\ D.nextVar = (IF const THEN T.nextVar ELSE T.nextVar + 1)
  /\ D.scope = T.scope /\ D.force = T.force
  /\ D.rollbackConst = T.rollbackConst /\ D.rollbackVar = T.rollbackVar

LEMMA Declared ==
  ASSUME Defaults, NEW T, Whole(T), NEW ident \in Idents, NEW constant \in BOOLEAN,
         Find(T, ident) = NotFound
  PROVE  \E const \in BOOLEAN : Adds(T, Declare(T, ident, constant), const, T.scope \o ident)
<1> PICK D : D = Declare(T, ident, constant)
  OBVIOUS
<1> PICK const : const = (T.force \/ constant)
  OBVIOUS
<1> PICK name : name = T.scope \o ident
  OBVIOUS
<1> PICK n : n = Len(T.entries)
  OBVIOUS
<1>1. /\ T.entries \in Seq(Entries) /\ n \in Nat /\ T.ids \in Indices /\ T.force \in BOOLEAN
      /\ T.nextConst \in Nat /\ T.nextVar \in Nat /\ DOMAIN T.ids \subseteq Idents
      /\ \A k \in DOMAIN T.ids : T.ids[k] \in Nat
  BY TableTypes DEF Whole
<1>2. name \in Idents /\ name \notin DOMAIN T.ids
  BY Meaning DEF HasSymbol
<1>3. const \in BOOLEAN
  BY <1>1
<1>4. PICK reg : reg = Handed(T, const)
  OBVIOUS
<1>5. reg \in Nat
  BY <1>1, <1>4 DEF Handed
<1>6. PICK e : e = [ident |-> name, const |-> const, type |-> <<"nil">>, target |-> << >>, reg |-> reg]
  OBVIOUS
<1>7. e \in Entries
  BY <1>2, <1>3, <1>5, <1>6 DEF Entries, Defaults
<1>8. PICK f : f = [k \in DOMAIN T.ids \cup {name} |-> IF k = name THEN n + 1 ELSE T.ids[k]]
  OBVIOUS
<1>9. /\ f \in Indices /\ DOMAIN f = DOMAIN T.ids \cup {name} /\ f[name] = n + 1
      /\ \A k \in DOMAIN T.ids : f[k] = T.ids[k]
  <2>1. DOMAIN f = DOMAIN T.ids \cup {name} /\ f[name] = n + 1 /\ \A k \in DOMAIN T.ids : f[k] = T.ids[k]
    BY <1>2, <1>8
  <2>2. f \in [DOMAIN T.ids \cup {name} -> Nat]
    BY <1>1, <1>8
  <2>3. DOMAIN T.ids \cup {name} \in SUBSET Idents
    BY <1>1, <1>2
  <2> QED
    BY <2>1, <2>2, <2>3 DEF Indices
<1>10. PICK s : s = Append(T.entries, e)
  OBVIOUS
<1>11. /\ s \in Seq(Entries) /\ Len(s) = n + 1 /\ \A i \in 1 .. n : s[i] = T.entries[i]
       /\ s[n + 1] = e
  BY <1>1, <1>7, <1>10, AppendProperties
<1>12. D = [T EXCEPT !.entries = s, !.ids = f,
                     !.nextConst = IF const THEN T.nextConst + 1 ELSE T.nextConst,
                     !.nextVar = IF const THEN T.nextVar ELSE T.nextVar + 1]
  BY <1>4, <1>6, <1>8, <1>10 DEF Declare, Handed
<1>13. T \in Tables
  BY DEF Whole
<1>14. /\ D.entries = s /\ D.ids = f
       /\ D.nextConst = (IF const THEN T.nextConst + 1 ELSE T.nextConst)
       /\ D.nextVar = (IF const THEN T.nextVar ELSE T.nextVar + 1)
       /\ D.scope = T.scope /\ D.force = T.force
       /\ D.rollbackConst = T.rollbackConst /\ D.rollbackVar = T.rollbackVar
  BY <1>12, <1>13 DEF Tables
<1>15. D \in Tables
  <2>1. PICK c : c = IF const THEN T.nextConst + 1 ELSE T.nextConst
    OBVIOUS
  <2>2. PICK v : v = IF const THEN T.nextVar ELSE T.nextVar + 1
    OBVIOUS
  <2>3. c \in Nat /\ v \in Nat
    BY <1>1, <2>1, <2>2
  <2>4. D = [T EXCEPT !.entries = s, !.ids = f, !.nextConst = c, !.nextVar = v]
    BY <1>12, <2>1, <2>2
  <2> QED
    BY <1>9, <1>11, <1>13, <2>3, <2>4 DEF Tables
<1>16. s[n + 1].ident = name /\ s[n + 1].const = const /\ s[n + 1].reg = reg
  BY <1>6, <1>11
<1>17. Ids(T) = 1 .. n
  BY DEF Ids
<1>18. Adds(T, D, const, name)
  BY <1>1, <1>2, <1>3, <1>4, <1>9, <1>11, <1>14, <1>15, <1>16, <1>17 DEF Adds
<1> QED
  BY <1>3, <1>18

LEMMA DeclaredWhole ==
  ASSUME Defaults, NEW T, Whole(T), NEW ident \in Idents, NEW constant \in BOOLEAN,
         Find(T, ident) = NotFound
  PROVE  Whole(Declare(T, ident, constant))
<1>1. PICK D : D = Declare(T, ident, constant)
  OBVIOUS
<1>2. PICK const \in BOOLEAN : Adds(T, D, const, T.scope \o ident)
  BY <1>1, Declared
<1>3. PICK name : name = T.scope \o ident
  OBVIOUS
<1>4. PICK n : n = Len(T.entries)
  OBVIOUS
<1>5. /\ D \in Tables /\ n \in Nat /\ const \in BOOLEAN /\ Len(D.entries) = n + 1
      /\ \A i \in 1 .. n : D.entries[i] = T.entries[i]
      /\ D.entries[n + 1].ident = name /\ D.entries[n + 1].const = const
      /\ D.entries[n + 1].reg = Handed(T, const)
      /\ name \in Idents /\ name \notin DOMAIN T.ids /\ DOMAIN D.ids = DOMAIN T.ids \cup {name}
      /\ D.ids[name] = n + 1 /\ \A k \in DOMAIN T.ids : D.ids[k] = T.ids[k]
      /\ D.nextConst = (IF const THEN T.nextConst + 1 ELSE T.nextConst)
      /\ D.nextVar = (IF const THEN T.nextVar ELSE T.nextVar + 1)
  <2>1. n \in Nat /\ Ids(T) = 1 .. n
    BY <1>4, TableTypes DEF Whole, Ids
  <2> QED
    BY <1>2, <1>3, <1>4, <2>1 DEF Adds
<1>6. /\ T.nextConst \in Nat /\ T.nextVar \in Nat /\ n = T.nextConst + T.nextVar
      /\ \A i \in 1 .. n : T.entries[i].const \in BOOLEAN /\ T.entries[i].reg \in Nat
      /\ \A i \in 1 .. n : T.entries[i].reg < Handed(T, T.entries[i].const)
  BY <1>4, TableTypes DEF Whole, Within, Ids
<1>7. \A c \in BOOLEAN : Handed(D, c) = IF c = const THEN Handed(T, c) + 1 ELSE Handed(T, c)
  BY <1>5 DEF Handed
<1>8. \A c \in BOOLEAN : Handed(T, c) \in Nat
  BY <1>6 DEF Handed
<1>9. \A i \in 1 .. n + 1 : i \in 1 .. n \/ i = n + 1
  BY <1>5
<1>10. Len(D.entries) = D.nextConst + D.nextVar
  BY <1>5, <1>6
<1>11. ASSUME NEW i \in 1 .. n + 1 PROVE D.entries[i].reg < Handed(D, D.entries[i].const)
  <2>1. CASE i \in 1 .. n
    <3>1. PICK c \in BOOLEAN : c = T.entries[i].const
      BY <1>6, <2>1
    <3>2. T.entries[i].reg < Handed(T, c) /\ T.entries[i].reg \in Nat
      BY <1>6, <2>1, <3>1
    <3>3. Handed(T, c) \in Nat /\ Handed(D, c) \in {Handed(T, c), Handed(T, c) + 1}
      BY <1>7, <1>8
    <3>4. T.entries[i].reg < Handed(D, c)
      BY <3>2, <3>3
    <3> QED
      BY <1>5, <2>1, <3>1, <3>4
  <2>2. CASE i = n + 1
    BY <1>5, <1>7, <1>8, <2>2
  <2> QED
    BY <1>9, <2>1, <2>2
<1>12. ASSUME NEW i \in 1 .. n + 1, NEW j \in 1 .. n + 1,
              D.entries[i].const = D.entries[j].const, D.entries[i].reg = D.entries[j].reg
       PROVE  i = j
  <2>1. ASSUME NEW k \in 1 .. n
        PROVE  ~(D.entries[k].const = D.entries[n + 1].const /\ D.entries[k].reg = D.entries[n + 1].reg)
    <3>1. T.entries[k].reg < Handed(T, T.entries[k].const) /\ T.entries[k].reg \in Nat
      BY <1>6
    <3> QED
      BY <1>5, <1>8, <3>1
  <2>2. CASE i \in 1 .. n /\ j \in 1 .. n
    BY <1>4, <1>5, <1>12, <2>2 DEF Whole, Distinct, Ids
  <2> QED
    BY <1>9, <1>12, <2>1, <2>2
<1>13. ASSUME NEW i \in 1 .. n + 1
       PROVE  HasSymbol(D, D.entries[i].ident) /\ D.ids[D.entries[i].ident] = i
  <2>1. CASE i \in 1 .. n
    <3>1. T.entries[i].ident \in DOMAIN T.ids /\ T.ids[T.entries[i].ident] = i
      BY <1>4, <2>1 DEF Whole, Named, Ids, HasSymbol
    <3> QED
      BY <1>5, <2>1, <3>1 DEF HasSymbol
  <2>2. CASE i = n + 1
    BY <1>5, <2>2 DEF HasSymbol
  <2> QED
    BY <1>9, <2>1, <2>2
<1>14. ASSUME NEW k \in DOMAIN D.ids PROVE D.ids[k] \in 1 .. n + 1 /\ D.entries[D.ids[k]].ident = k
  <2>1. CASE k \in DOMAIN T.ids
    <3>1. T.ids[k] \in 1 .. n /\ T.entries[T.ids[k]].ident = k
      BY <1>4, <2>1 DEF Whole, Named, Ids
    <3> QED
      BY <1>5, <2>1, <3>1
  <2>2. CASE k = name
    BY <1>5, <2>2
  <2> QED
    BY <1>5, <2>1, <2>2
<1>15. ASSUME NEW c \in BOOLEAN, NEW r \in Nat, r < Handed(D, c)
       PROVE  \E i \in 1 .. n + 1 : D.entries[i].const = c /\ D.entries[i].reg = r
  <2>1. CASE r < Handed(T, c)
    <3>1. PICK i \in 1 .. n : T.entries[i].const = c /\ T.entries[i].reg = r
      BY <1>4, <2>1 DEF Whole, Used, Ids
    <3>2. i \in 1 .. n + 1
      BY <1>5
    <3> QED
      BY <1>5, <3>1, <3>2
  <2>2. CASE ~(r < Handed(T, c))
    <3>1. c = const
      BY <1>7, <1>15, <2>2
    <3>2. r = Handed(T, c)
      BY <1>7, <1>8, <1>15, <2>2, <3>1
    <3>3. n + 1 \in 1 .. n + 1
      BY <1>5
    <3> QED
      BY <1>5, <3>1, <3>2, <3>3
  <2> QED
    BY <2>1, <2>2
<1>16. Ids(D) = 1 .. n + 1
  BY <1>5 DEF Ids
<1>17. Within(D)
  BY <1>11, <1>16 DEF Within
<1>18. Distinct(D)
  BY <1>12, <1>16, Zenon DEF Distinct
<1>19. Used(D)
  BY <1>15, <1>16 DEF Used
<1>20. Named(D)
  BY <1>13, <1>14, <1>16, Zenon DEF Named
<1> QED
  BY <1>1, <1>5, <1>10, <1>17, <1>18, <1>19, <1>20 DEF Whole

-----------------------------------------------------------------------------
(* Declaring a name keeps a table whole: whatever is declared, as constant *)
(* or variable and under whatever scope, every name has one entry and every*)
(* entry a register of its kind that no other entry has.                   *)
THEOREM DeclareWhole ==
  ASSUME Defaults, NEW T, Whole(T), NEW ident \in Idents, NEW constant \in BOOLEAN
  PROVE  Whole(Declare(T, ident, constant)) /\ Find(Declare(T, ident, constant), ident) # NotFound
<1>1. CASE Find(T, ident) # NotFound
  <2>1. Declare(T, ident, constant) = T
    BY <1>1 DEF Declare
  <2> QED
    BY <1>1, <2>1
<1>2. CASE Find(T, ident) = NotFound
  <2>1. PICK D : D = Declare(T, ident, constant)
    OBVIOUS
  <2>2. Whole(D)
    BY <1>2, <2>1, DeclaredWhole
  <2>3. D.scope = T.scope /\ T.scope \o ident \in DOMAIN D.ids
    <3>1. PICK const \in BOOLEAN : Adds(T, D, const, T.scope \o ident)
      BY <1>2, <2>1, Declared
    <3> QED
      BY <3>1 DEF Adds
  <2>4. Find(D, ident) # NotFound
    BY <2>2, <2>3, Meaning DEF HasSymbol
  <2> QED
    BY <2>1, <2>2, <2>4
<1> QED
  BY <1>1, <1>2

(* The table of a new function or process, whose scope is its name. *)
LEMMA EmptyWhole == ASSUME NEW scope \in Idents PROVE Whole([EmptyTable EXCEPT !.scope = scope])
<1>1. << >> \in Indices /\ DOMAIN << >> = {}
  <2>1. << >> = [k \in {} |-> 0]
    OBVIOUS
  <2> QED
    BY <2>1 DEF Indices
<1>2. PICK E : E = [EmptyTable EXCEPT !.scope = scope]
  OBVIOUS
<1>3. E = [entries |-> << >>, ids |-> << >>, scope |-> scope, force |-> FALSE,
           nextConst |-> 0, nextVar |-> 0, rollbackConst |-> 0, rollbackVar |-> 0]
  BY <1>2 DEF EmptyTable
<1>4. E \in Tables
  BY <1>1, <1>3 DEF Tables
<1>5. /\ E.entries = << >> /\ E.ids = << >> /\ E.nextConst = 0 /\ E.nextVar = 0
  BY <1>3
<1>6. Ids(E) = {} /\ \A c \in BOOLEAN : Handed(E, c) = 0
  BY <1>5 DEF Ids, Handed
<1>7. Whole(E)
  BY <1>1, <1>4, <1>5, <1>6 DEF Whole, Within, Distinct, Used, Named
<1> QED
  BY <1>2, <1>7

(* Two symbols never share a cell of the stack frame, and all lie within   *)
(* its symbol_count() cells, constants below variables, in whatever order  *)
(* the parser, the type inference and the prompt have declared them.       *)
THEOREM CellsApart ==
  ASSUME NEW T, Whole(T), NEW i \in Ids(T), NEW j \in Ids(T)
  PROVE  /\ GetRegisterIndex(T, i) \in 0 .. symbol_count(T) - 1
         /\ GetRegisterIndex(T, i) = GetRegisterIndex(T, j) => i = j
         /\ T.entries[i].const /\ ~T.entries[j].const => GetRegisterIndex(T, i) < GetRegisterIndex(T, j)
<1>1. /\ T.nextConst \in Nat /\ T.nextVar \in Nat
      /\ T.entries[i].const \in BOOLEAN /\ T.entries[i].reg \in Nat
      /\ T.entries[j].const \in BOOLEAN /\ T.entries[j].reg \in Nat
  BY TableTypes DEF Whole
<1>2. /\ T.entries[i].reg < Handed(T, T.entries[i].const)
      /\ T.entries[j].reg < Handed(T, T.entries[j].const)
      /\ T.entries[i].const = T.entries[j].const /\ T.entries[i].reg = T.entries[j].reg => i = j
  BY DEF Whole, Within, Distinct
<1>3. PICK x : x = GetRegisterIndex(T, i)
  OBVIOUS
<1>4. PICK y : y = GetRegisterIndex(T, j)
  OBVIOUS
<1>5. /\ x \in Nat /\ IF T.entries[i].const THEN x < T.nextConst /\ x = T.entries[i].reg
                      ELSE /\ x < T.nextConst + T.nextVar /\ ~(x < T.nextConst)
                           /\ x = T.entries[i].reg + T.nextConst
  BY <1>1, <1>2, <1>3 DEF GetRegisterIndex, Handed
<1>6. /\ y \in Nat /\ IF T.entries[j].const THEN y < T.nextConst /\ y = T.entries[j].reg
                      ELSE /\ y < T.nextConst + T.nextVar /\ ~(y < T.nextConst)
                           /\ y = T.entries[j].reg + T.nextConst
  BY <1>1, <1>2, <1>4 DEF GetRegisterIndex, Handed
<1>7. x \in 0 .. symbol_count(T) - 1
  BY <1>1, <1>5 DEF symbol_count
<1>8. x = y => i = j
  BY <1>1, <1>2, <1>5, <1>6
<1>9. T.entries[i].const /\ ~T.entries[j].const => x < y
  BY <1>1, <1>5, <1>6
<1> QED
  BY <1>3, <1>4, <1>7, <1>8, <1>9

(* Every cell is some symbol's.  The prompt lists its variables by their   *)
(* registers: each is found.                                               *)
THEOREM CellsUsed ==
  ASSUME NEW T, Whole(T), NEW cell \in 0 .. symbol_count(T) - 1
  PROVE  \E i \in Ids(T) : GetRegisterIndex(T, i) = cell
<1>1. /\ T.nextConst \in Nat /\ T.nextVar \in Nat /\ cell \in Nat /\ cell < T.nextConst + T.nextVar
  BY TableTypes DEF Whole, symbol_count
<1>2. CASE cell < T.nextConst
  <2>1. PICK i \in Ids(T) : T.entries[i].const = TRUE /\ T.entries[i].reg = cell
    BY <1>1, <1>2 DEF Whole, Used, Handed
  <2> QED
    BY <1>1, <2>1 DEF GetRegisterIndex
<1>3. CASE ~(cell < T.nextConst)
  <2>1. PICK r : r = cell - T.nextConst
    OBVIOUS
  <2>2. r \in Nat /\ r < T.nextVar /\ cell = r + T.nextConst
    BY <1>1, <1>3, <2>1
  <2>3. PICK i \in Ids(T) : T.entries[i].const = FALSE /\ T.entries[i].reg = r
    BY <2>2 DEF Whole, Used, Handed
  <2> QED
    BY <1>1, <2>2, <2>3 DEF GetRegisterIndex
<1> QED
  BY <1>2, <1>3

-----------------------------------------------------------------------------
(* Two names with the scope before them are the same only if they were. *)
LEMMA Cancel ==
  ASSUME NEW a \in Idents, NEW x \in Idents, NEW y \in Idents, a \o x = a \o y
  PROVE  x = y
<1>1. PICK n : n = Len(a)
  OBVIOUS
<1>2. n \in Nat /\ Len(x) \in Nat /\ Len(y) \in Nat
  BY <1>1, LenProperties DEF Idents
<1>3. /\ Len(a \o x) = n + Len(x)
      /\ \A i \in 1 .. n + Len(x) : (a \o x)[i] = IF i <= n THEN a[i] ELSE x[i - n]
  BY <1>1, ConcatProperties DEF Idents
<1>4. /\ Len(a \o y) = n + Len(y)
      /\ \A i \in 1 .. n + Len(y) : (a \o y)[i] = IF i <= n THEN a[i] ELSE y[i - n]
  BY <1>1, ConcatProperties DEF Idents
<1>5. Len(x) = Len(y)
  BY <1>2, <1>3, <1>4
<1>6. ASSUME NEW i \in 1 .. Len(x) PROVE x[i] = y[i]
  <2>1. PICK j : j = i + n
    OBVIOUS
  <2>2. j \in 1 .. n + Len(x) /\ ~(j <= n) /\ j - n = i
    BY <1>2, <2>1
  <2>3. (a \o x)[j] = x[i]
    BY <1>3, <2>2
  <2>4. (a \o y)[j] = y[i]
    BY <1>4, <1>5, <2>2
  <2> QED
    BY <2>3, <2>4
<1> QED
  BY <1>5, <1>6, SeqEqual DEF Idents

(* No declaration changes what another name means, though names are looked *)
(* up with the scope and without: a name that has an entry keeps it.  A    *)
(* constant keeps its cell; the variables move up together when a constant *)
(* is added below them.                                                    *)
THEOREM NamesKept ==
  ASSUME Defaults, NEW T, Whole(T), NEW other \in Idents, NEW constant \in BOOLEAN,
         NEW ident \in Idents, Find(T, ident) # NotFound
  PROVE  LET D == Declare(T, other, constant)
             i == Find(T, ident)
         IN /\ Find(D, ident) = i
            /\ D.entries[i] = T.entries[i]
            /\ GetRegisterIndex(D, i) =
                 GetRegisterIndex(T, i) + IF T.entries[i].const THEN 0 ELSE D.nextConst - T.nextConst
<1>1. PICK D : D = Declare(T, other, constant)
  OBVIOUS
<1>2. PICK i : i = Find(T, ident)
  OBVIOUS
<1>3. i \in Ids(T) /\ T.scope \o ident \in Idents /\ T.scope \in Idents
  BY <1>2, Meaning, TableTypes DEF Whole
<1>4. T.entries[i].reg \in Nat /\ T.entries[i].const \in BOOLEAN /\ T.nextConst \in Nat /\ T.nextVar \in Nat
  BY <1>3, TableTypes DEF Whole
<1>5. CASE Find(T, other) # NotFound
  <2>1. D = T
    BY <1>1, <1>5 DEF Declare
  <2>2. Find(D, ident) = i /\ D.entries[i] = T.entries[i]
    BY <1>2, <2>1
  <2>3. GetRegisterIndex(D, i) = GetRegisterIndex(T, i) + IF T.entries[i].const THEN 0 ELSE D.nextConst - T.nextConst
    BY <1>4, <2>1 DEF GetRegisterIndex
  <2> QED
    BY <1>1, <1>2, <2>2, <2>3
<1>6. CASE Find(T, other) = NotFound
  <2>1. PICK const \in BOOLEAN : Adds(T, D, const, T.scope \o other)
    BY <1>1, <1>6, Declared
  <2>2. PICK name : name = T.scope \o other
    OBVIOUS
  <2>3. /\ D.entries[i] = T.entries[i] /\ D.scope = T.scope /\ DOMAIN D.ids = DOMAIN T.ids \cup {name}
        /\ \A k \in DOMAIN T.ids : D.ids[k] = T.ids[k]
        /\ D.nextConst = IF const THEN T.nextConst + 1 ELSE T.nextConst
    BY <1>3, <2>1, <2>2 DEF Adds
  <2>4. T.scope \o ident # name
    <3>1. SUFFICES ASSUME T.scope \o ident = T.scope \o other PROVE FALSE
      BY <2>2
    <3>2. ident = other
      BY <1>3, <3>1, Cancel
    <3> QED
      BY <1>6, <3>2
  <2>5. Find(D, ident) = i
    BY <1>2, <2>3, <2>4, Meaning DEF Find, HasSymbol
  <2>6. D.nextConst \in Nat
    BY <1>4, <2>3
  <2>7. GetRegisterIndex(D, i) = GetRegisterIndex(T, i) + IF T.entries[i].const THEN 0 ELSE D.nextConst - T.nextConst
    BY <1>4, <2>3, <2>6 DEF GetRegisterIndex
  <2> QED
    BY <1>1, <1>2, <2>3, <2>5, <2>7
<1> QED
  BY <1>5, <1>6

-----------------------------------------------------------------------------
(* The parser and the type inference change a table in three ways: they    *)
(* declare names, they set the type or the target of an entry, and they    *)
(* force constants or stop forcing them.                                   *)
SameSymbol(d, e) == d.ident = e.ident /\ d.const = e.const /\ d.reg = e.reg
Alike(T, U) ==
  /\ U \in Tables
  /\ Len(U.entries) = Len(T.entries) /\ \A i \in Ids(T) : SameSymbol(U.entries[i], T.entries[i])
  /\ U.ids = T.ids /\ U.scope = T.scope /\ U.nextConst = T.nextConst /\ U.nextVar = T.nextVar

LEMMA AlikeWhole == ASSUME NEW T, Whole(T), NEW U, Alike(T, U) PROVE Whole(U)
<1>1. Ids(U) = Ids(T) /\ \A c \in BOOLEAN : Handed(U, c) = Handed(T, c)
  BY DEF Alike, Ids, Handed
<1>2. U \in Tables /\ Len(U.entries) = U.nextConst + U.nextVar
  BY DEF Alike, Whole
<1>3. /\ U.ids = T.ids
      /\ \A i \in Ids(T) : /\ U.entries[i].ident = T.entries[i].ident
                           /\ U.entries[i].const = T.entries[i].const /\ U.entries[i].reg = T.entries[i].reg
  BY DEF Alike, SameSymbol
<1>4. \A i \in Ids(T) : T.entries[i].const \in BOOLEAN
  BY TableTypes DEF Whole
<1>5. Within(U)
  BY <1>1, <1>3, <1>4 DEF Whole, Within
<1>6. Distinct(U)
  BY <1>1, <1>3 DEF Whole, Distinct
<1>7. Used(U)
  BY <1>1, <1>3 DEF Whole, Used
<1>8. Named(U)
  BY <1>1, <1>3 DEF Whole, Named, HasSymbol
<1> QED
  BY <1>2, <1>5, <1>6, <1>7, <1>8 DEF Whole

LEMMA RetypedAlike ==
  ASSUME NEW T \in Tables, NEW i \in Ids(T), NEW e \in Entries, SameSymbol(e, T.entries[i])
  PROVE  Alike(T, [T EXCEPT !.entries[i] = e])
<1>1. PICK s : s = [T.entries EXCEPT ![i] = e]
  OBVIOUS
<1>2. T.entries \in Seq(Entries)
  BY TableTypes
<1>3. /\ s \in Seq(Entries) /\ Len(s) = Len(T.entries)
      /\ \A j \in Ids(T) : s[j] = IF j = i THEN e ELSE T.entries[j]
  BY <1>1, <1>2, ExceptSeq DEF Ids
<1>4. PICK U : U = [T EXCEPT !.entries = s]
  OBVIOUS
<1>5. U = [T EXCEPT !.entries[i] = e]
  BY <1>1, <1>4
<1>6. U \in Tables /\ U.entries = s
  BY <1>3, <1>4 DEF Tables
<1>7. U.ids = T.ids /\ U.scope = T.scope /\ U.nextConst = T.nextConst /\ U.nextVar = T.nextVar
  BY <1>4 DEF Tables
<1>8. \A j \in Ids(T) : SameSymbol(s[j], T.entries[j])
  BY <1>3 DEF SameSymbol
<1> QED
  BY <1>3, <1>5, <1>6, <1>7, <1>8 DEF Alike

LEMMA ForcedAlike == ASSUME NEW T \in Tables, NEW force \in BOOLEAN PROVE Alike(T, ForceConstant(T, force))
<1>1. PICK U : U = ForceConstant(T, force)
  OBVIOUS
<1>2. U \in Tables
  BY <1>1 DEF ForceConstant, Tables
<1>3. /\ U.entries = T.entries /\ U.ids = T.ids /\ U.scope = T.scope
      /\ U.nextConst = T.nextConst /\ U.nextVar = T.nextVar
  BY <1>1 DEF ForceConstant, Tables
<1>4. Alike(T, U)
  BY <1>2, <1>3 DEF Alike, SameSymbol
<1> QED
  BY <1>1, <1>4

(* T is what has become of the table M since its PrepRollback. *)
Grown(M, T) ==
  /\ Whole(M) /\ Whole(T) /\ T.scope = M.scope
  /\ T.rollbackConst = M.nextConst /\ T.rollbackVar = M.nextVar
  /\ Len(M.entries) <= Len(T.entries)
  /\ \A i \in Ids(M) : SameSymbol(T.entries[i], M.entries[i])

(* A table starts to grow with PrepRollback, and all that is done to it is *)
(* growth: whatever the prompt does with a line, the next theorem applies. *)
THEOREM Grows ==
  /\ \A M : Whole(M) => Grown(M, PrepRollback(M))
  /\ Defaults => \A M, T : Grown(M, T) => \A ident \in Idents, constant \in BOOLEAN :
                                            Grown(M, Declare(T, ident, constant))
  /\ \A M, T, U : /\ Grown(M, T) /\ Alike(T, U)
                  /\ U.rollbackConst = T.rollbackConst /\ U.rollbackVar = T.rollbackVar
                  => Grown(M, U)
<1>1. ASSUME NEW M, Whole(M) PROVE Grown(M, PrepRollback(M))
  <2>1. PICK U : U = PrepRollback(M)
    OBVIOUS
  <2>2. M \in Tables /\ M.nextConst \in Nat /\ M.nextVar \in Nat /\ Len(M.entries) \in Nat
    BY <1>1, TableTypes DEF Whole
  <2>3. U \in Tables
    BY <2>1, <2>2 DEF PrepRollback, Tables
  <2>4. /\ U.entries = M.entries /\ U.ids = M.ids /\ U.scope = M.scope
        /\ U.nextConst = M.nextConst /\ U.nextVar = M.nextVar
        /\ U.rollbackConst = M.nextConst /\ U.rollbackVar = M.nextVar
    BY <2>1, <2>2 DEF PrepRollback, Tables
  <2>5. Alike(M, U)
    BY <2>3, <2>4 DEF Alike, SameSymbol
  <2>6. Whole(U)
    BY <1>1, <2>5, AlikeWhole
  <2>7. Grown(M, U)
    BY <1>1, <2>2, <2>4, <2>6 DEF Grown, SameSymbol
  <2> QED
    BY <2>1, <2>7
<1>2. ASSUME Defaults, NEW M, NEW T, Grown(M, T), NEW ident \in Idents, NEW constant \in BOOLEAN
      PROVE  Grown(M, Declare(T, ident, constant))
  <2>1. PICK D : D = Declare(T, ident, constant)
    OBVIOUS
  <2>2. Whole(T) /\ Len(T.entries) \in Nat /\ Len(M.entries) \in Nat
    BY <1>2, TableTypes DEF Grown, Whole
  <2>3. Whole(D)
    BY <1>2, <2>1, <2>2, DeclareWhole
  <2>4. CASE Find(T, ident) # NotFound
    BY <1>2, <2>1, <2>4 DEF Declare
  <2>5. CASE Find(T, ident) = NotFound
    <3>1. PICK const \in BOOLEAN : Adds(T, D, const, T.scope \o ident)
      BY <1>2, <2>1, <2>2, <2>5, Declared
    <3>2. /\ Len(D.entries) = Len(T.entries) + 1 /\ \A i \in Ids(T) : D.entries[i] = T.entries[i]
          /\ D.scope = T.scope /\ D.rollbackConst = T.rollbackConst /\ D.rollbackVar = T.rollbackVar
      BY <3>1 DEF Adds
    <3>3. Ids(M) \subseteq Ids(T) /\ Len(M.entries) <= Len(D.entries)
      BY <1>2, <2>2, <3>2 DEF Grown, Ids
    <3>4. Grown(M, D)
      BY <1>2, <2>3, <3>2, <3>3 DEF Grown
    <3> QED
      BY <2>1, <3>4
  <2> QED
    BY <2>4, <2>5
<1>3. ASSUME NEW M, NEW T, NEW U, Grown(M, T), Alike(T, U),
             U.rollbackConst = T.rollbackConst, U.rollbackVar = T.rollbackVar
      PROVE  Grown(M, U)
  <2>1. Whole(U)
    BY <1>3, AlikeWhole DEF Grown
  <2>2. Len(T.entries) \in Nat /\ Len(M.entries) \in Nat
    BY <1>3, TableTypes DEF Grown, Whole
  <2>3. Ids(M) \subseteq Ids(T)
    BY <1>3, <2>2 DEF Grown, Ids
  <2>4. \A i \in Ids(M) : SameSymbol(U.entries[i], M.entries[i])
    BY <1>3, <2>3 DEF Grown, Alike, SameSymbol
  <2> QED
    BY <1>3, <2>1, <2>4 DEF Grown, Alike
<1> QED
  BY <1>1, <1>2, <1>3

(* After a line with an error the prompt's table is what it was before the *)
(* line: the same names for the same symbols in the same cells.  Rollback  *)
(* goes by the number of registers handed out since, and looks at no entry.*)
(* Only a type that the line has given to an older symbol stays.           *)
(* If the table had no entry the code keeps every name (size() - 1 - count *)
(* wraps around), so that case is left out.                                *)
THEOREM RollbackRestores ==
  ASSUME NEW M, NEW T, Grown(M, T), M.entries # << >>
  PROVE  LET R == Rollback(T)
         IN /\ Whole(R) /\ Alike(M, R)
            /\ \A ident \in Idents : Find(R, ident) = Find(M, ident)
            /\ \A i \in Ids(M) : GetRegisterIndex(R, i) = GetRegisterIndex(M, i)
<1>1. PICK n : n = Len(M.entries)
  OBVIOUS
<1>2. /\ M \in Tables /\ T \in Tables /\ n \in Nat /\ M.entries \in Seq(Entries) /\ T.entries \in Seq(Entries)
      /\ M.nextConst \in Nat /\ M.nextVar \in Nat /\ T.nextConst \in Nat /\ T.nextVar \in Nat
      /\ Len(T.entries) \in Nat /\ n <= Len(T.entries)
      /\ n = M.nextConst + M.nextVar /\ Len(T.entries) = T.nextConst + T.nextVar
      /\ T.rollbackConst = M.nextConst /\ T.rollbackVar = M.nextVar /\ T.scope = M.scope
  BY <1>1, TableTypes DEF Grown, Whole
<1>3. n # 0
  BY <1>1, <1>2, EmptySeq
<1>4. Len(T.entries) - ((T.nextConst - T.rollbackConst) + (T.nextVar - T.rollbackVar)) = n
  BY <1>2
<1>5. PICK s : s = SubSeq(T.entries, 1, n)
  OBVIOUS
<1>6. PICK K : K = {j \in DOMAIN T.ids : T.ids[j] <= n}
  OBVIOUS
<1>7. PICK f : f = [k \in K |-> T.ids[k]]
  OBVIOUS
<1>8. PICK R : R = Rollback(T)
  OBVIOUS
<1>9. R = [T EXCEPT !.entries = s, !.ids = f, !.nextConst = M.nextConst, !.nextVar = M.nextVar]
  BY <1>2, <1>3, <1>4, <1>5, <1>6, <1>7, <1>8 DEF Rollback
<1>10. /\ s \in Seq(Entries) /\ Len(s) = n /\ \A i \in 1 .. n : s[i] = T.entries[i]
  <2>1. \A i \in 1 .. n : T.entries[i] \in Entries
    BY <1>2, ElementOfSeq
  <2>2. SubSeq(T.entries, 1, n) \in Seq(Entries)
    BY <1>2, <2>1, SubSeqProperties
  <2>3. Len(SubSeq(T.entries, 1, n)) = IF 1 <= n THEN n - 1 + 1 ELSE 0
    BY <1>2, <2>1, SubSeqProperties
  <2>4. \A i \in 1 .. n - 1 + 1 : SubSeq(T.entries, 1, n)[i] = T.entries[1 + i - 1]
    BY <1>2, <2>1, SubSeqProperties
  <2>5. n - 1 + 1 = n /\ 1 <= n
    BY <1>2, <1>3
  <2>6. \A i \in 1 .. n : 1 + i - 1 = i
    BY <1>2
  <2>7. \A i \in 1 .. n : s[i] = T.entries[i]
    BY <1>5, <2>4, <2>5, <2>6
  <2> QED
    BY <1>5, <2>2, <2>3, <2>5, <2>7
<1>11. Ids(M) = 1 .. n /\ Ids(T) = 1 .. Len(T.entries) /\ Ids(M) \subseteq Ids(T)
  BY <1>1, <1>2 DEF Ids
<1>12. \A i \in Ids(M) : SameSymbol(s[i], M.entries[i]) /\ T.entries[i].ident = M.entries[i].ident
  BY <1>10, <1>11 DEF Grown, SameSymbol
<1>13. f = M.ids
  <2>1. ASSUME NEW k \in DOMAIN M.ids PROVE k \in K /\ T.ids[k] = M.ids[k]
    <3>1. M.ids[k] \in Ids(M) /\ M.entries[M.ids[k]].ident = k
      BY DEF Grown, Whole, Named
    <3>2. T.entries[M.ids[k]].ident = k /\ M.ids[k] \in Ids(T)
      BY <1>11, <1>12, <3>1
    <3>3. k \in DOMAIN T.ids /\ T.ids[k] = M.ids[k]
      BY <3>2 DEF Grown, Whole, Named, HasSymbol
    <3>4. M.ids[k] <= n
      BY <1>2, <1>11, <3>1
    <3> QED
      BY <1>6, <3>3, <3>4
  <2>2. ASSUME NEW k \in K PROVE k \in DOMAIN M.ids
    <3>1. k \in DOMAIN T.ids /\ T.ids[k] <= n
      BY <1>6
    <3>2. T.ids[k] \in Ids(T) /\ T.entries[T.ids[k]].ident = k
      BY <3>1 DEF Grown, Whole, Named
    <3>3. T.ids[k] \in Ids(M)
      BY <1>2, <1>11, <3>1, <3>2
    <3>4. M.entries[T.ids[k]].ident = k
      BY <1>12, <3>2, <3>3
    <3> QED
      BY <3>3, <3>4 DEF Grown, Whole, Named, HasSymbol
  <2>3. DOMAIN f = DOMAIN M.ids /\ \A k \in DOMAIN M.ids : f[k] = M.ids[k]
    BY <1>7, <2>1, <2>2
  <2>4. f = [k \in DOMAIN f |-> f[k]]
    BY <1>7
  <2>5. M.ids = [k \in DOMAIN M.ids |-> M.ids[k]]
    <3>1. M.ids \in Indices
      BY <1>2, TableTypes
    <3>2. PICK S \in SUBSET Idents : M.ids \in [S -> Nat]
      BY <3>1 DEF Indices
    <3> QED
      BY <3>2
  <2> QED
    BY <2>3, <2>4, <2>5
<1>14. M.ids \in Indices
  BY <1>2, TableTypes
<1>15. R \in Tables
  BY <1>2, <1>9, <1>10, <1>13, <1>14 DEF Tables
<1>16. /\ R.entries = s /\ R.ids = M.ids /\ R.scope = M.scope
       /\ R.nextConst = M.nextConst /\ R.nextVar = M.nextVar
  BY <1>2, <1>9, <1>13 DEF Tables
<1>17. Alike(M, R)
  BY <1>1, <1>10, <1>12, <1>15, <1>16 DEF Alike
<1>18. Whole(R)
  BY <1>17, AlikeWhole DEF Grown
<1>19. \A ident \in Idents : Find(R, ident) = Find(M, ident)
  BY <1>16 DEF Find, HasSymbol
<1>20. \A i \in Ids(M) : GetRegisterIndex(R, i) = GetRegisterIndex(M, i)
  BY <1>12, <1>16 DEF GetRegisterIndex, SameSymbol
<1> QED
  BY <1>8, <1>17, <1>18, <1>19, <1>20
=============================================================================
