------------------------------ MODULE Program -------------------------------
(***************************************************************************)
(* A compiled program between parser and code generator: the functions     *)
(* with their specializations and what type inference notes at the nodes   *)
(* (src/src/eople_ast.cpp, eople_types.h), the library functions, and the  *)
(* search for the function that a name means.  P is the whole program:     *)
(*   fns     functions, constructors and methods, by number                *)
(*   mods    modules [functions, classes, imported] of such numbers        *)
(*   mod, fn          m_current_module, m_function (0: none)               *)
(*   guards           identifiers with is_guard                            *)
(*   callee, returns  call_specializations, return_specializations, by     *)
(*                    call and specialization of the caller                *)
(*   arrays           array_type of array literals, by label               *)
(*   check            m_check_statements                                   *)
(*   errs, thrown     m_error_count; a "Type Mismatch" was thrown          *)
(*   garbage          what match_depth holds where GetStackIndex leaves it  *)
(*                    uninitialized                                         *)
(***************************************************************************)
EXTENDS Integers, Sequences, SequencesExt, Syntax

(***************************************************************************)
(* Types are sequences: <<"int">>, <<"array", "int">>, <<"process", name>>. *)
(***************************************************************************)
Nil == <<"nil">>
AnyType == <<"any">>
BoolType == <<"bool">>
IntType == <<"int">>
FloatType == <<"float">>
StringType == <<"string">>
DictType == <<"dict">>
Promise(t) == <<"promise">> \o t
ArrayOf(t) == <<"array">> \o t
ProcessType(name) == <<"process">> \o name

GetVaryingType(t) ==
  CASE t[1] \in {"promise", "array", "kind"} -> Tail(t)
    [] t[1] = "dict" -> AnyType
    [] OTHER -> Nil

IsIncompleteType(t) == Last(t) = "nil"

Get(f, key, default) == IF key \in DOMAIN f THEN f[key] ELSE default
Put(f, key, v) == (key :> v) @@ f

(***************************************************************************)
(* Functions.  Specialization s of a function uses tables[s + 1] and so on. *)
(***************************************************************************)
FunctionOf(node, context) ==
  [name |-> node.name, ccall |-> FALSE, constructor |-> node.constructor,
   parameters |-> node.parameters, body |-> node.body, temps |-> node.temps, context |-> context,
   members |-> <<>>, tables |-> <<node.symbols>>, template |-> <<TRUE>>, returnType |-> <<Nil>>, current |-> 0,
   repl |-> FALSE, next |-> 0]

Table(P, f) == P.fns[f].tables[P.fns[f].current + 1]
SetTable(P, f, T) == [P EXCEPT !.fns[f].tables[P.fns[f].current + 1] = T]

EntryIn(P, f, key) == Find(Table(P, f), P.fns[f].name \o key)

\* GetEntryIdForName: the function that has the entry, this one or its context; 0 if none.
Owner(P, f, key) ==
  CASE EntryIn(P, f, key) # NotFound -> f
    [] EntryIn(P, f, key) = NotFound /\ P.fns[f].context # 0
         /\ EntryIn(P, P.fns[f].context, key) # NotFound -> P.fns[f].context
    [] OTHER -> 0

\* The name under which an expression has its table entry.
KeyOf(e) == IF e.k = "ident" THEN e.name ELSE e.label

GetTableEntry(P, f, key) ==
  LET o == Owner(P, f, key) IN Table(P, o).entries[EntryIn(P, o, key)]

SetEntry(P, f, key, field, v) ==
  LET o == Owner(P, f, key)
      T == Table(P, o)
      id == EntryIn(P, o, key)
  IN SetTable(P, o, [T EXCEPT !.entries[id] = IF field = "type" THEN [@ EXCEPT !.type = v]
                                              ELSE [@ EXCEPT !.target = v]])

BumpTypeError(P) == [P EXCEPT !.errs = @ + 1]
Throw(P) == [P EXCEPT !.thrown = TRUE]

GetValueType(P, f) == P.fns[f].returnType[P.fns[f].current + 1]

TrySetValueType(P, f, type) ==
  IF GetValueType(P, f) \notin {Nil, type} THEN Throw(P)
  ELSE [P EXCEPT !.fns[f].returnType[P.fns[f].current + 1] = type]

GetReturnType(P, call, parent) == Get(P.returns, <<call.id, parent>>, Nil)
TrySetReturnType(P, call, parent, type) ==
  LET Q == [P EXCEPT !.returns = Put(@, <<call.id, parent>>, type)]
  IN IF GetReturnType(P, call, parent) \notin {Nil, type} THEN Throw(Q) ELSE Q

GetSpecialization(P, call, parent) == Get(P.callee, <<call.id, parent>>, 0)
SetSpecialization(P, call, parent, s) == [P EXCEPT !.callee = Put(@, <<call.id, parent>>, s)]

LiteralType(P, e) ==
  CASE e.k = "lit" -> e.type
    [] e.k = "array" -> Get(P.arrays, e.label, ArrayOf(Nil))
    [] OTHER -> Nil

GetExpressionType(P, f, e) ==
  CASE e.k = "ident" -> IF e.id \in P.guards THEN BoolType ELSE GetTableEntry(P, f, e.name).type
    [] e.k = "call"  -> GetReturnType(P, e, P.fns[f].current)
    [] OTHER -> LiteralType(P, e)

\* Only a name and a literal have a table entry.
GetExpressionVaryingType(P, f, e) == GetVaryingType(GetTableEntry(P, f, KeyOf(e)).type)

\* Other nodes have no type of their own to compare with.
SetExpressionValueType(P, f, e, type) ==
  IF e.k = "ident" THEN SetEntry(P, f, e.name, "type", type)
  ELSE IF e.k \in {"lit", "array"} /\ LiteralType(P, e) # type THEN Throw(P) ELSE P

TrySetExpressionType(P, f, e, type) ==
  IF e.k = "ident" /\ GetTableEntry(P, f, e.name).type \notin {Nil, type} THEN Throw(P)
  ELSE SetExpressionValueType(P, f, e, type)

\* Calls with the same name and specializations share a constant of the caller.
MangledName(P, e, parent) ==
  LET call == IF e.k = "msg" THEN e.call ELSE e
  IN (IF e.k = "msg" THEN e.process.name ELSE <<>>) \o call.name
       \o <<ToString(parent), ToString(GetSpecialization(P, call, parent))>>

RegisterCall(P, f, e) ==
  SetTable(P, f, Declare(Table(P, f), MangledName(P, e, P.fns[f].current), TRUE))

\* GetStackIndex: members of the class lie below the symbols of a method.  For
\* a subscript the depth at which the name was found is counted from an
\* uninitialized variable: unless that is 0, no slot but the first is found.
GetStackIndex(P, f, e) ==
  LET key == CASE e.k \in {"call", "msg"} -> MangledName(P, e, P.fns[f].current)
               [] e.k = "sub" -> e.ident.name
               [] OTHER -> KeyOf(e)
      o   == Owner(P, f, key)
      below == IF o = f /\ P.fns[f].context # 0 THEN symbol_count(Table(P, P.fns[f].context)) ELSE 0
  IN IF e.k = "sub" /\ P.garbage # 0 THEN 0 ELSE GetRegisterIndex(Table(P, o), EntryIn(P, o, key)) + below

(***************************************************************************)
(* Specializations.                                                        *)
(***************************************************************************)
ParameterType(P, f, s, i) ==
  LET Q == [P EXCEPT !.fns[f].current = s] IN GetTableEntry(Q, f, P.fns[f].parameters[i]).type

Accepts(parameter, arg) ==
  \/ parameter \in {AnyType, arg}
  \/ GetVaryingType(parameter) = AnyType /\ arg[1] = parameter[1]

RECURSIVE SetParameterTypes(_, _, _, _)
SetParameterTypes(P, f, types, i) ==
  IF i > Len(types) THEN P
  ELSE SetParameterTypes(SetEntry(P, f, P.fns[f].parameters[i], "type", types[i]), f, types, i + 1)

\* The first specialization that accepts the arguments; a new one starts with
\* the table of the template.
FindSpecializationForArgs(P, f, types) ==
  LET fits == {s \in 0 .. Len(P.fns[f].tables) - 1 :
                 \A i \in DOMAIN types : Accepts(ParameterType(P, f, s, i), types[i])}
      new  == Len(P.fns[f].tables)
      Q    == [P EXCEPT !.fns[f].tables = Append(@, @[1]), !.fns[f].template = Append(@, TRUE),
                        !.fns[f].returnType = Append(@, Nil), !.fns[f].current = new]
  IN IF fits # {} THEN [s |-> CHOOSE s \in fits : \A r \in fits : s <= r, P |-> P]
     ELSE [s |-> new, P |-> [SetParameterTypes(Q, f, types, 1) EXCEPT !.fns[f].current = P.fns[f].current]]

\* A parameter that is a process takes the class of the argument.
RECURSIVE SetParameterClassNames(_, _, _, _, _, _)
SetParameterClassNames(P, f, s, args, types, i) ==
  IF i > Len(args) THEN P
  ELSE LET Q == SetEntry([P EXCEPT !.fns[f].current = s], f, P.fns[f].parameters[i], "target",
                         GetTableEntry(P, P.fn, args[i].name).target)
       IN SetParameterClassNames(
            IF types[i][1] = "process" /\ args[i].k = "ident" THEN [Q EXCEPT !.fns[f].current = P.fns[f].current]
            ELSE P, f, s, args, types, i + 1)

(***************************************************************************)
(* Modules.                                                                *)
(***************************************************************************)
EmptyProgram ==
  [fns |-> <<>>, mods |-> <<>>, mod |-> 0, fn |-> 0, guards |-> {}, callee |-> <<>>, returns |-> <<>>,
   arrays |-> <<>>, check |-> <<>>, errs |-> 0, thrown |-> FALSE, garbage |-> 0]

AddModule(P, imported) ==
  [P EXCEPT !.mods = Append(@, [functions |-> <<>>, classes |-> <<>>, imported |-> imported]),
            !.mod = Len(P.mods) + 1]

\* A function, or a class with its methods, enters the current module.
LoadFunction(P, node) ==
  LET f == Len(P.fns) + 1
      methods == [i \in DOMAIN node.functions |-> FunctionOf(node.functions[i], f)]
      fn == [FunctionOf(node, 0) EXCEPT !.members = [i \in DOMAIN methods |-> f + i]]
  IN [P EXCEPT !.fns = Append(@, fn) \o methods,
               !.mods[P.mod].functions = IF node.constructor THEN @ ELSE Append(@, f),
               !.mods[P.mod].classes = IF node.constructor THEN Append(@, f) ELSE @]

Load(P, functions) == FoldLeft(LoadFunction, P, functions)

\* CModuleBuilder: parameters_types of every specialization, the first with its result.
AddFunction(P, builtin) ==
  LET f == Len(P.fns) + 1
      Parameter(i) == <<"parameter_", ToString(i)>>
      node == [name |-> builtin.name, constructor |-> FALSE, functions |-> <<>>, body |-> <<>>, temps |-> 0,
               parameters |-> [i \in DOMAIN builtin.types[1] |-> Parameter(i)],
               symbols |-> FoldLeft(LAMBDA T, i : Declare(T, builtin.name \o Parameter(i), FALSE),
                                    EmptyTable, [i \in DOMAIN builtin.types[1] |-> i])]
      Q == LoadFunction(P, node)
      R == SetParameterTypes([Q EXCEPT !.fns[f].ccall = TRUE, !.fns[f].returnType = <<builtin.returns>>],
                             f, builtin.types[1], 1)
  IN FoldLeft(LAMBDA S, types : FindSpecializationForArgs(S, f, types).P, R, Tail(builtin.types))

\* The library: the types of the parameters of every specialization with the
\* instruction that implements it, in the order in which they are registered.
Builtins ==
  LET B(name, returns, impls) == [name |-> <<name>>, returns |-> returns, impls |-> impls,
                                  types |-> [i \in DOMAIN impls |-> Tail(impls[i])]]
      Array == ArrayOf(AnyType)
  IN << B("print", Nil, << <<"PrintF", FloatType>>, <<"PrintI", IntType>>, <<"PrintS", StringType>>,
               <<"PrintSArr", ArrayOf(StringType)>>, <<"PrintIArr", ArrayOf(IntType)>>, <<"PrintFArr", ArrayOf(FloatType)>>,
               <<"PrintSPromise", Promise(StringType)>>, <<"PrintDict", DictType>>, <<"PrintObject", AnyType>> >>),
        B("get_line", StringType, << <<"GetLine">> >>),
        B("array", Array, << <<"ArrayConstructor", <<"kind", "any">> >> >>),
        B("top", StringType, << <<"ArrayTopString", ArrayOf(StringType)>>, <<"ArrayTopArray", ArrayOf(Array)>>,
               <<"ArrayTop", Array>> >>),
        B("push", Nil, << <<"ArrayPushString", ArrayOf(StringType), StringType>>,
               <<"ArrayPushArray", ArrayOf(Array), Array>>, <<"ArrayPush", Array, AnyType>> >>),
        B("clear", Nil, << <<"ArrayClear", Array>> >>),
        B("pop", Nil, << <<"ArrayPop", Array>> >>),
        B("size", IntType, << <<"ArraySize", Array>> >>),
        B("get_time", FloatType, << <<"GetTime">> >>),
        B("sleep", Nil, << <<"SleepMilliseconds", IntType>> >>),
        B("after", Promise(AnyType), << <<"Timer", IntType>> >>),
        B("is_ready", BoolType, << <<"Ready", Promise(AnyType)>> >>),
        B("get_value", Nil, << <<"GetValue", Promise(AnyType)>> >>),
        B("to_float", FloatType, << <<"IntToFloat", IntType>> >>),
        B("to_int", IntType, << <<"FloatToInt", FloatType>> >>),
        B("to_string", StringType, << <<"IntToString", IntType>>, <<"FloatToString", FloatType>>,
               <<"PromiseToString", Promise(AnyType)>> >>),
        B("get_url", DictType, << <<"GetURL", DictType>> >>),
        B("get_url_creds", StringType, << <<"GetURL_USERPWD", StringType, StringType>> >>) >>

\* ImportCFunctions: the implementations of all specializations in one list.
CFunctions == FlattenSeq([i \in DOMAIN Builtins |->
                            [s \in DOMAIN Builtins[i].impls |-> Builtins[i].impls[s][1]]])

ImportBuiltins == FoldLeft(AddFunction, AddModule(EmptyProgram, <<>>), Builtins)

(***************************************************************************)
(* The function that a name means.  `spaces` are the namespaces around the *)
(* call, the closest last: the closest wins, no namespace comes last, and  *)
(* of several in one the last loaded, in the closest and without the first. *)
(***************************************************************************)
Depth(name, spaces, target) ==
  LET at == {i \in DOMAIN spaces : target = spaces[i] \o name}
  IN IF at # {} THEN CHOOSE i \in at : \A j \in at : i >= j ELSE IF target = name THEN 0 ELSE -1

BestMatch(P, candidates, name, spaces, firstIfClosest) ==
  LET depth == [i \in DOMAIN candidates |-> Depth(name, spaces, P.fns[candidates[i]].name)]
      best  == {i \in DOMAIN depth : depth[i] >= 0 /\ \A j \in DOMAIN depth : depth[i] >= depth[j]}
      first == CHOOSE i \in best : \A j \in best : i <= j
      last  == CHOOSE i \in best : \A j \in best : i >= j
  IN CASE best = {} -> 0
       [] best # {} /\ (depth[first] = 0 \/ (depth[first] = Len(spaces) /\ firstIfClosest)) -> candidates[first]
       [] OTHER -> candidates[last]

\* The modules in the order in which a search goes through them.
RECURSIVE SearchOrder(_, _)
SearchOrder(P, queue) ==
  IF queue = <<>> THEN <<>>
  ELSE <<Head(queue)>> \o SearchOrder(P, Tail(queue) \o P.mods[Head(queue)].imported)

FirstFound(found) == IF \E i \in DOMAIN found : found[i] # 0
                     THEN found[CHOOSE i \in DOMAIN found : found[i] # 0 /\ \A j \in 1 .. i - 1 : found[j] = 0]
                     ELSE 0

\* A function of the module, or else a class.
FunctionFromCall(P, call) ==
  LET order == SearchOrder(P, <<P.mod>>)
      In(m) == LET f == BestMatch(P, P.mods[m].functions, call.name, call.spaces, TRUE)
               IN IF f # 0 THEN f ELSE BestMatch(P, P.mods[m].classes, call.name, call.spaces, TRUE)
  IN FirstFound([i \in DOMAIN order |-> In(order[i])])

\* The code generator looks once more: past library functions ...
GetFunction(P, call) ==
  LET order == SearchOrder(P, <<P.mod>>)
      Own(s) == SelectSeq(s, LAMBDA f : ~P.fns[f].ccall)
      In(m) == LET f == BestMatch(P, Own(P.mods[m].functions), call.name, call.spaces, TRUE)
               IN IF f # 0 THEN f ELSE BestMatch(P, Own(P.mods[m].classes), call.name, call.spaces, TRUE)
  IN FirstFound([i \in DOMAIN order |-> In(order[i])])

\* ... and for those by name only, at the place counted from the specializations
\* that the functions before it have now.
GetCFunction(P, name, s) ==
  LET order == SearchOrder(P, <<P.mod>>)
      C(m) == SelectSeq(P.mods[m].functions, LAMBDA f : P.fns[f].ccall)
      In(m) == LET at == {i \in DOMAIN C(m) : P.fns[C(m)[i]].name = name}
                   first == CHOOSE i \in at : \A j \in at : i <= j
               IN IF at = {} THEN 0
                  ELSE FoldLeft(LAMBDA n, f : n + Len(P.fns[f].tables), s + 1, SubSeq(C(m), 1, first - 1))
      place == FirstFound([i \in DOMAIN order |-> In(order[i])])
  IN IF place \in DOMAIN CFunctions THEN CFunctions[place] ELSE "none"

FindMember(P, class, name) ==
  LET s == SelectSeq(P.fns[class].members, LAMBDA f : P.fns[f].name = name)
  IN IF s = <<>> THEN 0 ELSE Head(s)

FunctionFromProcessMessage(P, process, call) ==
  LET order == SearchOrder(P, <<P.mod>>)
      In(m) == LET c == BestMatch(P, P.mods[m].classes, process, call.spaces, FALSE)
               IN IF c = 0 THEN 0 ELSE FindMember(P, c, process \o call.name)
  IN FirstFound([i \in DOMAIN order |-> In(order[i])])

\* The code generator takes the first method of that name of any class.
GetMemberFunction(P, process, name) ==
  LET order == SearchOrder(P, <<P.mod>>)
      In(m) == FirstFound([i \in DOMAIN P.mods[m].classes |-> FindMember(P, P.mods[m].classes[i], process \o name)])
  IN FirstFound([i \in DOMAIN order |-> In(order[i])])
=============================================================================
