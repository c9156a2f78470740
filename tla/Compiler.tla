------------------------------ MODULE Compiler -------------------------------
(***************************************************************************)
(* From the text of a program to code: ImportModuleFromFile and the first  *)
(* half of ExecuteFunction (src/src/eople_exec_env.cpp), which run lexer,  *)
(* parser, type inference and the code generator one after the other.      *)
(* A program is a record [text, files, prints]: its characters, the files  *)
(* that it may import by name, and what its processes may print, which is  *)
(* nothing at all for a program that is to be rejected.                    *)
(***************************************************************************)
EXTENDS Lexer, Parser, TypeInfer, CodeGen

\* All of a file but its last character.
loadFile(file) == Lexed(Front(file))

\* The file itself, then the modules it imports, and those that these import, each into the same
\* module, until one is not found.
RECURSIVE ImportAll(_, _, _)
ImportAll(source, p, i) ==
  IF i > Len(p.imports) THEN p
  ELSE LET m == p.imports[i]
       IN IF m.name \notin DOMAIN source.files THEN p
          ELSE ImportAll(source, ParseModule(p, loadFile(source.files[m.name]), m.name, m.symbols), i + 1)

ImportModuleFromFile(source) == ImportAll(source, ParseModule(NewParser, loadFile(source.text), <<>>, {}), 1)

\* Types are inferred from main() on, also when the parser has found errors elsewhere.  `garbage` is
\* what memory that the compiler does not initialize reads as.
Infer(p, garbage) ==
  LET P == [Load(AddModule(ImportBuiltins, <<1>>), p.functions \o p.classes) EXCEPT !.garbage = garbage]
  IN IF \E i \in DOMAIN p.functions : p.functions[i].name = <<"main">> THEN InferTypes(P, <<"main">>)
     ELSE [errs |-> 1, thrown |-> FALSE]

\* What is executed, if anything is.
Generate(P) ==
  LET G == GenModule(P)
  IN IF P.errs > 0 \/ P.thrown \/ G.errs > 0 THEN [accepted |-> FALSE, fns |-> <<>>, heap |-> <<>>, main |-> 0]
     ELSE [accepted |-> TRUE, fns |-> G.fns, heap |-> G.heap,
           main |-> CHOOSE i \in DOMAIN G.fns : G.fns[i].name = <<"main">>]
=============================================================================
