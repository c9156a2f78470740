------------------------------- MODULE Syntax -------------------------------
(***************************************************************************)
(* Nodes of the syntax tree (src/inc/eople_ast.h).  k is the kind of node,  *)
(* Null stands for nullptr.  An identifier and a call carry where they     *)
(* stand in the text, which tells one node from another; a literal carries *)
(* the label of its entry in the symbol table.                             *)
(***************************************************************************)
EXTENDS Naturals, Sequences, SymbolTable

Null == [k |-> "null"]

Identifier(name, id)   == [k |-> "ident", name |-> name, id |-> id]
Literal(type, v, label) == [k |-> "lit", type |-> type, v |-> v, label |-> label]
ArrayLiteral(elements, label) == [k |-> "array", elements |-> elements, label |-> label]
DictLiteral(keys, values, label) == [k |-> "dict", keys |-> keys, values |-> values, label |-> label]
ArraySubscript(ident, index) == [k |-> "sub", ident |-> ident, index |-> index]
BinaryOp(op, l, r)     == [k |-> "bin", op |-> op, l |-> l, r |-> r]
CallNode(name, args, spaces, id) == [k |-> "call", name |-> name, args |-> args, spaces |-> spaces, id |-> id]
Message(process, call) == [k |-> "msg", process |-> process, call |-> call]
Assignment(l, r)       == [k |-> "assign", l |-> l, r |-> r]
If(c, body, elseifs, else) == [k |-> "if", c |-> c, body |-> body, elseifs |-> elseifs, else |-> else]
For(counter, start, end, step, body) ==
  [k |-> "for", counter |-> counter, start |-> start, end |-> end, step |-> step, body |-> body]
While(c, body)         == [k |-> "while", c |-> c, body |-> body]
Block(k, label, c, body) == [k |-> k, label |-> label, c |-> c, body |-> body]
Return(v)              == [k |-> "return", v |-> v]
FunctionNode(name, constructor) ==
  [k |-> "function", name |-> name, constructor |-> constructor, parameters |-> <<>>,
   body |-> <<>>, functions |-> <<>>, temps |-> 0,
   symbols |-> [EmptyTable EXCEPT !.scope = name]]
=============================================================================
