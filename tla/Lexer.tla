-------------------------------- MODULE Lexer --------------------------------
(***************************************************************************)
(* The lexer (src/src/eople_lex.cpp), from characters to the tokens that   *)
(* module Parser reads.  A text is a sequence of characters where a run of *)
(* letters is one; so is, between quotes, any run without a quote or a     *)
(* backslash.  Newlines are counted by the parser, which sees their tokens. *)
(***************************************************************************)
EXTENDS Integers, Sequences, SequencesExt

Keywords == {"namespace", "import", "from", "struct", "def", "class", "end", "if", "else", "elif", "for", "in", "to",
             "by", "while", "when", "whenever", "return", "break", "private", "const", "true", "false", "and", "or", "not"}

Digits   == <<"0", "1", "2", "3", "4", "5", "6", "7", "8", "9">>
Blanks   == {" ", "\t"}
NewLines == {"\n", "\r"}
Quotes   == {"'", "\""}
Marks    == {"_", "(", ")", "[", "]", "{", "}", ",", ";", ":", ".", "=", "!", "<", ">", "+", "-", "*", "/", "%", "&", "|",
             "^", "#", "\\", ""}

IsDigit(c) == c \in Range(Digits)
IsAlpha(c) == c \notin Range(Digits) \union Blanks \union NewLines \union Quotes \union Marks

\* Peek, and the end of the text as a character of its own.
CharAt(text, i) == IF i <= Len(text) THEN text[i] ELSE ""

\* Where the run of characters that satisfy Test ends that i is in.
End(text, i, Test(_)) == CHOOSE j \in i .. Len(text) + 1 : /\ \A k \in i .. j - 1 : Test(text[k])
                                                           /\ j > Len(text) \/ ~Test(text[j])

Token(k, v, next) == [token |-> [k |-> k, v |-> v], next |-> next]

\* A name, part by part: letters, digits and underscores, and "::" between parts.
RECURSIVE Word(_, _, _)
Word(text, i, parts) ==
  LET c == CharAt(text, i)
  IN IF IsAlpha(c) \/ IsDigit(c) \/ c = "_" THEN Word(text, i + 1, [parts EXCEPT ![Len(parts)] = @ \o c])
     ELSE IF c = ":" /\ CharAt(text, i + 1) = ":" THEN Word(text, i + 2, Append(parts, ""))
     ELSE IF Len(parts) = 1 /\ parts[1] \in Keywords THEN Token(parts[1], 0, i) ELSE Token("ident", parts, i)

Numeral(digits) == FoldLeft(LAMBDA n, c : 10 * n + (CHOOSE d \in 0 .. 9 : Digits[d + 1] = c), 0, digits)

\* Floats count units of 10^-7.
ReadNumber(text, i) ==
  LET point == End(text, i, IsDigit)
      end   == End(text, point + 1, IsDigit)
      whole == Numeral(SubSeq(text, i, point - 1))
      fraction == Numeral(SubSeq(text, point + 1, end - 1)) * 10^(7 - (end - 1 - point))
  IN IF CharAt(text, point) = "." THEN Token("float", whole * 10^7 + fraction, end) ELSE Token("int", whole, point)

\* One escape sequence after the other, each wherever it occurs, in the text that
\* the one before has left; a replacement may begin the next occurrence.
Escapes == << <<"n", "\n">>, <<"t", "\t">>, <<"r", "\r">>, <<"b", "backspace">>, <<"f", "\f">>, <<"\\", "\\">>, <<"'", "'">>, <<"\"", "\"">> >>
RECURSIVE Replace(_, _, _)
Replace(s, i, escape) ==
  IF i >= Len(s) THEN s
  ELSE IF s[i] = "\\" /\ s[i + 1] = escape[1]
  THEN Replace(SubSeq(s, 1, i - 1) \o <<escape[2]>> \o SubSeq(s, i + 2, Len(s)), i, escape)
  ELSE Replace(s, i + 1, escape)
convert_raw_string(s) == FoldLeft(LAMBDA r, escape : Replace(r, 1, escape), s, Escapes)

\* To the next quote of the same kind that no backslash precedes, or to the end.
ReadString(text, i) ==
  LET end == CHOOSE j \in i + 1 .. Len(text) + 1 :
               /\ \A k \in i + 1 .. j - 1 : text[k] # text[i] \/ text[k - 1] = "\\"
               /\ j > Len(text) \/ (text[j] = text[i] /\ text[j - 1] # "\\")
  IN Token("string", FoldLeft(LAMBDA s, c : s \o c, "", convert_raw_string(SubSeq(text, i + 1, end - 1))), end + 1)

OneWay == {"==", "!=", "<=", ">=", ">>", "<<"}  \* mutant: no arrow
TwoCharacters == {"==", "!=", "<=", ">=", "+=", "-=", "*=", "/=", "%=", ">>", "<<", "->"}

\* A point before a letter calls a method or names a key; any other is of no use.
RECURSIVE NextToken(_, _)
NextToken(text, i) ==
  LET c == CharAt(text, i)
      next == CharAt(text, i + 1)
      IsBlank(b) == b \in Blanks
      IsComment(b) == b \notin NewLines
  IN CASE c = "" -> Token("eof", 0, i)
       [] c \in Blanks   -> NextToken(text, End(text, i, IsBlank))
       [] c = "#"        -> NextToken(text, End(text, i, IsComment))
       [] c \in NewLines -> Token("nl", 0, i + 1)
       [] c \in Quotes   -> ReadString(text, i)
       [] IsAlpha(c)     -> Word(text, i, <<"">>)
       [] IsDigit(c) \/ (c = "." /\ IsDigit(next)) -> ReadNumber(text, i)
       [] c \o next \in TwoCharacters -> Token(c \o next, 0, i + 2)
       [] c = "." /\ IsAlpha(next)    -> Token(".", 0, i + 1)
       [] c = "." /\ ~IsAlpha(next) /\ ~IsDigit(next) -> Token("point", 0, i + 1)
       [] OTHER -> Token(c, 0, i + 1)

\* Every token that the parser will ask for.
RECURSIVE TokensFrom(_, _, _)
TokensFrom(text, i, tokens) ==
  LET t == NextToken(text, i)
  IN IF t.token.k = "eof" THEN Append(tokens, t.token) ELSE TokensFrom(text, t.next, Append(tokens, t.token))
Lexed(text) == TokensFrom(text, 1, <<>>)
=============================================================================
