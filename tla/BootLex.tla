------------------------------ MODULE BootLex ------------------------------
(***************************************************************************)
(* The scanner of stage0 (lex.c).  A file is a string; a token is          *)
(* [k, t, v, s, f, at, end]: its kind (id, kw, num, str, punct, eof), its  *)
(* text, the value of a number, the contents of a string, its file, and    *)
(* the positions of its first character and of the one after its last.     *)
(***************************************************************************)
EXTENDS BootTypes

Digits   == <<"0", "1", "2", "3", "4", "5", "6", "7", "8", "9">>
HexLow   == Digits \o <<"a", "b", "c", "d", "e", "f">>
HexHigh  == Digits \o <<"A", "B", "C", "D", "E", "F">>
Alphabet == HexLow \o <<"g", "h", "i", "j", "k", "l", "m", "n", "o", "p", "q", "r", "s",
              "t", "u", "v", "w", "x", "y", "z", "A", "B", "C", "D", "E", "F", "G", "H",
              "I", "J", "K", "L", "M", "N", "O", "P", "Q", "R", "S", "T", "U", "V", "W",
              "X", "Y", "Z", "_">>
Spaces   == {" ", "\t", "\r", "\n"}
Keywords == {"fn", "let", "var", "if", "else", "while", "for", "in", "break", "continue",
             "return", "as", "struct", "enum", "match", "defer", "import", "comptime",
             "sizeof", "true", "false", "null"}
Puncts   == <<"<<=", ">>=", "=>", "==", "!=", "<=", ">=", "&&", "||", "+=", "-=", "*=",
              "/=", "%=", "&=", "|=", "^=", "<<", ">>", "..">>
Singles  == {"+", "-", "*", "/", "%", "(", ")", "[", "]", "{", "}", ";", ",", "=", "<",
             ">", "!", "&", "|", "^", "~", ".", ":", "$"}
Escapes  == {"n", "t", "r", "0", "\\", "\"", "'"}

\* The byte a character is stored as: which one matters, its code does not.
CharByte(ch) == Unsigned(FirstIn({i \in DOMAIN Alphabet : Alphabet[i] = ch}) - 1, ByteBits)

\* The character at a position, and the string that starts there.
At(src, i) == IF i > Len(src) THEN "" ELSE SubSeq(src, i, i)
StartsWith(src, i, p) == i + Len(p) <= Len(src) + 1 /\ SubSeq(src, i, i + Len(p) - 1) = p
BytesOf(s) == [i \in 1..Len(s) |-> CharByte(At(s, i))]

RECURSIVE SkipWhile(_, _, _)
SkipWhile(src, i, set) == IF At(src, i) \in set THEN SkipWhile(src, i + 1, set) ELSE i
RECURSIVE SkipTo(_, _, _)
SkipTo(src, i, p) ==
  IF i > Len(src) \/ StartsWith(src, i, p) THEN i ELSE SkipTo(src, i + 1, p)

\* A scanner's state: the text, the position, the tokens so far, the error.
LexFail(l, why) == [l EXCEPT !.err = why]
Push(l, k, end) ==
  [l EXCEPT !.i = end,
            !.out = Append(@, [k |-> k, t |-> SubSeq(l.src, l.i, end - 1), v |-> 0,
                               s |-> "", f |-> l.file, at |-> l.i, end |-> end])]
PushNum(l, end, v) ==
  LET p == Push(l, "num", end) IN [p EXCEPT !.out[Len(p.out)].v = v]

\* The value of the digits in lo..hi-1, wrapped to a word as they are read.
NumberIn(src, lo, hi, base) ==
  LET digit(ch) == LET low == FirstIn({i \in DOMAIN HexLow : HexLow[i] = ch})
                   IN (IF low > 0 THEN low ELSE FirstIn({i \in DOMAIN HexHigh : HexHigh[i] = ch})) - 1
  IN FoldLeft(LAMBDA v, i : Word(v * base + digit(At(src, i))), 0,
              [j \in 1..(hi - lo) |-> lo + j - 1])

LexNumber(l) ==
  LET hex == At(l.src, l.i) = "0" /\ At(l.src, l.i + 1) \in {"x", "X"}
      lo  == IF hex THEN l.i + 2 ELSE l.i
      hi  == SkipWhile(l.src, lo, IF hex THEN ToSet(HexLow) \cup ToSet(HexHigh) ELSE ToSet(Digits))
  IN IF hex /\ lo > Len(l.src) THEN LexFail(l, "malformed hex literal")
     ELSE IF At(l.src, hi) \in ToSet(Alphabet) THEN LexFail(l, "invalid digit")
     ELSE PushNum(l, hi, NumberIn(l.src, lo, hi, IF hex THEN 16 ELSE 10))

LexWord(l) ==
  LET end == SkipWhile(l.src, l.i, ToSet(Alphabet))
  IN Push(l, IF SubSeq(l.src, l.i, end - 1) \in Keywords THEN "kw" ELSE "id", end)

LexChar(l) ==
  LET esc  == At(l.src, l.i + 1) = "\\"
      body == IF esc THEN l.i + 2 ELSE l.i + 1
      ch   == At(l.src, body)
  IN IF ch = "" \/ (ch = "\n" /\ ~esc) THEN LexFail(l, "unterminated character")
     ELSE IF esc /\ ch \notin Escapes THEN LexFail(l, "unknown escape")
     ELSE IF At(l.src, body + 1) # "'" THEN LexFail(l, "one character")
     ELSE PushNum(l, body + 2, CharByte(ch))

\* The characters of a string literal from position i on, and where it ends.
RECURSIVE StringFrom(_, _, _)
StringFrom(l, i, acc) ==
  LET ch  == At(l.src, i)
      esc == At(l.src, i + 1)
  IN IF ch \in {"", "\n"} THEN LexFail(l, "unterminated string")
     ELSE IF ch = "\"" THEN LET p == Push(l, "str", i + 1)
                            IN [p EXCEPT !.out[Len(p.out)].s = acc, !.out[Len(p.out)].t = ""]
     ELSE IF ch # "\\" THEN StringFrom(l, i + 1, acc \o ch)
     ELSE IF esc \notin Escapes THEN LexFail(l, "unknown escape")
     ELSE StringFrom(l, i + 2, acc \o esc)

\* Operators are tried in the order of the table, single characters last.
LexPunct(l) ==
  LET p == FirstIn({i \in DOMAIN Puncts : StartsWith(l.src, l.i, Puncts[i])})
  IN IF p > 0 THEN Push(l, "punct", l.i + Len(Puncts[p]))
     ELSE IF At(l.src, l.i) \in Singles THEN Push(l, "punct", l.i + 1)
     ELSE LexFail(l, "unexpected character")

\* Blanks and comments; a comment that is never closed is an error.
LexBlank(l) ==
  IF StartsWith(l.src, l.i, "//") THEN [l EXCEPT !.i = SkipTo(l.src, @, "\n")]
  ELSE IF ~StartsWith(l.src, l.i, "/*") THEN [l EXCEPT !.i = SkipWhile(l.src, @, Spaces)]
  ELSE LET end == SkipTo(l.src, l.i + 2, "*/")
       IN IF end > Len(l.src) THEN LexFail(l, "unterminated comment")
          ELSE [l EXCEPT !.i = end + 2]

\* One round of lex's loop.
LexStep(l) ==
  LET ch == At(l.src, l.i)
  IN CASE ch \in Spaces \/ StartsWith(l.src, l.i, "//") \/ StartsWith(l.src, l.i, "/*") ->
            LexBlank(l)
       [] ch \in ToSet(Digits) -> LexNumber(l)
       [] ch \in ToSet(Alphabet) \ ToSet(Digits) -> LexWord(l)
       [] ch = "'" -> LexChar(l)
       [] ch = "\"" -> StringFrom(l, l.i + 1, "")
       [] OTHER -> LexPunct(l)

Scanner(src, file) == [src |-> src, file |-> file, i |-> 1, out |-> <<>>, err |-> ""]
LexEnded(l) == l.err # "" \/ l.i > Len(l.src)

\* The tokens of a whole file, the end of file last.
RECURSIVE LexFrom(_)
LexFrom(l) == IF LexEnded(l) THEN Push(l, "eof", l.i) ELSE LexFrom(LexStep(l))
Lex(src, file) == LexFrom(Scanner(src, file))
=============================================================================
