------------------------------- MODULE LuaLex -------------------------------
(* The lexical analyzer (llex.c) and the conversions between numbers and     *)
(* their text (lobject.c).  The input is a string; a position in it is that  *)
(* of ls->current.  What llex returns is a record                            *)
(*   tok   the token, its kind and its value                                 *)
(*   p     the position after it                                             *)
(*   nl    whether a line ended before it                                    *)
(* luaX_lexerror is a token no rule of the grammar accepts.  Line numbers    *)
(* are left out but for one use: whether a parenthesis starts a line.        *)
EXTENDS LuaValue, FiniteSetsExt, TLC

EOZ == "end of stream"
Ch(src, p) == IF p > Len(src) THEN EOZ ELSE SubSeq(src, p, p)

CharsOf(s) == {SubSeq(s, i, i) : i \in 1 .. Len(s)}

(* character 31 + i is the i-th; TLA+ has no string with a backquote *)
Printable ==
  " !\"#$%&'()*+,-./0123456789:;<=>?@ABCDEFGHIJKLMNOPQRSTUVWXYZ[\\]^_ abcdefghijklmnopqrstuvwxyz{|}~"
CharCode == [c \in CharsOf(Printable) |->
               31 + Min({i \in 1 .. Len(Printable) : SubSeq(Printable, i, i) = c})]

Digits     == CharsOf("0123456789")
Letters    == CharsOf("abcdefghijklmnopqrstuvwxyzABCDEFGHIJKLMNOPQRSTUVWXYZ")
HexDigits  == CharsOf("0123456789abcdefABCDEF")
isdigit(c) == c \in Digits
isalpha(c) == c \in Letters
isalnum(c) == isdigit(c) \/ isalpha(c)
Newlines   == {"\n", "\r"}
isspace(c) == c \in {" ", "\t", "\f"} \cup Newlines
isname(c)  == isalnum(c) \/ c = "_"

(* the first position from p on whose character is not in the class *)
Skip(src, p, In(_)) ==
  CHOOSE q \in p .. Len(src) + 1 : ~In(Ch(src, q)) /\ \A r \in p .. q - 1 : In(Ch(src, r))

-----------------------------------------------------------------------------
(* Numbers. *)

DigitValue(c) ==
  CASE isdigit(c) -> CharCode[c] - 48
    [] CharCode[c] \in 65 .. 90  -> CharCode[c] - 55
    [] CharCode[c] \in 97 .. 122 -> CharCode[c] - 87

RECURSIVE NumeralValue(_, _)
NumeralValue(s, radix) ==
  IF s = "" THEN 0
  ELSE radix * NumeralValue(SubSeq(s, 1, Len(s) - 1), radix) + DigitValue(Ch(s, Len(s)))

Sign(s, p) == IF Ch(s, p) \in {"+", "-"} THEN p + 1 ELSE p

(* strtod: [p, v], p is where it stops; p = 1 if there is no number.  The    *)
(* exponent starts at f, its digits are those from x to e                    *)
PowerOfTen(s, f, x, e, m) ==
  LET by == Num(power[10, NumeralValue(SubSeq(s, x, e - 1), 10)])
  IN [p |-> e, v |-> IF Ch(s, f + 1) = "-" THEN luai_numdiv(m, by) ELSE luai_nummul(m, by)]
Exponent(s, f, x, m) ==
  IF Ch(s, f) \in {"e", "E"} /\ isdigit(Ch(s, x)) THEN PowerOfTen(s, f, x, Skip(s, x, isdigit), m)
  ELSE [p |-> f, v |-> m]

(* the digits before and after the point *)
Digits2(s, whole, frac, f) ==
  IF whole \o frac = "" THEN [p |-> 1, v |-> Num(0)]
  ELSE Exponent(s, f, Sign(s, f + 1),
                luai_numdiv(Num(NumeralValue(whole \o frac, 10)), Num(power[10, Len(frac)])))
Fraction(s, b, i, f) == Digits2(s, SubSeq(s, b, i - 1), SubSeq(s, i + 1, f - 1), f)
Whole(s, b, i) == Fraction(s, b, i, IF Ch(s, i) = "." THEN Skip(s, i + 1, isdigit) ELSE i)
Unsigned(s, b) == Whole(s, b, Skip(s, b, isdigit))

strtod(s) ==
  LET a == Skip(s, 1, isspace)
      minus == Ch(s, a) = "-"
  IN [Unsigned(s, Sign(s, a)) EXCEPT !.v = IF minus THEN luai_numunm(@) ELSE @]

ishex(c) == c \in HexDigits

(* strtoul in base 16, from the digits at p on *)
HexBetween(s, p, e) == [p |-> e, v |-> Num(NumeralValue(SubSeq(s, p, e - 1), 16))]
strtoul16(s, p) == HexBetween(s, p, Skip(s, p, ishex))

(* the number a string stands for, nil if it is none *)
NothingElse(s, r) == IF Skip(s, r.p, isspace) <= Len(s) THEN Nil ELSE r.v
Str2d(s, t) ==
  CASE t.p = 1 -> Nil
    [] t.p # 1 /\ Ch(s, t.p) \in {"x", "X"} -> NothingElse(s, strtoul16(s, t.p + 1))
    [] OTHER -> NothingElse(s, t)
luaO_str2d(s) == Str2d(s, strtod(s))

RECURSIVE DigitsOf(_)
DigitsOf(n) == (IF n < 10 THEN "" ELSE DigitsOf(n \div 10)) \o SubSeq("0123456789", (n % 10) + 1, (n % 10) + 1)

(* lua_number2str, which gives a fraction to 14 digits, here as a quotient *)
lua_number2str(v) ==
  LET sign == IF v[2] < 0 THEN "-" ELSE ""
  IN CASE v = NaN -> "nan"
       [] v # NaN /\ ~IsFinite(v) -> sign \o "inf"
       [] IsFinite(v) /\ IsInt(v) -> sign \o DigitsOf(Abs(v[2]))
       [] OTHER -> sign \o DigitsOf(Abs(v[2])) \o "/" \o DigitsOf(v[3])

-----------------------------------------------------------------------------
(* Tokens. *)

Reserved ==
  {"and", "break", "do", "else", "elseif", "end", "false", "for", "function", "if",
   "in", "local", "nil", "not", "or", "repeat", "return", "then", "true", "until", "while"}

LexError(p) == [tok |-> <<"lexical error">>, p |-> p]

(* the numeral that starts at p *)
read_numeral(src, p) ==
  LET isdot(c) == isdigit(c) \/ c = "."
      a == Skip(src, p, isdot)
      b == IF Ch(src, a) \in {"E", "e"} THEN Sign(src, a + 1) ELSE a
      q == Skip(src, b, isname)
      v == luaO_str2d(SubSeq(src, p, q - 1))
  IN IF v = Nil THEN LexError(q) ELSE [tok |-> <<"number", v>>, p |-> q]

(* [n, p]: the = signs between two brackets, negative if there is no second; *)
(* p is the position of the second                                           *)
skip_sep(src, p) ==
  LET iseq(c) == c = "="
      q == Skip(src, p + 1, iseq)
      n == q - p - 1
  IN [n |-> IF Ch(src, q) = Ch(src, p) THEN n ELSE -n - 1, p |-> q]

(* p is at the second bracket; in a comment the text is thrown away *)
read_long_string(src, p, sep, comment) ==
  LET from   == IF Ch(src, p + 1) \in Newlines THEN p + 2 ELSE p + 1
      at(b)  == {q \in from .. Len(src) : Ch(src, q) = b /\ skip_sep(src, q).n = sep}
      close  == Min(at("]"))
      nested == sep = 0 /\ \E q \in at("[") : at("]") = {} \/ q < close
  IN IF at("]") = {} \/ nested THEN LexError(Len(src) + 1)
     ELSE [tok |-> IF comment THEN <<"comment">> ELSE <<"string", SubSeq(src, from, close - 1)>>,
           p   |-> skip_sep(src, close).p + 1]

(* TLA+ strings have no bell, backspace and vertical tab: one sign for these *)
Escapes == [c \in {"a", "b", "v"} |-> "?"] @@ [c \in {"f"} |-> "\f"] @@ [c \in {"n"} |-> "\n"]
             @@ [c \in {"r"} |-> "\r"] @@ [c \in {"t"} |-> "\t"]

(* the rest of a string from p on, text what was read of it *)
RECURSIVE read_string(_, _, _, _)
read_string(src, p, del, text) ==
  LET c == Ch(src, p)
      e == Ch(src, p + 1)
      q == Min({r \in p + 1 .. p + 4 : r = p + 4 \/ ~isdigit(Ch(src, r))})
      code == NumeralValue(SubSeq(src, p + 1, q - 1), 10)
  IN CASE c = del -> [tok |-> <<"string", text>>, p |-> p + 1]
       [] c \in Newlines \cup {EOZ} -> LexError(p)
       [] c = "\\" /\ e = EOZ -> LexError(p)
       [] c = "\\" /\ e \in DOMAIN Escapes -> read_string(src, p + 2, del, text \o Escapes[e])
       [] c = "\\" /\ e \in Newlines -> read_string(src, p + 2, del, text \o "\n")
       [] c = "\\" /\ isdigit(e) ->
            IF code > 255 THEN LexError(q)
            ELSE read_string(src, q, del,
                             text \o (IF code \in 32 .. 126 THEN Ch(Printable, code - 31) ELSE "?"))
       [] c = "\\" /\ e \notin DOMAIN Escapes \cup Newlines \cup {EOZ} /\ ~isdigit(e) ->
            read_string(src, p + 2, del, text \o e)
       [] OTHER -> read_string(src, p + 1, del, text \o c)

(* operators of two characters *)
Pairs == {"==", "<=", ">=", "~="}

RECURSIVE llex(_, _, _)
llex(src, p, nl) ==
  LET c     == Ch(src, p)
      two   == c \o Ch(src, p + 1)
      three == two \o Ch(src, p + 2)
      done(r)    == [tok |-> r.tok, p |-> r.p, nl |-> nl]
      token(k, q) == [tok |-> <<k>>, p |-> q, nl |-> nl]
      sep   == skip_sep(src, p)
      csep  == skip_sep(src, p + 2)
      long  == read_long_string(src, csep.p, csep.n, TRUE)
      eol   == Min({q \in p .. Len(src) + 1 : Ch(src, q) \in Newlines \cup {EOZ}})
      name  == SubSeq(src, p, Skip(src, p, isname) - 1)
  IN CASE c = EOZ -> token("eos", p)
       [] c # EOZ /\ isspace(c) -> llex(src, p + 1, nl \/ c \in Newlines)
       [] two = "--" /\ Ch(src, p + 2) = "[" /\ csep.n >= 0 ->
            IF long.tok = <<"comment">> THEN llex(src, long.p, nl) ELSE done(long)
       [] two = "--" /\ ~(Ch(src, p + 2) = "[" /\ csep.n >= 0) -> llex(src, eol, nl)
       [] c = "[" -> CASE sep.n >= 0 -> done(read_long_string(src, sep.p, sep.n, FALSE))
                       [] sep.n = -1 -> token("[", p + 1)
                       [] OTHER -> done(LexError(p + 1))
       [] two \in Pairs -> token(two, p + 2)
       [] c \in {"\"", "'"} -> done(read_string(src, p + 1, c, ""))
       [] three = "..." -> token("...", p + 3)
       [] two = ".." /\ three # "..." -> token("..", p + 2)
       [] isdigit(c) \/ (c = "." /\ isdigit(Ch(src, p + 1))) -> done(read_numeral(src, p))
       [] isalpha(c) \/ c = "_" ->
            IF name \in Reserved THEN token(name, p + Len(name))
            ELSE [tok |-> <<"name", name>>, p |-> p + Len(name), nl |-> nl]
       [] c = "(" -> [tok |-> IF nl THEN <<"(", "nl">> ELSE <<"(">>, p |-> p + 1, nl |-> nl]
       [] OTHER -> token(c, p + 1)

(* all tokens up to the end of the stream *)
RECURSIVE TokensFrom(_, _)
TokensFrom(src, p) ==
  LET t == llex(src, p, FALSE)
  IN IF t.tok = <<"eos">> THEN <<>> ELSE <<t.tok>> \o TokensFrom(src, t.p)
Tokens(src) == TokensFrom(src, 1)
=============================================================================
