------------------------------- MODULE Serial -------------------------------
(***************************************************************************)
(* proserial.Send of src/src/profiserial.c: a number, a string, or a table *)
(* of both goes out byte by byte through SendByte of the serial library,   *)
(* which may refuse any byte.  A step is one SendByte, or one element      *)
(* fetched from the table.                                                 *)
(***************************************************************************)
EXTENDS Integers, Sequences, SequencesExt

CONSTANTS Args,     \* the second arguments a script passes, see Arg
          UcharSize \* number of values of a char (256)

\* What lua_type tells apart.  A table is the elements at 1, 2, ... up to the first
\* that is neither a number nor a string.
Item == [type : {"number"}, val : Int] \cup [type : {"string"}, val : Seq(0 .. UcharSize - 1)]
Arg  == Item \cup [type : {"table"}, val : Seq(Item)] \cup [type : {"other"}, val : {<<>>}]

ASSUME UcharAssumption == UcharSize \in Nat \ {0}
ASSUME ArgsAssumption  == Args \subseteq Arg

VARIABLES pc,    \* "number" or "chars": a SendByte is due, "element": a fetch,
                 \* "idle": no call or a finished one, "raised": an abandoned one
          arg,   \* the argument of the call
          i,     \* the element of the table in work
          j,     \* characters of the string gone
          item,  \* the number or string at the top of the stack
          ret,   \* the count to return
          top,   \* lua_gettop
          tried, \* the integers given to SendByte by this call
          line   \* those it accepted

vars == <<pc, arg, i, j, item, ret, top, tried, line>>

Nothing == [type |-> "string", val |-> <<>>]

TypeOK ==
  /\ pc \in {"idle", "raised", "number", "chars", "element"}
  /\ arg \in Args \cup {Nothing} /\ item \in Item
  /\ i \in Nat /\ j \in Nat /\ ret \in Nat /\ top \in Nat
  /\ tried \in Seq(Int) /\ line \in Seq(Int)

Init ==
  /\ arg = Nothing
  /\ pc = "idle" /\ i = 0 /\ j = 0 /\ item = Nothing /\ ret = 0 /\ top = 0
  /\ tried = <<>> /\ line = <<>>

\* char is signed: *pData of a byte in the upper half is negative.
CharToInt(c) == IF 2 * c >= UcharSize THEN c - UcharSize ELSE c

-----------------------------------------------------------------------------
\* lua_gettop(L) == 2, and the switch on lua_type
plSerialSend(a) ==
  /\ pc \in {"idle", "raised"}
  /\ arg' = a /\ top' = 2
  /\ i' = 1 /\ j' = 0 /\ ret' = 0 /\ tried' = <<>> /\ line' = <<>>
  /\ CASE a.type = "number" -> pc' = "number" /\ item' = a
       [] a.type = "string" -> pc' = "chars" /\ item' = a
       [] a.type = "table"  -> pc' = "element" /\ item' = Nothing
       [] a.type = "other"  -> pc' = "idle" /\ item' = Nothing

\* The result is pushed over whatever the call left on the stack.
Return == pc' = "idle" /\ i' = 0 /\ j' = 0 /\ item' = Nothing

\* lua_pop of the element; forgotten
PopElementNot == top' = top
PopElement    == top' = top - 1

\* The item is sent: back to the table it came from, or done.
ItemSent ==
  IF arg.type = "table"
  THEN pc' = "element" /\ i' = i + 1 /\ j' = 0 /\ item' = Nothing /\ PopElement
  ELSE Return /\ UNCHANGED top

Element ==
  /\ pc = "element"
  /\ IF i <= Len(arg.val)
     THEN /\ item' = arg.val[i] /\ top' = top + 1
          /\ pc' = IF item'.type = "number" THEN "number" ELSE "chars"
          /\ UNCHANGED <<i, j>>
     ELSE Return /\ UNCHANGED top
  /\ UNCHANGED <<arg, ret, tried, line>>

\* An __index metamethod of the table may raise: the call is abandoned.
ElementRaises ==
  /\ pc = "element"
  /\ pc' = "raised" /\ i' = 0 /\ j' = 0 /\ item' = Nothing
  /\ UNCHANGED <<arg, ret, top, tried, line>>

Offer(byte, accepted) ==
  /\ tried' = Append(tried, byte)
  /\ line' = IF accepted THEN Append(line, byte) ELSE line

\* The bool of SendByte in a sum; what it would be if a refusal were -1
AsCountSigned(accepted) == IF accepted THEN 1 ELSE -1
AsCount(accepted) == IF accepted THEN 1 ELSE 0

\* ret = SendByte(...)
Number ==
  /\ pc = "number"
  /\ \E accepted \in BOOLEAN :
       /\ Offer(item.val, accepted)
       /\ ret' = AsCount(accepted)
  /\ ItemSent
  /\ UNCHANGED arg

\* i < strLen; <=, which sends the terminating 0 as well
CharsLeftTooLong == j <= Len(item.val)
CharsLeft == j < Len(item.val)

\* ret += SendByte(...); counted although refused
AddCountAlways(accepted) == ret' = ret + 1
AddCount(accepted) == ret' = ret + AsCount(accepted)

Char ==
  /\ pc = "chars" /\ CharsLeft
  /\ \E accepted \in BOOLEAN :
       /\ Offer(IF j < Len(item.val) THEN CharToInt(item.val[j + 1]) ELSE 0, accepted)
       /\ AddCount(accepted)
  /\ j' = j + 1
  /\ UNCHANGED <<pc, arg, i, item, top>>

StringSent ==
  /\ pc = "chars" /\ ~CharsLeft
  /\ ItemSent
  /\ UNCHANGED <<arg, ret, tried, line>>

Next ==
  \/ \E a \in Args : plSerialSend(a)
  \/ Element \/ ElementRaises \/ Number \/ Char \/ StringSent

Spec == Init /\ [][Next]_vars

-----------------------------------------------------------------------------
(* Properties                                                              *)

\* The integers an argument stands for, in order
BytesOf(x) == IF x.type = "number" THEN <<x.val>>
              ELSE [k \in DOMAIN x.val |-> CharToInt(x.val[k])]

Bytes(a) ==
  CASE a.type = "other" -> <<>>
    [] a.type = "table" -> FlattenSeq([k \in DOMAIN a.val |-> BytesOf(a.val[k])])
    [] OTHER            -> BytesOf(a)

\* plSerialSend offers every byte of its argument once and in order, however many the
\* library refuses on the way; only an error raised by the table cuts it short.
InOrder ==
  /\ IsPrefix(tried, Bytes(arg))
  /\ pc = "idle" => tried = Bytes(arg)

\* The stack holds the two arguments and at most one element: however long the table,
\* plSerialSend never asks for more room than a C function is given.
StackFlat == top <= IF pc \in {"number", "chars"} THEN 3 ELSE 2

\* The count plSerialSend returns is never more than what went out.
NeverOverstates == ret <= Len(line)

\* profiserial.c:174: "number : 0 -> ERROR, >0 -> number of bytes sent".
CountsSent == pc = "idle" => ret = Len(line)
=============================================================================
