------------------------------ MODULE MCSerial ------------------------------
(* Serial for TLC, with a char of four values.                             *)
EXTENDS Serial

Num(n) == [type |-> "number", val |-> n]
Str(s) == [type |-> "string", val |-> s]
Tbl(s) == [type |-> "table", val |-> s]

MCArgs ==
  LET items == {Num(1), Num(3), Str(<<>>), Str(<<1>>), Str(<<2, 3>>)}
  IN items \cup {[type |-> "other", val |-> <<>>]}
           \cup {Tbl(s) : s \in BoundedSeq(items, 3)}
=============================================================================
