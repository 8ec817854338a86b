------------------------------ MODULE LuaTable ------------------------------
(* Tables (ltable.c): an array part, and a hash part of chained scatter with *)
(* Brent's variation, whose free nodes are found by a pointer that only goes *)
(* down.  A table is a record                                                *)
(*   array               the values of the keys 1 .. sizearray               *)
(*   node                the nodes [key, val, next], next an index or -1;    *)
(*                       none for the common dummynode                       *)
(*   lastfree            all free nodes are below it                         *)
(*   metatable, flags    a table id or 0; the events known to be absent      *)
(* The pointers the C functions return become the value that is stored there *)
(* (luaH_get) or the table in which the key has its place (luaH_set).        *)
EXTENDS LuaOpcodes, FiniteSetsExt

CONSTANTS
  Hash(_),   \* what the keys hash to
  MAX_INT

ASSUME MaxIntAssumption == MAX_INT \in Nat \ {0}

nil == Nil
EmptyNode   == [key |-> nil, val |-> nil, next |-> -1]
isdummy(t)  == t.node = <<>>
sizearray(t) == Len(t.array)
sizenode(t) == IF isdummy(t) THEN 1 ELSE Len(t.node)
gnode(t, i) == IF isdummy(t) THEN EmptyNode ELSE At(t.node, i)

ceillog2(x) == CHOOSE l \in 0 .. x : 2^l >= x /\ \A m \in 0 .. l - 1 : 2^m < x

(* strings and booleans are masked; numbers and addresses, which have many   *)
(* factors of two, are taken modulo an odd number                            *)
mainposition(t, key) ==
  CASE key = Num(0) -> 0
    [] ttype(key) \in {"str", "bool"} -> Hash(key) % sizenode(t)
    [] OTHER -> Hash(key) % (IF sizenode(t) % 2 = 0 THEN sizenode(t) - 1 ELSE sizenode(t))

(* the key as an index of the array part, -1 if it is none *)
arrayindex(key) == IF IsNum(key) /\ IsInt(key) THEN key[2] ELSE -1

(* the node of the key in the chain that starts at i, -1 if there is none *)
RECURSIVE InChain(_, _, _)
InChain(t, i, key) ==
  CASE i = -1 -> -1
    [] i # -1 /\ luaO_rawequalObj(gnode(t, i).key, key) -> i
    [] OTHER -> InChain(t, gnode(t, i).next, key)

FindNode(t, key) == InChain(t, mainposition(t, key), key)

-----------------------------------------------------------------------------
(* Reading. *)

InArray(t, key) == arrayindex(key) \in 1 .. sizearray(t)

luaH_getnum(t, n) ==
  IF n \in 1 .. sizearray(t) THEN t.array[n]
  ELSE LET i == FindNode(t, Num(n)) IN IF i = -1 THEN nil ELSE gnode(t, i).val

luaH_getstr(t, s) ==
  LET i == FindNode(t, s) IN IF i = -1 THEN nil ELSE gnode(t, i).val

luaH_get(t, key) ==
  CASE key = nil -> nil
    [] ttype(key) = "num" /\ IsInt(key) -> luaH_getnum(t, key[2])
    [] OTHER -> luaH_getstr(t, key)

(* the place of a key in a traversal: -1 before the first, -2 if it has none *)
findindex(t, key) ==
  LET i == FindNode(t, key)
  IN CASE key = nil -> -1
       [] key # nil /\ InArray(t, key) -> arrayindex(key) - 1
       [] OTHER -> IF i = -1 THEN -2 ELSE i + sizearray(t)

(* the pair at a place of a traversal *)
PairAt(t, i) ==
  IF i < sizearray(t) THEN [key |-> Num(i + 1), val |-> At(t.array, i)]
                      ELSE [key |-> gnode(t, i - sizearray(t)).key,
                            val |-> gnode(t, i - sizearray(t)).val]

(* [err, more, key, val] *)
luaH_next(t, key) ==
  LET i    == findindex(t, key)
      rest == {j \in i + 1 .. sizearray(t) + sizenode(t) - 1 : PairAt(t, j).val # nil}
      none == [err |-> "", more |-> FALSE, key |-> nil, val |-> nil]
      p    == PairAt(t, Min(rest))
  IN CASE i = -2 -> [none EXCEPT !.err = "invalid key to 'next'"]
       [] i # -2 /\ rest = {} -> none
       [] OTHER -> [none EXCEPT !.more = TRUE, !.key = p.key, !.val = p.val]

-----------------------------------------------------------------------------
(* Writing. *)

(* the keys there are: nums[i] of them in 2^(i-1) + 1 .. 2^i *)
IntKeys(t, ek) ==
  {n \in 1 .. sizearray(t) : t.array[n] # nil}
    \cup {arrayindex(t.node[i].key) : i \in {j \in DOMAIN t.node :
            t.node[j].val # nil /\ arrayindex(t.node[j].key) > 0}}
    \cup (IF arrayindex(ek) > 0 THEN {arrayindex(ek)} ELSE {})

(* The largest n, a power of two, such that more than half of the slots      *)
(* 1 .. n would be in use: [n, na], na the keys that go there.               *)
computesizes(keys) ==
  LET narray == Cardinality(keys)
      below(n) == Cardinality({k \in keys : k <= n})
      slice(n) == {k \in keys : n \div 2 < k /\ k <= n}
      good == {n \in {2^i : i \in 0 .. ceillog2(2 * narray + 1)} :
                 n \div 2 < narray /\ slice(n) # {} /\ below(n) > n \div 2}
      n == IF good = {} THEN 0 ELSE Max(good)
  IN [n |-> n, na |-> below(n)]

totaluse(t) ==
  Cardinality({n \in DOMAIN t.array : t.array[n] # nil})
    + Cardinality({j \in DOMAIN t.node : t.node[j].val # nil})

setarrayvector(t, size) ==
  [t EXCEPT !.array = [n \in 1 .. size |-> IF n <= sizearray(t) THEN t.array[n] ELSE nil]]

setnodevector(t, size) ==
  LET s == IF size = 0 THEN 0 ELSE 2^ceillog2(size)
  IN [t EXCEPT !.node = [i \in 1 .. s |-> EmptyNode], !.lastfree = s]

luaH_new(narray, nhash) ==
  setnodevector(setarrayvector([array |-> <<>>, node |-> <<>>, lastfree |-> 0,
                                metatable |-> 0, flags |-> {}], narray), nhash)

(* the highest node below lastfree that was never used, -1 if none is left *)
getfreepos(t) ==
  LET free == {i \in 0 .. t.lastfree - 1 : At(t.node, i).key = nil}
  IN IF free = {} THEN -1 ELSE Max(free)

SetNode(t, i, n) == [t EXCEPT !.node[i + 1] = n]

(* the node of the chain from i whose successor is mp *)
RECURSIVE Previous(_, _, _)
Previous(t, i, mp) ==
  IF gnode(t, i).next = mp THEN i ELSE Previous(t, gnode(t, i).next, mp)

RECURSIVE luaH_set(_, _), newkey(_, _), rehash(_, _), Reinsert(_, _)

(* luaH_set with a value: what the callers do with the place it returns *)
StoreAt(t, key, val) ==
  IF InArray(t, key) THEN [t EXCEPT !.array[arrayindex(key)] = val]
                     ELSE [t EXCEPT !.node[FindNode(t, key) + 1].val = val]
Put(t, key, val) == StoreAt(luaH_set(t, key), key, val)

(* a sequence of pairs *)
Reinsert(t, pairs) ==
  IF pairs = <<>> THEN t
  ELSE Reinsert(IF Head(pairs).val = nil THEN t ELSE Put(t, Head(pairs).key, Head(pairs).val),
                Tail(pairs))

(* the slice that vanishes from the array and then the old nodes, from the   *)
(* last, go where they belong now                                            *)
resize(t, nasize, nhsize) ==
  LET a == IF nasize > sizearray(t) THEN setarrayvector(t, nasize) ELSE t
      h == setnodevector(a, nhsize)
      s == [h EXCEPT !.array = SubSeq(@, 1, nasize)]
      slice == [i \in 1 .. sizearray(a) - nasize |->
                  [key |-> Num(nasize + i), val |-> a.array[nasize + i]]]
      size  == Len(t.node)
      nold  == [i \in 1 .. size |-> t.node[size + 1 - i]]
  IN Reinsert(Reinsert(s, slice), nold)

luaH_resizearray(t, nasize) == resize(t, nasize, Len(t.node))

ResizeTo(t, c) == resize(t, c.n, totaluse(t) + 1 - c.na)
rehash(t, ek)  == ResizeTo(t, computesizes(IntKeys(t, ek)))

(* a key that is not there yet: it takes its main position, from which a key *)
(* that is out of its own is moved away, or the free node found              *)
newkey(t, key) ==
  LET mp    == mainposition(t, key)
      n     == getfreepos(t)
      other == mainposition(t, gnode(t, mp).key)
      took  == [t EXCEPT !.lastfree = n]
      prev  == Previous(t, other, mp)
      moved == SetNode([took EXCEPT !.node[prev + 1].next = n], n, gnode(t, mp))
      new   == [EmptyNode EXCEPT !.key = key]
  IN CASE ~isdummy(t) /\ gnode(t, mp).val = nil ->
            [t EXCEPT !.node[mp + 1].key = key]
       [] (isdummy(t) \/ gnode(t, mp).val # nil) /\ n = -1 ->
            luaH_set(rehash(t, key), key)
       [] n # -1 /\ gnode(t, mp).val # nil /\ other # mp ->
            SetNode(moved, mp, new)
       [] OTHER ->
            SetNode([took EXCEPT !.node[mp + 1].next = n], n,
                    [new EXCEPT !.next = gnode(t, mp).next])

(* the table in which the key has a place *)
luaH_set(t, key) ==
  LET s == [t EXCEPT !.flags = {}]
  IN IF InArray(t, key) \/ FindNode(t, key) # -1 THEN s ELSE newkey(s, key)

(* what luaH_set refuses *)
KeyError(key) ==
  CASE key = nil -> "table index is nil"
    [] key = NaN -> "table index is NaN"
    [] OTHER -> ""

-----------------------------------------------------------------------------
(* The border: an n with t[n] not nil and t[n + 1] nil, or 0.                *)

(* i is 0 or present, j is not *)
RECURSIVE Bisect(_, _, _)
Bisect(t, i, j) ==
  LET m == (i + j) \div 2
  IN IF j - i <= 1 THEN i
     ELSE IF luaH_getnum(t, m) = nil THEN Bisect(t, i, m) ELSE Bisect(t, m, j)

RECURSIVE Linear(_, _)
Linear(t, i) == IF luaH_getnum(t, i) = nil THEN i - 1 ELSE Linear(t, i + 1)

RECURSIVE unbound_search(_, _, _)
unbound_search(t, i, j) ==
  CASE luaH_getnum(t, j) = nil -> Bisect(t, i, j)
    [] luaH_getnum(t, j) # nil /\ 2 * j > MAX_INT -> Linear(t, 1)
    [] OTHER -> unbound_search(t, j, 2 * j)

luaH_getn(t) ==
  LET j == sizearray(t)
  IN CASE j > 0 /\ t.array[j] = nil -> Bisect(t, 0, j)
       [] (j = 0 \/ t.array[j] # nil) /\ isdummy(t) -> j
       [] OTHER -> unbound_search(t, j, j + 1)
=============================================================================
