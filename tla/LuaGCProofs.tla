----------------------------- MODULE LuaGCProofs -----------------------------
(***************************************************************************)
(* Proofs about LuaGC, for any heap and any bound on the stack: finalizers *)
(* are called once and in time, the marking keeps the three colours apart, *)
(* and nothing the program can reach is freed.                             *)
(***************************************************************************)
EXTENDS LuaGC, FiniteSetTheorems, TLAPS

\* What FinalizedOnce rests on: the bit set when a userdata is moved to tmudata
\* outlives its call, and the sweep, which drops the bit with the memory, never
\* has before it a userdata that waits.
QueueInv ==
    /\ tmudata \in Seq(Finalizable)
    /\ IsInjective(tmudata)
    /\ Range(tmudata) \subseteq finalized
    /\ called \subseteq finalized
    /\ Range(tmudata) \cap called = {}
    /\ tosweep \cap Range(tmudata) = {}
    /\ gcstate \notin {"sweepstring", "sweep"} => tosweep = {}

-----------------------------------------------------------------------------
\* The steps that leave the queue alone and put nothing new before the sweep.
LEMMA QueueFrame ==
    ASSUME QueueInv, UNCHANGED <<tmudata, finalized, called>>,
           tosweep' \cap Range(tmudata) = {},
           gcstate' \notin {"sweepstring", "sweep"} => tosweep' = {}
    PROVE  QueueInv'
    BY DEF QueueInv

\* The collector starts with nothing queued and nothing to sweep.
LEMMA InitQueueInv == Init => QueueInv
    <1> SUFFICES ASSUME Init PROVE QueueInv
        OBVIOUS
    <1>1. tmudata = <<>> /\ finalized = {} /\ called = {} /\ tosweep = {}
        BY DEF Init
    <1>2. Range(tmudata) = {} /\ IsInjective(tmudata) /\ tmudata \in Seq(Finalizable)
        BY <1>1 DEF Range, IsInjective
    <1> QED BY <1>1, <1>2 DEF QueueInv

\* Any choice SetToSeqs offers is a sequence of the set without repetition.
LEMMA SetToSeqsType ==
    ASSUME NEW S, IsFiniteSet(S), NEW s \in SetToSeqs(S)
    PROVE  s \in Seq(S) /\ IsInjective(s) /\ Range(s) = S
    <1>1. Cardinality(S) \in Nat
        BY FS_CardinalityType
    <1>2. s \in [1 .. Cardinality(S) -> S] /\ IsInjective(s)
        BY Zenon DEF SetToSeqs, IsInjective
    <1>3. s \in Injection(1 .. Cardinality(S), S)
        BY <1>2, Zenon DEF Injection, IsInjective
    <1>4. Cardinality(1 .. Cardinality(S)) = Cardinality(S)
        BY <1>1, FS_Interval
    <1>5. s \in Surjection(1 .. Cardinality(S), S)
        BY <1>3, <1>4, FS_Injection
    <1>6. \A x \in S : \E i \in 1 .. Cardinality(S) : s[i] = x
        BY <1>5, Zenon DEF Surjection
    <1> QED BY <1>1, <1>2, <1>6 DEF Range

\* The elements of two sequences, one after the other, repeated or not.
LEMMA ConcatRange ==
    ASSUME NEW S, NEW s \in Seq(S), NEW t \in Seq(S)
    PROVE  s \o t \in Seq(S) /\ Range(s \o t) = Range(s) \cup Range(t)
    <1>1. /\ s \o t \in Seq(S) /\ Len(s \o t) = Len(s) + Len(t)
          /\ \A i \in 1 .. Len(s) + Len(t) :
               (s \o t)[i] = IF i <= Len(s) THEN s[i] ELSE t[i - Len(s)]
        OBVIOUS
    <1>2. DOMAIN (s \o t) = 1 .. Len(s) + Len(t) /\ DOMAIN s = 1 .. Len(s) /\ DOMAIN t = 1 .. Len(t)
        BY <1>1
    <1>3. \A i \in 1 .. Len(s) : i \in 1 .. Len(s) + Len(t) /\ (s \o t)[i] = s[i]
        BY <1>1
    <1>4. \A i \in 1 .. Len(t) : /\ i + Len(s) \in 1 .. Len(s) + Len(t)
                                 /\ (s \o t)[i + Len(s)] = t[i]
        BY <1>1
    <1>5. ASSUME NEW i \in 1 .. Len(s) + Len(t) PROVE (s \o t)[i] \in Range(s) \cup Range(t)
        <2>1. CASE i <= Len(s)
            <3>1. i \in DOMAIN s /\ (s \o t)[i] = s[i]
                BY <1>1, <2>1
            <3> QED BY <3>1 DEF Range
        <2>2. CASE i > Len(s)
            <3>1. i - Len(s) \in 1 .. Len(t) /\ ~(i <= Len(s))
                BY <2>2
            <3>2. (s \o t)[i] = t[i - Len(s)]
                BY <1>1, <3>1
            <3> QED BY <1>2, <3>1, <3>2 DEF Range
        <2> QED BY <2>1, <2>2
    <1>6. Range(s \o t) \subseteq Range(s) \cup Range(t)
        BY <1>2, <1>5, Zenon DEF Range
    <1>7. Range(s) \subseteq Range(s \o t)
        BY <1>2, <1>3, Zenon DEF Range
    <1>8. Range(t) \subseteq Range(s \o t)
        BY <1>2, <1>4, Zenon DEF Range
    <1> QED BY <1>1, <1>6, <1>7, <1>8

\* Two sequences without repetition and without a common element, one after the
\* other.
LEMMA ConcatInjective ==
    ASSUME NEW S, NEW s \in Seq(S), NEW t \in Seq(S), IsInjective(s), IsInjective(t),
           Range(s) \cap Range(t) = {}
    PROVE  /\ s \o t \in Seq(S) /\ IsInjective(s \o t)
           /\ Range(s \o t) = Range(s) \cup Range(t)
    <1>1. /\ s \o t \in Seq(S) /\ Len(s \o t) = Len(s) + Len(t)
          /\ \A i \in 1 .. Len(s) + Len(t) :
               (s \o t)[i] = IF i <= Len(s) THEN s[i] ELSE t[i - Len(s)]
        OBVIOUS
    <1>2. /\ \A i \in 1 .. Len(s) : s[i] \in Range(s)
          /\ \A i \in 1 .. Len(t) : t[i] \in Range(t)
        BY DEF Range
    <1>3. IsInjective(s \o t)
        <2> SUFFICES ASSUME NEW a \in 1 .. Len(s) + Len(t), NEW b \in 1 .. Len(s) + Len(t),
                            (s \o t)[a] = (s \o t)[b]
                     PROVE  a = b
            BY <1>1 DEF IsInjective
        <2>1. CASE a <= Len(s) /\ b <= Len(s)
            <3>1. a \in DOMAIN s /\ b \in DOMAIN s /\ s[a] = s[b]
                BY <1>1, <2>1
            <3> QED BY <3>1 DEF IsInjective
        <2>2. CASE a > Len(s) /\ b > Len(s)
            <3>1. t[a - Len(s)] = t[b - Len(s)]
                BY <1>1, <2>2
            <3>2. a - Len(s) = b - Len(s)
                BY <2>2, <3>1 DEF IsInjective
            <3> QED BY <3>2
        <2>3. CASE a <= Len(s) /\ b > Len(s)
            <3>1. s[a] = t[b - Len(s)] /\ s[a] \in Range(s) /\ t[b - Len(s)] \in Range(t)
                BY <1>1, <1>2, <2>3
            <3> QED BY <3>1
        <2>4. CASE a > Len(s) /\ b <= Len(s)
            <3>1. s[b] = t[a - Len(s)] /\ s[b] \in Range(s) /\ t[a - Len(s)] \in Range(t)
                BY <1>1, <1>2, <2>4
            <3> QED BY <3>1
        <2> QED BY <2>1, <2>2, <2>3, <2>4
    <1> QED BY <1>1, <1>3, ConcatRange

\* A sequence without repetition after its first element.
LEMMA TailInjective ==
    ASSUME NEW S, NEW s \in Seq(S), s # <<>>, IsInjective(s)
    PROVE  /\ Head(s) \in Range(s) /\ Tail(s) \in Seq(S) /\ IsInjective(Tail(s))
           /\ Range(Tail(s)) = Range(s) \ {Head(s)}
    <1>1. /\ Tail(s) \in Seq(S) /\ Len(Tail(s)) = Len(s) - 1 /\ Len(s) \in Nat \ {0}
          /\ Head(s) = s[1] /\ DOMAIN s = 1 .. Len(s) /\ DOMAIN Tail(s) = 1 .. Len(s) - 1
          /\ \A i \in 1 .. Len(s) - 1 : Tail(s)[i] = s[i + 1]
        OBVIOUS
    <1>2. Head(s) \in Range(s)
        <2>1. 1 \in DOMAIN s
            BY <1>1
        <2> QED BY <1>1, <2>1 DEF Range
    <1>3. IsInjective(Tail(s))
        <2> SUFFICES ASSUME NEW a \in 1 .. Len(s) - 1, NEW b \in 1 .. Len(s) - 1,
                            Tail(s)[a] = Tail(s)[b]
                     PROVE  a = b
            BY <1>1 DEF IsInjective
        <2>1. a + 1 \in DOMAIN s /\ b + 1 \in DOMAIN s /\ s[a + 1] = s[b + 1]
            BY <1>1
        <2>2. a + 1 = b + 1
            BY <2>1 DEF IsInjective
        <2> QED BY <2>2
    <1>4. \A i \in 1 .. Len(s) - 1 : Tail(s)[i] \in Range(s) /\ Tail(s)[i] # Head(s)
        <2> SUFFICES ASSUME NEW i \in 1 .. Len(s) - 1
                     PROVE  s[i + 1] \in Range(s) /\ s[i + 1] # s[1]
            BY <1>1
        <2>1. i + 1 \in DOMAIN s /\ 1 \in DOMAIN s /\ i + 1 # 1
            BY <1>1
        <2> QED BY <2>1 DEF Range, IsInjective
    <1>5. ASSUME NEW i \in 1 .. Len(s), s[i] # Head(s) PROVE s[i] \in Range(Tail(s))
        <2>1. i - 1 \in 1 .. Len(s) - 1 /\ (i - 1) + 1 = i
            BY <1>1, <1>5
        <2>2. Tail(s)[i - 1] = s[i]
            BY <1>1, <2>1
        <2> QED BY <1>1, <2>1, <2>2 DEF Range
    <1>6. Range(Tail(s)) \subseteq Range(s) \ {Head(s)}
        BY <1>1, <1>4 DEF Range
    <1>7. Range(s) \ {Head(s)} \subseteq Range(Tail(s))
        BY <1>1, <1>5 DEF Range
    <1> QED BY <1>1, <1>2, <1>3, <1>6, <1>7

\* An element put before a sequence it is not in.
LEMMA PutBefore ==
    ASSUME NEW S, NEW s \in Seq(S), NEW o \in S, IsInjective(s), o \notin Range(s)
    PROVE  /\ <<o>> \o s \in Seq(S) /\ IsInjective(<<o>> \o s)
           /\ Range(<<o>> \o s) = {o} \cup Range(s)
    <1> DEFINE one == <<o>>
    <1>1. one \in Seq(S) /\ IsInjective(one) /\ Range(one) = {o}
        BY DEF IsInjective, Range
    <1> HIDE DEF one
    <1>2. Range(one) \cap Range(s) = {}
        BY <1>1
    <1>3. /\ one \o s \in Seq(S) /\ IsInjective(one \o s)
          /\ Range(one \o s) = Range(one) \cup Range(s)
        BY <1>1, <1>2, ConcatInjective
    <1> QED BY <1>1, <1>3 DEF one

LEMMA EmptyRange == Range(<<>>) = {} /\ IsInjective(<<>>)
    BY DEF Range, IsInjective

-----------------------------------------------------------------------------
\* The moves of the collector and of the program that touch neither the queue nor
\* its marks.
LEMMA QuietQueueInv ==
    ASSUME QueueInv,
           \/ MarkRoot \/ Propagate \/ RemarkWeak \/ RemarkAgain \/ SweepEnd \/ EndCycle
           \/ \E o \in Holders : New(o)
           \/ \E s \in Strings : NewString(s)
           \/ \E h \in Holders : Get(h)
           \/ \E o \in Objects : Drop(o)
           \/ \E t \in Tables, v \in Objects \cup {Nil} : SetTable(t, v)
           \/ \E u \in Udatas, e \in Tables : SetEnv(u, e)
           \/ \E t \in Tables : SetMode(t)
    PROVE  QueueInv'
    <1>1. /\ UNCHANGED <<tmudata, finalized, called, tosweep>>
          /\ gcstate' \notin {"sweepstring", "sweep"} =>
               gcstate \notin {"sweepstring", "sweep"} \/ tosweep = {}
        BY DEF MarkRoot, Propagate, RemarkWeak, RemarkAgain, SweepEnd, EndCycle, New,
               NewString, Get, Drop, SetTable, SetEnv, SetMode, Marking, marks
    <1> QED BY <1>1, QueueFrame DEF QueueInv

\* What is put before the sweep never waits in tmudata.
LEMMA ToSweepQueueInv == QueueInv /\ (ClearAndFlip \/ FullGC) => QueueInv'
    <1> SUFFICES ASSUME QueueInv, ClearAndFlip \/ FullGC PROVE QueueInv'
        OBVIOUS
    <1>1. CASE ClearAndFlip
        <2>1. UNCHANGED <<tmudata, finalized, called>> /\ gcstate' = "sweepstring"
              /\ tosweep' = alloc \ Range(tmudata)
            BY <1>1 DEF ClearAndFlip
        <2> QED BY <2>1, QueueFrame
    <1>2. CASE FullGC
        <2>1. /\ UNCHANGED <<tmudata, finalized, called>>
              /\ \/ gcstate' = "sweepstring" /\ tosweep' = alloc \ Range(tmudata)
                 \/ UNCHANGED <<gcstate, tosweep>>
            BY <1>2 DEF FullGC
        <2> QED BY <2>1, QueueFrame DEF QueueInv
    <1> QED BY <1>1, <1>2

\* A userdata that is freed loses its marks, and is not one that waits.
LEMMA SweepQueueInv == QueueInv /\ Sweep => QueueInv'
    <1> SUFFICES ASSUME QueueInv, Sweep PROVE QueueInv'
        OBVIOUS
    <1>1. PICK o \in tosweep :
              /\ tosweep' = tosweep \ {o}
              /\ \/ finalized' = finalized \ {o} /\ called' = called \ {o}
                 \/ UNCHANGED <<finalized, called>>
        BY DEF Sweep
    <1>2. UNCHANGED <<tmudata, gcstate>> /\ gcstate \in {"sweepstring", "sweep"}
        BY DEF Sweep
    <1>3. o \notin Range(tmudata)
        BY DEF QueueInv
    <1> QED BY <1>1, <1>2, <1>3 DEF QueueInv

\* Only userdata not looked at before are queued.
LEMMA SeparateQueueInv == QueueInv /\ Separate => QueueInv'
    <1> SUFFICES ASSUME QueueInv, Separate PROVE QueueInv'
        OBVIOUS
    <1> DEFINE new == Unfinalized \cap Finalizable
    <1>1. PICK dead \in SetToSeqs(new) : tmudata' = tmudata \o dead
        BY DEF Separate
    <1>2. /\ finalized' = finalized \cup Unfinalized /\ UNCHANGED <<called, tosweep>>
          /\ gcstate = "again" /\ gcstate' = "tmu"
        BY DEF Separate
    <1>3. IsFiniteSet(new)
        <2>1. new \subseteq Objects
            BY DEF Unfinalized, Objects, Holders
        <2> QED BY <2>1, HeapAssumption, FS_Subset
    <1>4. dead \in Seq(new) /\ IsInjective(dead) /\ Range(dead) \subseteq new
        BY <1>1, <1>3, SetToSeqsType
    <1>5. dead \in Seq(Finalizable) /\ tmudata \in Seq(Finalizable)
        BY <1>4 DEF QueueInv
    <1>6. new \cap finalized = {} /\ new \subseteq Unfinalized
        BY DEF Unfinalized
    <1>7. Range(tmudata) \cap Range(dead) = {} /\ Range(dead) \cap called = {}
        BY <1>4, <1>6 DEF QueueInv
    <1>8. /\ tmudata' \in Seq(Finalizable) /\ IsInjective(tmudata')
          /\ Range(tmudata') = Range(tmudata) \cup Range(dead)
        <2>1. IsInjective(tmudata) /\ IsInjective(dead)
            BY <1>4 DEF QueueInv
        <2>2. /\ tmudata \o dead \in Seq(Finalizable) /\ IsInjective(tmudata \o dead)
              /\ Range(tmudata \o dead) = Range(tmudata) \cup Range(dead)
            BY <1>5, <1>7, <2>1, ConcatInjective
        <2> QED BY <1>1, <2>2
    <1>9. tosweep' = {}
        BY <1>2 DEF QueueInv
    <1> QED BY <1>2, <1>4, <1>6, <1>7, <1>8, <1>9 DEF QueueInv

\* The userdata called leaves the queue for good.
LEMMA CallTMQueueInv == QueueInv /\ CallTM => QueueInv'
    <1> SUFFICES ASSUME QueueInv, CallTM PROVE QueueInv'
        OBVIOUS
    <1>1. /\ tmudata # <<>> /\ tmudata' = Tail(tmudata)
          /\ called' = called \cup {Head(tmudata)}
          /\ UNCHANGED <<finalized, gcstate, tosweep>>
        BY DEF CallTM
    <1>2. /\ Head(tmudata) \in Range(tmudata) /\ tmudata' \in Seq(Finalizable)
          /\ IsInjective(tmudata') /\ Range(tmudata') = Range(tmudata) \ {Head(tmudata)}
        BY <1>1, TailInjective DEF QueueInv
    <1> QED BY <1>1, <1>2 DEF QueueInv

\* Every step keeps QueueInv.
LEMMA NextQueueInv == QueueInv /\ [Next]_vars => QueueInv'
    <1> SUFFICES ASSUME QueueInv, [Next]_vars PROVE QueueInv'
        OBVIOUS
    <1>1. CASE UNCHANGED vars
        BY <1>1, QueueFrame DEF vars, QueueInv
    <1>2. CASE Collector
        BY <1>2, QuietQueueInv, ToSweepQueueInv, SweepQueueInv, SeparateQueueInv,
           CallTMQueueInv DEF Collector
    <1>3. CASE Program
        BY <1>3, QuietQueueInv, ToSweepQueueInv DEF Program
    <1> QED BY <1>1, <1>2, <1>3 DEF Next

\* No __gc metamethod is called twice for one userdata, whatever its finalizer and
\* the program do with it, in incremental and in full collections (lgc.c:128, 445).
THEOREM FinalizersOnce == Spec => []FinalizedOnce
    <1>1. QueueInv => FinalizedOnce
        BY DEF QueueInv, FinalizedOnce
    <1> QED BY <1>1, InitQueueInv, NextQueueInv, PTL DEF Spec

-----------------------------------------------------------------------------
(* The invariant                                                           *)

\* The lists are sequences of what can be on them, and an environment is a table.
KindInv ==
    /\ gray \in Seq({Main} \cup Tables) /\ grayagain \in Seq({Main} \cup Tables)
    /\ weak \in Seq(Tables)
    /\ \A u \in Udatas : ref[u] \in Tables \cup {Nil}

\* Only what is before the sweep is dead, and what is not marked, before the sweep or
\* in tmudata has the current white.
ColorInv ==
    /\ color[Main] # "dead"
    /\ \A o \in alloc : color[o] = "dead" => o \in tosweep
    /\ gcstate \notin Marking =>
           \A o \in alloc \ (tosweep \cup Range(tmudata)) : color[o] = "white"

\* While marking, the gray objects that have references are on one list, once.
Listed == Range(gray) \cup Range(grayagain) \cup Range(weak)

ListInv ==
    gcstate \in Marking =>
        /\ IsInjective(gray) /\ IsInjective(grayagain) /\ IsInjective(weak)
        /\ Range(gray) \cap Range(grayagain) = {} /\ Range(gray) \cap Range(weak) = {}
        /\ Range(grayagain) \cap Range(weak) = {}
        /\ \A o \in {Main} \cup Tables : o \in Listed <=> o \in alloc /\ color[o] = "gray"

\* What the stages of atomic() have seen to.  The thread is traversed after the
\* program's last step, and from then on the stack is marked; then tmudata is, and
\* each white userdata has been looked at.
StackMarked == \A o \in stack : ~IsWhite(color, o)

AtomicInv ==
    /\ gcstate \in Marking => \A o \in {Main} \cup Roots : ~IsWhite(color, o)
    /\ gcstate \in {"again", "tmu"} => Range(grayagain) \subseteq {Main}
    /\ gcstate = "again" => Main \in Range(gray) \/ StackMarked
    /\ gcstate = "tmu" =>
           /\ StackMarked
           /\ \A u \in Range(tmudata) :
                  color[u] = "black" /\ (ref[u] = Nil \/ ~IsWhite(color, ref[u]))
           /\ \A u \in Udatas \cap alloc : IsWhite(color, u) => u \in finalized

\* A userdata with __gc that was looked at waits or was called, and one that is dead
\* was looked at.
LookedAtInv ==
    /\ finalized \cap Finalizable \subseteq called \cup Range(tmudata)
    /\ \A u \in Udatas \cap alloc : color[u] = "dead" => u \in finalized

GCInv ==
    /\ TypeOK /\ QueueInv /\ KindInv /\ ColorInv /\ ListInv /\ AtomicInv
    /\ TriColour /\ NoDangling

-----------------------------------------------------------------------------
(* Facts about every state                                                 *)

LEMMA Kinds ==
    /\ Main \in Objects /\ Roots \subseteq Tables /\ Globals \in Tables
    /\ Tables \subseteq Holders /\ Udatas \subseteq Holders /\ Holders \subseteq Objects
    /\ Strings \subseteq Objects /\ Finalizable \subseteq Udatas
    /\ Main \notin Tables /\ Main \notin Udatas /\ Main \notin Strings /\ Main \notin Holders
    /\ Tables \cap Udatas = {} /\ Tables \cap Strings = {} /\ Udatas \cap Strings = {}
    /\ Holders \cap Strings = {}
    /\ Nil \notin Objects /\ IsFiniteSet(Objects)
    /\ Objects = {Main} \cup Tables \cup Udatas \cup Strings
    BY HeapAssumption DEF Objects, Holders, Roots

\* What marking objs comes to: some white objects W are coloured, those of objs and
\* the environments of the userdata among them, and the ones with references are
\* put before the gray list.
Marked(objs, c, g, m) ==
    \E W \in SUBSET Objects, linked \in Seq({Main} \cup Tables) :
        /\ m.gray = linked \o g /\ IsInjective(linked)
        /\ Range(linked) = W \cap ({Main} \cup Tables)
        /\ m.color = [o \in Objects |-> IF o \in W THEN Shade(o) ELSE c[o]]
        /\ \A o \in W : /\ IsWhite(c, o)
                        /\ o \in objs \/ \E u \in objs \cap Udatas : o = ref[u]
        /\ \A o \in objs \ W : ~IsWhite(c, o)
        /\ \A u \in W \cap Udatas : ref[u] = Nil \/ ref[u] \in W \/ ~IsWhite(c, ref[u])

LEMMA Marks ==
    ASSUME KindInv, ref \in [Holders -> Objects \cup {Nil}],
           NEW c \in [Objects -> Colors], NEW g, NEW objs \in SUBSET Objects,
           NEW m \in MarkObjects(objs, [color |-> c, gray |-> g])
    PROVE  Marked(objs, c, g, m)
    <1> DEFINE W == Whites(c, objs)
    <1>1. PICK linked \in SetToSeqs(W \cap ({Main} \cup Tables)) :
              m = [color |-> [o \in Objects |-> IF o \in W THEN Shade(o) ELSE c[o]],
                   gray  |-> linked \o g]
        BY DEF MarkObjects
    <1>2. W \in SUBSET Objects
        BY Kinds DEF Whites
    <1>3. /\ \A o \in W : /\ IsWhite(c, o)
                          /\ o \in objs \/ \E u \in objs \cap Udatas : o = ref[u]
          /\ \A o \in objs \ W : ~IsWhite(c, o)
        BY DEF Whites
    <1>4. ASSUME NEW u \in W \cap Udatas
          PROVE  ref[u] = Nil \/ ref[u] \in W \/ ~IsWhite(c, ref[u])
        <2>1. u \in objs
            BY <1>3, Kinds DEF KindInv
        <2> QED BY <1>3, <2>1 DEF Whites
    <1> HIDE DEF W
    <1>5. IsFiniteSet(W \cap ({Main} \cup Tables))
        BY <1>2, Kinds, FS_Subset
    <1>6. /\ linked \in Seq({Main} \cup Tables) /\ IsInjective(linked)
          /\ Range(linked) = W \cap ({Main} \cup Tables)
        <2>1. linked \in Seq(W \cap ({Main} \cup Tables)) /\ IsInjective(linked)
              /\ Range(linked) = W \cap ({Main} \cup Tables)
            BY <1>5, SetToSeqsType
        <2> QED BY <2>1
    <1>7. /\ m.gray = linked \o g
          /\ m.color = [o \in Objects |-> IF o \in W THEN Shade(o) ELSE c[o]]
        BY <1>1
    <1> QED BY <1>2, <1>3, <1>4, <1>6, <1>7 DEF Marked

\* The steps of which every live object comes out alive, and that refer to live objects
\* where they write at all.
LEMMA DanglingFrame ==
    ASSUME NoDangling,
           \A o \in Objects : Stays(o) => o \in alloc' /\ color'[o] # "dead",
           stack \cup Roots \cup Range(tmudata) \subseteq Objects,
           ref \in [Holders -> Objects \cup {Nil}],
           \A o \in stack' \cup Range(tmudata') :
               \/ o \in stack \cup Range(tmudata)
               \/ o \in alloc' /\ color'[o] # "dead",
           \A h \in Holders : h \in alloc' /\ color'[h] # "dead" =>
               \/ Stays(h) /\ ref'[h] = ref[h]
               \/ ref'[h] = Nil
               \/ ref'[h] \in alloc' /\ color'[ref'[h]] # "dead"
    PROVE  NoDangling'
    <1>1. ASSUME NEW o \in stack' \cup Roots \cup Range(tmudata')
          PROVE  o \in alloc' /\ color'[o] # "dead"
        BY DEF NoDangling
    <1>2. ASSUME NEW h \in Holders, h \in alloc' /\ color'[h] # "dead"
          PROVE  ref'[h] = Nil \/ (ref'[h] \in alloc' /\ color'[ref'[h]] # "dead")
        BY <1>2 DEF NoDangling
    <1> QED BY <1>1, <1>2 DEF NoDangling, Stays

\* Nothing that is allocated is dead before the sweep or after it.
LEMMA AllStay ==
    ASSUME GCInv, gcstate \notin {"sweepstring", "sweep"}
    PROVE  /\ tosweep = {} /\ \A o \in alloc : color[o] # "dead"
           /\ stack \cup Roots \cup Range(tmudata) \cup {Main} \subseteq alloc
           /\ \A h \in Holders \cap alloc : ref[h] = Nil \/ ref[h] \in alloc
           /\ alloc \subseteq Objects
    <1>1. tosweep = {}
        BY DEF GCInv, QueueInv
    <1>2. \A o \in alloc : color[o] # "dead"
        BY <1>1 DEF GCInv, ColorInv
    <1>3. stack \cup Roots \cup Range(tmudata) \cup {Main} \subseteq alloc /\ alloc \subseteq Objects
        BY DEF GCInv, NoDangling, Stays, TypeOK
    <1>4. \A h \in Holders \cap alloc : ref[h] = Nil \/ ref[h] \in alloc
        BY <1>2 DEF GCInv, NoDangling, Stays
    <1> QED BY <1>1, <1>2, <1>3, <1>4

\* While marking, nothing that is allocated is dead.
LEMMA MarkingAllStay ==
    ASSUME GCInv, gcstate \in Marking
    PROVE  /\ tosweep = {} /\ \A o \in alloc : color[o] # "dead"
           /\ stack \cup Roots \cup Range(tmudata) \cup {Main} \subseteq alloc
           /\ \A h \in Holders \cap alloc : ref[h] = Nil \/ ref[h] \in alloc
    BY AllStay DEF Marking

\* What is left of TypeOK for a step to show: the lists and the queue are kept elsewhere.
TypeParts ==
    /\ KindInv /\ QueueInv
    /\ alloc \subseteq Objects /\ {Main} \cup Roots \subseteq alloc
    /\ color \in [Objects -> Colors]
    /\ \A s \in Strings : color[s] # "black"
    /\ \A u \in Udatas : color[u] # "gray"
    /\ color[Main] # "black"
    /\ weakmode \subseteq Tables
    /\ ref \in [Holders -> Objects \cup {Nil}]
    /\ finalized \subseteq Udatas
    /\ stack \subseteq Objects
    /\ gcstate \in States /\ full \in {"no", "sweep", "cycle"}
    /\ tosweep \subseteq alloc

LEMMA TypeFromParts == TypeParts => TypeOK
    <1> SUFFICES ASSUME TypeParts PROVE TypeOK
        OBVIOUS
    <1> USE DEF TypeParts
    <1>1. Range(weak) \subseteq Tables
        BY DEF KindInv, Range
    <1>2. weak \in Seq({Main} \cup Tables)
        BY DEF KindInv
    <1>3. /\ Range(gray) \subseteq {Main} \cup Tables
          /\ Range(grayagain) \subseteq {Main} \cup Tables
        BY DEF KindInv, Range
    <1> DEFINE rest == grayagain \o weak
    <1>4. rest \in Seq({Main} \cup Tables) /\ Range(rest) = Range(grayagain) \cup Range(weak)
        BY <1>2, ConcatRange DEF KindInv
    <1>5. Lists = gray \o rest
        BY <1>2 DEF Lists, KindInv
    <1> HIDE DEF rest
    <1>6. Range(gray \o rest) = Range(gray) \cup Range(rest)
        BY <1>4, ConcatRange DEF KindInv
    <1>7. Range(Lists) \subseteq {Main} \cup Tables
        BY <1>1, <1>3, <1>4, <1>5, <1>6
    <1>8. Range(tmudata) \subseteq Finalizable
        BY DEF QueueInv, Range
    <1> QED BY <1>7, <1>8 DEF TypeOK, QueueInv

LEMMA TypeNext == TypeParts' => TypeOK'
    BY TypeFromParts, PTL

\* Outside the marking nothing is asked of the lists and the colours of references.
LEMMA NotMarking == gcstate \notin Marking => ListInv /\ AtomicInv /\ TriColour
    BY DEF ListInv, AtomicInv, TriColour, Marking

LEMMA NotMarkingNext == gcstate' \notin Marking => ListInv' /\ AtomicInv' /\ TriColour'
    BY DEF ListInv, AtomicInv, TriColour, Marking

\* The program runs in no stage of atomic().
LEMMA ProgramPhase ==
    ASSUME ProgramRuns
    PROVE  gcstate \in Marking => gcstate = "propagate"
    BY DEF ProgramRuns, Marking

\* A heap with nothing but the thread, the globals and the registry, all white.
LEMMA InitGC == Init => GCInv
    <1> SUFFICES ASSUME Init PROVE GCInv
        OBVIOUS
    <1>1. QueueInv
        BY InitQueueInv
    <1>2. KindInv
        BY Kinds DEF Init, KindInv
    <1>3. TypeOK
        <2>1. \A o \in Objects : color[o] = "white"
            BY DEF Init
        <2>2. /\ alloc \subseteq Objects /\ {Main} \cup Roots \subseteq alloc
              /\ color \in [Objects -> Colors] /\ weakmode \subseteq Tables
              /\ ref \in [Holders -> Objects \cup {Nil}]
              /\ finalized \subseteq Udatas /\ stack \subseteq Objects
              /\ gcstate \in States /\ full \in {"no", "sweep", "cycle"} /\ tosweep \subseteq alloc
            BY Kinds DEF Init, Colors, States
        <2> QED BY <1>1, <1>2, <2>1, <2>2, Kinds, TypeFromParts DEF TypeParts
    <1>4. ColorInv
        BY Kinds DEF Init, ColorInv
    <1>5. NoDangling
        BY Kinds, EmptyRange DEF Init, NoDangling, Stays
    <1>6. ListInv /\ AtomicInv /\ TriColour
        BY NotMarking DEF Init, Marking
    <1> QED BY <1>1, <1>2, <1>3, <1>4, <1>5, <1>6 DEF GCInv

-----------------------------------------------------------------------------
(* The program's steps                                                     *)

\* A new table or userdata is white, refers to the globals at most and is in hand.
LEMMA NewGC ==
    ASSUME GCInv, QueueInv', NEW o \in Holders, New(o)
    PROVE  GCInv'
    <1> USE DEF GCInv
    <1>1. /\ o \in Holders \ alloc /\ alloc' = alloc \cup {o}
          /\ color' = [color EXCEPT ![o] = "white"]
          /\ ref' = [ref EXCEPT ![o] = IF o \in Udatas THEN Globals ELSE Nil]
          /\ stack' = stack \cup {o}
          /\ UNCHANGED <<weakmode, finalized, called, gcstate, full, gray, grayagain, weak, tmudata, tosweep>>
          /\ ProgramRuns
        BY DEF New, PushValue
    <1>2. /\ color'[o] = "white" /\ \A x \in Objects : x # o => color'[x] = color[x]
          /\ ref'[o] \in {Globals, Nil} /\ \A h \in Holders : h # o => ref'[h] = ref[h]
          /\ o \in Udatas => ref'[o] = Globals
          /\ color' \in [Objects -> Colors] /\ ref' \in [Holders -> Objects \cup {Nil}]
        BY <1>1, Kinds DEF TypeOK, Colors
    <1>3. KindInv'
        BY <1>1, <1>2, Kinds DEF KindInv
    <1>4. TypeOK'
        <2>1. /\ \A s \in Strings : color'[s] # "black"
              /\ \A u \in Udatas : color'[u] # "gray"
              /\ color'[Main] # "black"
            BY <1>2, Kinds DEF TypeOK
        <2>2. alloc' \subseteq Objects /\ stack' \subseteq Objects /\ tosweep' \subseteq alloc'
              /\ {Main} \cup Roots \subseteq alloc'
            BY <1>1, Kinds DEF TypeOK
        <2>3. /\ weakmode' \subseteq Tables /\ finalized' \subseteq Udatas /\ gcstate' \in States
              /\ full' \in {"no", "sweep", "cycle"}
            BY <1>1 DEF TypeOK
        <2>4. TypeParts'
            BY <1>2, <1>3, <2>1, <2>2, <2>3 DEF TypeParts
        <2> QED BY <2>4, TypeNext
    <1>5. ColorInv'
        BY <1>1, <1>2, Kinds DEF ColorInv, TypeOK
    <1>6. NoDangling'
        <2>1. \A x \in Objects : Stays(x) => x \in alloc' /\ color'[x] # "dead"
            BY <1>1, <1>2 DEF Stays
        <2>2. Globals \in alloc' /\ color'[Globals] # "dead"
            BY <1>1, <1>2, Kinds DEF NoDangling, Stays, TypeOK, Roots
        <2>3. \A h \in Holders : h \in alloc' /\ color'[h] # "dead" =>
                  \/ Stays(h) /\ ref'[h] = ref[h]
                  \/ ref'[h] = Nil
                  \/ ref'[h] \in alloc' /\ color'[ref'[h]] # "dead"
            BY <1>1, <1>2, <2>2, Kinds DEF Stays
        <2> QED BY <1>1, <1>2, <2>1, <2>3, Kinds, DanglingFrame DEF TypeOK
    <1>7. CASE gcstate \notin Marking
        <2>1. gcstate' \notin Marking
            BY <1>1, <1>7
        <2> QED BY <1>3, <1>4, <1>5, <1>6, <2>1, NotMarkingNext
    <1>8. CASE gcstate \in Marking
        <2>1. gcstate = "propagate"
            BY <1>1, <1>8, ProgramPhase
        <2>2. ListInv'
            BY <1>1, <1>2, <1>8, Kinds DEF ListInv, Listed
        <2>3. AtomicInv'
            BY <1>1, <1>2, <1>8, <2>1, Kinds DEF AtomicInv, TypeOK, IsWhite
        <2>4. TriColour'
            BY <1>1, <1>2, <1>8, MarkingAllStay, Kinds DEF TriColour, IsWhite, TypeOK
        <2> QED BY <1>3, <1>4, <1>5, <1>6, <2>2, <2>3, <2>4
    <1> QED BY <1>7, <1>8

\* A string that is found may be dead: it is brought back before it is in hand.
LEMMA NewStringGC ==
    ASSUME GCInv, QueueInv', NEW s \in Strings, NewString(s)
    PROVE  GCInv'
    <1> USE DEF GCInv
    <1>1. /\ alloc' = alloc \cup {s} /\ stack' = stack \cup {s}
          /\ color' = IF s \in alloc THEN Resurrect(s) ELSE [color EXCEPT ![s] = "white"]
          /\ UNCHANGED <<weakmode, ref, finalized, gcstate, full, gray, grayagain, weak, tmudata, tosweep, called>>
          /\ ProgramRuns
        BY DEF NewString, PushValue
    <1>2. /\ \A x \in Objects : x # s => color'[x] = color[x]
          /\ color'[s] \in {"white", color[s]} /\ color'[s] # "dead"
          /\ color' \in [Objects -> Colors]
          /\ s \notin alloc => color'[s] = "white"
          /\ color'[s] # color[s] /\ s \in alloc => color[s] = "dead"
        BY <1>1, Kinds DEF TypeOK, Colors, Resurrect
    <1>3. KindInv'
        BY <1>1 DEF KindInv
    <1>4. TypeOK'
        <2>1. /\ \A x \in Strings : color'[x] # "black"
              /\ \A u \in Udatas : color'[u] # "gray"
              /\ color'[Main] # "black"
            BY <1>2, Kinds DEF TypeOK
        <2>2. /\ alloc' \subseteq Objects /\ stack' \subseteq Objects /\ tosweep' \subseteq alloc'
              /\ {Main} \cup Roots \subseteq alloc'
            BY <1>1, Kinds DEF TypeOK
        <2>3. /\ weakmode' \subseteq Tables /\ finalized' \subseteq Udatas /\ gcstate' \in States
              /\ full' \in {"no", "sweep", "cycle"} /\ ref' \in [Holders -> Objects \cup {Nil}]
            BY <1>1 DEF TypeOK
        <2>4. TypeParts'
            BY <1>2, <1>3, <2>1, <2>2, <2>3 DEF TypeParts
        <2> QED BY <2>4, TypeNext
    <1>5. ColorInv'
        <2>1. color'[Main] # "dead"
            BY <1>2, Kinds DEF ColorInv
        <2>2. \A o \in alloc' : color'[o] = "dead" => o \in tosweep'
            BY <1>1, <1>2 DEF ColorInv, TypeOK
        <2>3. ASSUME gcstate' \notin Marking, NEW o \in alloc' \ (tosweep' \cup Range(tmudata'))
              PROVE  color'[o] = "white"
            <3>1. CASE o = s
                BY <1>1, <1>2, <2>3, <3>1 DEF ColorInv
            <3>2. CASE o # s
                BY <1>1, <1>2, <2>3, <3>2 DEF ColorInv, TypeOK
            <3> QED BY <3>1, <3>2
        <2> QED BY <2>1, <2>2, <2>3 DEF ColorInv
    <1>6. NoDangling'
        <2>1. \A x \in Objects : Stays(x) => x \in alloc' /\ color'[x] # "dead"
            BY <1>1, <1>2 DEF Stays
        <2>2. \A h \in Holders : h \in alloc' /\ color'[h] # "dead" => Stays(h) /\ ref'[h] = ref[h]
            BY <1>1, <1>2, Kinds DEF Stays
        <2> QED BY <1>1, <1>2, <2>1, <2>2, Kinds, DanglingFrame DEF TypeOK
    <1>7. CASE gcstate \notin Marking
        <2>1. gcstate' \notin Marking
            BY <1>1, <1>7
        <2> QED BY <1>3, <1>4, <1>5, <1>6, <2>1, NotMarkingNext
    <1>8. CASE gcstate \in Marking
        <2>1. gcstate = "propagate"
            BY <1>1, <1>8, ProgramPhase
        <2>2. s \in alloc => color' = color
            BY <1>1, <1>8, MarkingAllStay DEF Resurrect, TypeOK
        <2>3. ListInv'
            BY <1>1, <1>2, <1>8, <2>2, Kinds DEF ListInv, Listed
        <2>4. AtomicInv'
            BY <1>1, <1>2, <1>8, <2>1, Kinds DEF AtomicInv, TypeOK, IsWhite
        <2>5. TriColour'
            BY <1>1, <1>2, <1>8, <2>2, MarkingAllStay, Kinds DEF TriColour, IsWhite, TypeOK
        <2> QED BY <1>3, <1>4, <1>5, <1>6, <2>3, <2>4, <2>5
    <1> QED BY <1>7, <1>8

\* What is read from a live holder is alive, and what is dropped is of no concern.
LEMMA HandGC ==
    ASSUME GCInv, QueueInv', ProgramRuns,
           \A o \in stack' : o \in stack \/ (o \in Objects /\ Stays(o)),
           UNCHANGED <<alloc, color, weakmode, ref, finalized, gcstate, full, gray, grayagain,
                       weak, tmudata, tosweep, called>>
    PROVE  GCInv'
    <1> USE DEF GCInv
    <1>1. KindInv' /\ ColorInv'
        BY DEF KindInv, ColorInv
    <1>2. TypeOK'
        <2>1. TypeParts'
            BY <1>1 DEF TypeOK, TypeParts
        <2> QED BY <2>1, TypeNext
    <1>3. NoDangling'
        BY DEF NoDangling, Stays
    <1>4. ListInv' /\ TriColour'
        BY DEF ListInv, Listed, TriColour
    <1>5. AtomicInv'
        BY ProgramPhase DEF AtomicInv, Marking
    <1> QED BY <1>1, <1>2, <1>3, <1>4, <1>5

LEMMA GetGC ==
    ASSUME GCInv, QueueInv', NEW h \in Holders, Get(h)
    PROVE  GCInv'
    <1>1. /\ h \in InHand /\ ref[h] # Nil /\ stack' = stack \cup {ref[h]} /\ ProgramRuns
          /\ UNCHANGED <<alloc, color, weakmode, ref, finalized, gcstate, full, gray, grayagain,
                         weak, tmudata, tosweep, called>>
        BY DEF Get, PushValue
    <1>2. ref[h] \in Objects /\ Stays(ref[h])
        BY <1>1 DEF GCInv, NoDangling, InHand, TypeOK
    <1> QED BY <1>1, <1>2, HandGC

LEMMA DropGC ==
    ASSUME GCInv, QueueInv', NEW o \in Objects, Drop(o)
    PROVE  GCInv'
    BY HandGC DEF Drop

\* A write to a live table, or a change of its mode: what makes a black table refer to
\* a white object turns it gray and links it into grayagain, on no list till then.
LEMMA TableGC ==
    ASSUME GCInv, QueueInv', ProgramRuns, NEW t \in Tables, Stays(t),
           NEW v \in stack \cup {Nil, ref[t]}, ref' = [ref EXCEPT ![t] = v],
           \/ color[t] = "black" /\ BarrierBack(t)
           \/ /\ UNCHANGED <<color, grayagain>>
              /\ gcstate \in Marking /\ color[t] = "black" => v = Nil \/ ~IsWhite(color, v),
           weakmode' \subseteq Tables,
           UNCHANGED <<alloc, finalized, stack, gcstate, full, gray, weak, tmudata, tosweep, called>>
    PROVE  GCInv'
    <1> USE DEF GCInv
    <1>1. /\ ref'[t] = v /\ \A h \in Holders : h # t => ref'[h] = ref[h]
          /\ ref' \in [Holders -> Objects \cup {Nil}]
        BY Kinds DEF TypeOK
    <1>2. /\ color' \in [Objects -> Colors]
          /\ \A x \in Objects : x # t => color'[x] = color[x]
          /\ \/ color[t] = "black" /\ color'[t] = "gray" /\ grayagain' = <<t>> \o grayagain
             \/ /\ UNCHANGED <<color, grayagain>>
                /\ gcstate \in Marking /\ color[t] = "black" => v = Nil \/ ~IsWhite(color, v)
        BY Kinds DEF TypeOK, BarrierBack, Colors
    <1>3. /\ \A x \in Objects : IsWhite(color', x) <=> IsWhite(color, x)
          /\ \A x \in Objects : color'[x] = "dead" <=> color[x] = "dead"
          /\ \A x \in Objects : color'[x] = "white" <=> color[x] = "white"
        BY <1>2 DEF IsWhite
    <1>4. t \in alloc /\ (gcstate \in Marking /\ color[t] = "black" => t \notin Listed)
        BY Kinds DEF Stays, ListInv
    <1>5. KindInv'
        <2>1. grayagain' \in Seq({Main} \cup Tables)
            <3>1. t \in {Main} \cup Tables /\ grayagain \in Seq({Main} \cup Tables)
                BY DEF KindInv
            <3>2. <<t>> \o grayagain \in Seq({Main} \cup Tables)
                BY <3>1
            <3> QED BY <1>2, <3>1, <3>2
        <2> QED BY <1>1, <2>1, Kinds DEF KindInv
    <1>6. TypeOK'
        <2>1. /\ \A s \in Strings : color'[s] # "black"
              /\ \A u \in Udatas : color'[u] # "gray"
              /\ color'[Main] # "black"
            BY <1>2, Kinds DEF TypeOK
        <2>2. TypeParts'
            BY <1>1, <1>2, <1>5, <2>1 DEF TypeOK, TypeParts
        <2> QED BY <2>2, TypeNext
    <1>7. ColorInv'
        BY <1>3, Kinds DEF ColorInv, TypeOK
    <1>8. NoDangling'
        <2>1. \A x \in Objects : Stays(x) => x \in alloc' /\ color'[x] # "dead"
            BY <1>3 DEF Stays
        <2>2. v = Nil \/ (v \in Objects /\ Stays(v))
            BY Kinds DEF NoDangling, TypeOK
        <2>3. \A h \in Holders : h \in alloc' /\ color'[h] # "dead" =>
                  \/ Stays(h) /\ ref'[h] = ref[h]
                  \/ ref'[h] = Nil
                  \/ ref'[h] \in alloc' /\ color'[ref'[h]] # "dead"
            BY <1>1, <1>3, <2>1, <2>2, Kinds DEF Stays
        <2> QED BY <2>1, <2>3, Kinds, DanglingFrame DEF TypeOK
    <1>9. CASE gcstate \notin Marking
        <2>1. gcstate' \notin Marking
            BY <1>9
        <2> QED BY <1>5, <1>6, <1>7, <1>8, <2>1, NotMarkingNext
    <1>10. CASE gcstate \in Marking
        <2>1. gcstate = "propagate"
            BY <1>10, ProgramPhase
        <2>2. ListInv'
            <3>1. CASE UNCHANGED <<color, grayagain>>
                BY <3>1 DEF ListInv, Listed
            <3>2. CASE color[t] = "black" /\ color'[t] = "gray" /\ grayagain' = <<t>> \o grayagain
                <4>1. t \notin Range(gray) /\ t \notin Range(grayagain) /\ t \notin Range(weak)
                    BY <1>4, <1>10, <3>2 DEF Listed
                <4>2. IsInjective(grayagain') /\ Range(grayagain') = {t} \cup Range(grayagain)
                    BY <1>10, <3>2, <4>1, PutBefore DEF KindInv, ListInv
                <4> QED BY <1>2, <1>4, <1>10, <3>2, <4>1, <4>2, Kinds DEF ListInv, Listed
            <3> QED BY <1>2, <3>1, <3>2
        <2>3. AtomicInv'
            BY <1>3, <1>10, <2>1, Kinds DEF AtomicInv
        <2>4. TriColour'
            <3> SUFFICES ASSUME NEW h \in (Holders \cap alloc) \ Range(tmudata),
                                color'[h] = "black", ref'[h] # Nil
                         PROVE  ~IsWhite(color', ref'[h])
                BY DEF TriColour
            <3>1. ref'[h] \in Objects
                BY <1>1
            <3>2. CASE h = t
                BY <1>1, <1>2, <1>3, <1>10, <3>1, <3>2
            <3>3. CASE h # t
                BY <1>1, <1>2, <1>3, <1>10, <3>1, <3>3, Kinds DEF TriColour
            <3> QED BY <3>2, <3>3
        <2> QED BY <1>5, <1>6, <1>7, <1>8, <2>2, <2>3, <2>4
    <1> QED BY <1>9, <1>10

LEMMA SetTableGC ==
    ASSUME GCInv, QueueInv', NEW t \in Tables, NEW v \in Objects \cup {Nil}, SetTable(t, v)
    PROVE  GCInv'
    <1>1. /\ ProgramRuns /\ t \in InHand /\ v \in stack \cup {Nil}
          /\ ref' = [ref EXCEPT ![t] = v]
          /\ \/ NeedsBack(t, v) /\ BarrierBack(t)
             \/ ~NeedsBack(t, v) /\ UNCHANGED <<color, grayagain>>
          /\ UNCHANGED <<weakmode, alloc, finalized, stack, gcstate, full, gray, weak, tmudata, tosweep, called>>
        BY DEF SetTable
    <1>2. Stays(t)
        BY <1>1 DEF GCInv, NoDangling, InHand
    <1>3. weakmode' \subseteq Tables
        BY <1>1 DEF GCInv, TypeOK
    <1>4. \/ color[t] = "black" /\ BarrierBack(t)
          \/ /\ UNCHANGED <<color, grayagain>>
             /\ gcstate \in Marking /\ color[t] = "black" => v = Nil \/ ~IsWhite(color, v)
        BY <1>1 DEF NeedsBack
    <1> QED BY <1>1, <1>2, <1>3, <1>4, TableGC

LEMMA SetModeGC ==
    ASSUME GCInv, QueueInv', NEW t \in Tables, SetMode(t)
    PROVE  GCInv'
    <1>1. /\ ProgramRuns /\ t \in stack
          /\ weakmode' \in {weakmode \ {t}, weakmode \cup {t}}
          /\ \/ color[t] = "black" /\ BarrierBack(t)
             \/ UNCHANGED <<color, grayagain>>
          /\ UNCHANGED <<alloc, ref, finalized, stack, gcstate, full, gray, weak, tmudata, tosweep, called>>
        BY DEF SetMode
    <1>2. Stays(t) /\ weakmode' \subseteq Tables /\ t \in alloc
        BY <1>1 DEF GCInv, NoDangling, TypeOK, Stays
    <1>3. ref' = [ref EXCEPT ![t] = ref[t]]
        BY <1>1, Kinds DEF GCInv, TypeOK
    <1>4. t \notin Range(tmudata)
        BY Kinds DEF GCInv, TypeOK
    <1>5. gcstate \in Marking /\ color[t] = "black" => ref[t] = Nil \/ ~IsWhite(color, ref[t])
        BY <1>2, <1>4, Kinds DEF GCInv, TriColour
    <1> QED BY <1>1, <1>2, <1>3, <1>5, TableGC

\* A new environment: the forward barrier marks it while marking, and otherwise makes
\* the userdata white again.
LEMMA SetEnvGC ==
    ASSUME GCInv, QueueInv', NEW u \in Udatas, NEW e \in Tables, SetEnv(u, e)
    PROVE  GCInv'
    <1> USE DEF GCInv
    <1>1. /\ ProgramRuns /\ u \in stack /\ e \in InHand
          /\ ref' = [ref EXCEPT ![u] = e]
          /\ \/ NeedsForward(u, e) /\ BarrierForward(u, e)
             \/ ~NeedsForward(u, e) /\ UNCHANGED <<color, gray>>
          /\ UNCHANGED <<weakmode, alloc, finalized, stack, gcstate, full, grayagain, weak, tmudata, tosweep, called>>
        BY DEF SetEnv
    <1>2. /\ ref'[u] = e /\ \A h \in Holders : h # u => ref'[h] = ref[h]
          /\ ref' \in [Holders -> Objects \cup {Nil}]
        BY <1>1, Kinds DEF TypeOK
    <1>3. Stays(u) /\ Stays(e) /\ u \in alloc /\ e \in alloc /\ color[e] # "dead"
        BY <1>1 DEF NoDangling, InHand, Stays
    <1>4. \/ NeedsForward(u, e) /\ gcstate = "propagate"
             /\ \E m \in MarkObjects({e}, Mark) : color' = m.color /\ gray' = m.gray
          \/ NeedsForward(u, e) /\ gcstate # "propagate"
             /\ color' = [color EXCEPT ![u] = "white"] /\ UNCHANGED gray
          \/ ~NeedsForward(u, e) /\ UNCHANGED <<color, gray>>
        BY <1>1 DEF BarrierForward
    <1>5. ASSUME KindInv', color' \in [Objects -> Colors],
                 \A o \in Objects : color'[o] = color[o] \/ (o = e /\ color'[o] = "gray")
                                                         \/ (o = u /\ color'[o] = "white")
          PROVE  TypeOK' /\ NoDangling'
        <2>1. /\ \A s \in Strings : color'[s] # "black"
              /\ \A x \in Udatas : color'[x] # "gray"
              /\ color'[Main] # "black"
            BY <1>5, Kinds DEF TypeOK
        <2>2. TypeParts'
            BY <1>1, <1>2, <1>5, <2>1 DEF TypeOK, TypeParts
        <2>3. \A x \in Objects : Stays(x) => x \in alloc' /\ color'[x] # "dead"
            BY <1>1, <1>5 DEF Stays
        <2>4. \A h \in Holders : h \in alloc' /\ color'[h] # "dead" =>
                  \/ Stays(h) /\ ref'[h] = ref[h]
                  \/ ref'[h] = Nil
                  \/ ref'[h] \in alloc' /\ color'[ref'[h]] # "dead"
            <3>1. e \in alloc' /\ color'[e] # "dead"
                BY <1>3, <2>3, Kinds
            <3> SUFFICES ASSUME NEW h \in Holders, h \in alloc', color'[h] # "dead", h # u
                         PROVE  Stays(h) /\ ref'[h] = ref[h]
                BY <1>2, <3>1
            <3>2. h # e => color[h] = color'[h]
                BY <1>5, Kinds
            <3> QED BY <1>1, <1>2, <1>3, <3>2 DEF Stays
        <2> QED BY <1>1, <2>2, <2>3, <2>4, TypeNext, Kinds, DanglingFrame DEF TypeOK
    <1>6. CASE ~NeedsForward(u, e) /\ UNCHANGED <<color, gray>>
        <2>1. KindInv'
            BY <1>1, <1>2, <1>6, Kinds DEF KindInv
        <2>2. color' \in [Objects -> Colors]
            BY <1>6 DEF TypeOK
        <2>3. ColorInv'
            BY <1>1, <1>6 DEF ColorInv
        <2>4. ListInv'
            BY <1>1, <1>6 DEF ListInv, Listed
        <2>5. AtomicInv'
            <3>1. gcstate' \notin {"again", "tmu"}
                BY <1>1, ProgramPhase DEF Marking
            <3> QED BY <1>1, <1>6, <3>1 DEF AtomicInv
        <2>6. TriColour'
            <3> SUFFICES ASSUME gcstate \in Marking, NEW h \in (Holders \cap alloc) \ Range(tmudata),
                                color[h] = "black", ref'[h] # Nil
                         PROVE  ~IsWhite(color, ref'[h])
                BY <1>1, <1>6 DEF TriColour
            <3>1. CASE h = u
                BY <1>2, <1>6, <3>1 DEF NeedsForward
            <3>2. CASE h # u
                BY <1>2, <3>2 DEF TriColour
            <3> QED BY <3>1, <3>2
        <2> QED BY <1>5, <1>6, <2>1, <2>2, <2>3, <2>4, <2>5, <2>6
    <1>7. CASE /\ NeedsForward(u, e) /\ gcstate # "propagate"
               /\ color' = [color EXCEPT ![u] = "white"] /\ UNCHANGED gray
        <2>1. KindInv'
            BY <1>1, <1>2, <1>7, Kinds DEF KindInv
        <2>2. /\ color' \in [Objects -> Colors] /\ color'[u] = "white"
              /\ \A o \in Objects : o # u => color'[o] = color[o]
            BY <1>7, Kinds DEF TypeOK, Colors
        <2>3. gcstate' \notin Marking
            BY <1>1, <1>7, ProgramPhase
        <2>4. ColorInv'
            BY <1>1, <1>7, <2>2, Kinds DEF ColorInv, TypeOK
        <2>5. TypeOK' /\ NoDangling'
            BY <1>5, <2>1, <2>2
        <2> QED BY <2>1, <2>3, <2>4, <2>5, NotMarkingNext
    <1>8. CASE /\ NeedsForward(u, e) /\ gcstate = "propagate"
               /\ \E m \in MarkObjects({e}, Mark) : color' = m.color /\ gray' = m.gray
        <2>1. PICK m \in MarkObjects({e}, [color |-> color, gray |-> gray]) :
                  color' = m.color /\ gray' = m.gray
            BY <1>8 DEF Mark
        <2>2. PICK W \in SUBSET Objects, linked \in Seq({Main} \cup Tables) :
                  /\ m.gray = linked \o gray /\ IsInjective(linked)
                  /\ Range(linked) = W \cap ({Main} \cup Tables)
                  /\ m.color = [o \in Objects |-> IF o \in W THEN Shade(o) ELSE color[o]]
                  /\ \A o \in W : /\ IsWhite(color, o)
                                  /\ o \in {e} \/ \E x \in {e} \cap Udatas : o = ref[x]
                  /\ \A o \in {e} \ W : ~IsWhite(color, o)
                  /\ \A x \in W \cap Udatas :
                         ref[x] = Nil \/ ref[x] \in W \/ ~IsWhite(color, ref[x])
            <3>1. {e} \in SUBSET Objects /\ color \in [Objects -> Colors]
                  /\ ref \in [Holders -> Objects \cup {Nil}] /\ KindInv
                BY Kinds DEF TypeOK
            <3>2. Marked({e}, color, gray, m)
                BY <2>1, <3>1, Marks
            <3> HIDE DEF GCInv
            <3> QED BY <3>2 DEF Marked
        <2>3. W = {e} /\ IsWhite(color, e) /\ e \in Objects /\ e \notin Udatas
            <3>1. IsWhite(color, e) /\ e \in Objects /\ e \notin Udatas
                BY <1>8, Kinds DEF NeedsForward
            <3>2. e \in W /\ \A o \in W : o = e
                BY <2>2, <3>1
            <3> QED BY <3>1, <3>2
        <2>4. /\ color'[e] = "gray" /\ \A o \in Objects : o # e => color'[o] = color[o]
              /\ color' \in [Objects -> Colors]
            BY <2>1, <2>2, <2>3 DEF Shade, TypeOK, Colors
        <2>5. e \notin Listed /\ Range(linked) = {e} /\ gcstate \in Marking
            BY <1>8, <2>2, <2>3 DEF ListInv, IsWhite, Marking
        <2>6. /\ gray' \in Seq({Main} \cup Tables) /\ IsInjective(gray')
              /\ Range(gray') = {e} \cup Range(gray)
            <3>1. gray' = linked \o gray
                BY <2>1, <2>2
            <3> QED BY <2>2, <2>5, <3>1, ConcatInjective DEF KindInv, ListInv, Listed
        <2>7. KindInv'
            BY <1>1, <1>2, <2>6, Kinds DEF KindInv
        <2>8. ColorInv'
            <3>1. \A o \in Objects : color'[o] = "dead" => color[o] = "dead"
                BY <2>4
            <3> QED BY <1>1, <2>5, <3>1, Kinds DEF ColorInv, TypeOK
        <2>9. ListInv'
            BY <1>1, <1>3, <2>4, <2>5, <2>6, Kinds DEF ListInv, Listed
        <2>10. \A o \in Objects : ~IsWhite(color, o) => ~IsWhite(color', o)
            BY <2>4 DEF IsWhite
        <2>11. AtomicInv'
            BY <1>1, <1>8, <2>5, <2>10, Kinds DEF AtomicInv
        <2>12. TriColour'
            <3> SUFFICES ASSUME NEW h \in (Holders \cap alloc) \ Range(tmudata),
                                color'[h] = "black", ref'[h] # Nil
                         PROVE  ~IsWhite(color', ref'[h])
                BY <1>1 DEF TriColour
            <3>1. CASE h = u
                BY <1>2, <2>4, <3>1 DEF IsWhite
            <3>2. CASE h # u
                <4>1. color[h] = "black" /\ ref'[h] = ref[h] /\ ref[h] \in Objects
                    BY <1>2, <2>4, <3>2, Kinds DEF TypeOK
                <4>2. ~IsWhite(color, ref[h])
                    BY <2>5, <4>1 DEF TriColour
                <4> QED BY <2>10, <4>1, <4>2
            <3> QED BY <3>1, <3>2
        <2>13. TypeOK' /\ NoDangling'
            BY <1>5, <2>4, <2>7
        <2> QED BY <2>7, <2>8, <2>9, <2>11, <2>12, <2>13
    <1> QED BY <1>4, <1>6, <1>7, <1>8

\* A full collection begins: it gives up the marking, or goes on with the sweep.
LEMMA FullGCGC == GCInv /\ QueueInv' /\ FullGC => GCInv'
    <1> SUFFICES ASSUME GCInv, QueueInv', FullGC PROVE GCInv'
        OBVIOUS
    <1> USE DEF GCInv
    <1>1. /\ ProgramRuns /\ full' = "sweep"
          /\ \/ /\ gcstate' = "sweepstring" /\ tosweep' = alloc \ Range(tmudata)
                /\ gcstate \in {"pause", "propagate"}
                /\ gray' = <<>> /\ grayagain' = <<>> /\ weak' = <<>>
             \/ /\ gcstate \notin {"pause", "propagate"}
                /\ UNCHANGED <<gcstate, tosweep, gray, grayagain, weak>>
          /\ UNCHANGED <<weakmode, alloc, color, ref, finalized, stack, tmudata, called>>
        BY DEF FullGC
    <1>2. gcstate' \notin Marking
        BY <1>1, ProgramPhase DEF Marking
    <1>3. KindInv'
        <2>1. <<>> \in Seq({Main} \cup Tables) /\ <<>> \in Seq(Tables)
            OBVIOUS
        <2>2. /\ gray' \in Seq({Main} \cup Tables) /\ grayagain' \in Seq({Main} \cup Tables)
              /\ weak' \in Seq(Tables)
            BY <1>1, <2>1 DEF KindInv
        <2> QED BY <1>1, <2>2 DEF KindInv
    <1>4. TypeOK'
        <2>1. gcstate' \in States /\ tosweep' \subseteq alloc
            BY <1>1 DEF TypeOK, States
        <2>2. TypeParts'
            BY <1>1, <1>3, <2>1 DEF TypeOK, TypeParts
        <2> QED BY <2>2, TypeNext
    <1>5. ColorInv'
        <2>1. CASE gcstate' = "sweepstring" /\ tosweep' = alloc \ Range(tmudata)
                   /\ gcstate \in {"pause", "propagate"}
            <3>1. tosweep = {}
                BY <2>1 DEF QueueInv
            <3> QED BY <1>1, <2>1, <3>1 DEF ColorInv
        <2>2. CASE UNCHANGED <<gcstate, tosweep, gray, grayagain, weak>>
            BY <1>1, <2>2 DEF ColorInv
        <2> QED BY <1>1, <2>1, <2>2
    <1>6. NoDangling'
        BY <1>1 DEF NoDangling, Stays
    <1> QED BY <1>2, <1>3, <1>4, <1>5, <1>6, NotMarkingNext

-----------------------------------------------------------------------------
(* The collector's steps while marking                                     *)

\* Marking, seen from the colours and the gray list it leaves.
Coloured(W, objs, c, g, m) ==
    /\ m.color \in [Objects -> Colors]
    /\ \A o \in W : /\ IsWhite(c, o)
                    /\ o \in objs \/ o \in Tables
                    /\ m.color[o] = IF o \in Udatas THEN "black" ELSE "gray"
    /\ \A o \in Objects \ W : m.color[o] = c[o]
    /\ \A o \in Objects : ~IsWhite(c, o) \/ o \in objs => ~IsWhite(m.color, o)
    /\ \A u \in W \cap Udatas : ref[u] = Nil \/ ~IsWhite(m.color, ref[u])
    /\ m.gray \in Seq({Main} \cup Tables) /\ IsInjective(m.gray)
    /\ Range(m.gray) = Range(g) \cup (W \cap ({Main} \cup Tables))

LEMMA MarkStep ==
    ASSUME KindInv, alloc \subseteq Objects, NEW c \in [Objects -> Colors],
           NEW objs \in SUBSET alloc, \A u \in objs \cap Udatas : ref[u] = Nil \/ ref[u] \in alloc,
           NEW g \in Seq({Main} \cup Tables), IsInjective(g), \A o \in Range(g) : ~IsWhite(c, o),
           NEW m, Marked(objs, c, g, m)
    PROVE  \E W \in SUBSET alloc : Coloured(W, objs, c, g, m)
    <1>1. PICK W \in SUBSET Objects, linked \in Seq({Main} \cup Tables) :
              /\ m.gray = linked \o g /\ IsInjective(linked)
              /\ Range(linked) = W \cap ({Main} \cup Tables)
              /\ m.color = [o \in Objects |-> IF o \in W THEN Shade(o) ELSE c[o]]
              /\ \A o \in W : /\ IsWhite(c, o)
                              /\ o \in objs \/ \E u \in objs \cap Udatas : o = ref[u]
              /\ \A o \in objs \ W : ~IsWhite(c, o)
              /\ \A u \in W \cap Udatas : ref[u] = Nil \/ ref[u] \in W \/ ~IsWhite(c, ref[u])
        BY DEF Marked
    <1>2. /\ \A o \in W : m.color[o] = IF o \in Udatas THEN "black" ELSE "gray"
          /\ \A o \in Objects \ W : m.color[o] = c[o]
          /\ m.color \in [Objects -> Colors]
        BY <1>1 DEF Shade, Colors
    <1>3. \A o \in W : o \in alloc /\ (o \in objs \/ o \in Tables)
        <2> SUFFICES ASSUME NEW o \in W, o \notin objs PROVE o \in alloc /\ o \in Tables
            OBVIOUS
        <2>1. PICK u \in objs \cap Udatas : o = ref[u]
            BY <1>1
        <2>2. ref[u] # Nil
            BY <2>1, Kinds
        <2> QED BY <2>1, <2>2 DEF KindInv
    <1>4. \A o \in Objects : ~IsWhite(c, o) \/ o \in objs => ~IsWhite(m.color, o)
        BY <1>1, <1>2 DEF IsWhite
    <1>5. \A u \in W \cap Udatas : ref[u] = Nil \/ ~IsWhite(m.color, ref[u])
        <2> SUFFICES ASSUME NEW u \in W \cap Udatas, ref[u] # Nil PROVE ~IsWhite(m.color, ref[u])
            OBVIOUS
        <2>1. ref[u] \in Objects
            BY Kinds DEF KindInv
        <2> QED BY <1>1, <1>2, <2>1 DEF IsWhite
    <1>6. /\ m.gray \in Seq({Main} \cup Tables) /\ IsInjective(m.gray)
          /\ Range(m.gray) = Range(g) \cup (W \cap ({Main} \cup Tables))
        <2>1. Range(linked) \cap Range(g) = {}
            BY <1>1
        <2>2. /\ linked \o g \in Seq({Main} \cup Tables) /\ IsInjective(linked \o g)
              /\ Range(linked \o g) = Range(linked) \cup Range(g)
            BY <1>1, <2>1, ConcatInjective
        <2> QED BY <1>1, <2>2
    <1> QED BY <1>2, <1>3, <1>1, <1>4, <1>5, <1>6 DEF Coloured

\* What is left to show of a step that marks.
LEMMA MarkingGC ==
    ASSUME GCInv, QueueInv', gcstate \notin {"sweepstring", "sweep"}, gcstate' \in Marking,
           UNCHANGED <<alloc, ref, stack, weakmode>>,
           finalized' \subseteq Udatas, full' \in {"no", "sweep", "cycle"},
           color' \in [Objects -> Colors],
           \A s \in Strings : color'[s] # "black", \A u \in Udatas : color'[u] # "gray",
           color'[Main] # "black", \A o \in alloc : color'[o] # "dead",
           Range(tmudata') \subseteq alloc,
           KindInv', ListInv', AtomicInv', TriColour'
    PROVE  GCInv'
    <1>1. tosweep' = {}
        BY DEF QueueInv, Marking
    <1>2. /\ stack \cup Roots \cup {Main} \subseteq alloc /\ alloc \subseteq Objects
          /\ \A h \in Holders \cap alloc : ref[h] = Nil \/ ref[h] \in alloc
        BY AllStay
    <1>3. TypeOK'
        <2>1. gcstate' \in States /\ tosweep' \subseteq alloc'
            BY <1>1 DEF States
        <2>2. TypeParts'
            BY <1>2, <2>1 DEF GCInv, TypeOK, TypeParts
        <2> QED BY <2>2, TypeNext
    <1>4. ColorInv'
        BY <1>2 DEF ColorInv
    <1>5. NoDangling'
        BY <1>2, Kinds DEF NoDangling, Stays
    <1> QED BY <1>3, <1>4, <1>5 DEF GCInv

\* A cycle begins: every table and the thread are white till the roots are marked.
LEMMA MarkRootGC == GCInv /\ QueueInv' /\ MarkRoot => GCInv'
    <1> SUFFICES ASSUME GCInv, QueueInv', MarkRoot PROVE GCInv'
        OBVIOUS
    <1> DEFINE objs == {Main} \cup Roots
    <1>1. /\ gcstate \in {"pause", "finalize"} /\ gcstate' = "propagate"
          /\ full' \in {full, "cycle"} /\ grayagain' = <<>> /\ weak' = <<>>
          /\ UNCHANGED <<weakmode, alloc, ref, finalized, stack, tmudata, tosweep, called>>
        BY DEF MarkRoot
    <1>2. PICK m \in MarkObjects(objs, [color |-> color, gray |-> <<>>]) :
              color' = m.color /\ gray' = m.gray
        BY DEF MarkRoot, Mark
    <1>3. /\ \A o \in alloc : color[o] # "dead"
          /\ stack \cup Roots \cup Range(tmudata) \cup {Main} \subseteq alloc
          /\ \A h \in Holders \cap alloc : ref[h] = Nil \/ ref[h] \in alloc
          /\ alloc \subseteq Objects /\ tosweep = {}
        BY <1>1, AllStay
    <1>4. /\ KindInv /\ color \in [Objects -> Colors] /\ ref \in [Holders -> Objects \cup {Nil}]
          /\ Range(tmudata) \subseteq Udatas
        BY Kinds DEF GCInv, TypeOK
    <1>5. \A o \in alloc \cap ({Main} \cup Tables) : color[o] = "white"
        BY <1>1, <1>3, <1>4, Kinds DEF GCInv, ColorInv, Marking
    <1>6. PICK W \in SUBSET alloc : Coloured(W, objs, color, <<>>, m)
        <2>1. Marked(objs, color, <<>>, m)
            BY <1>2, <1>4, Kinds, Marks
        <2>2. objs \in SUBSET alloc /\ objs \cap Udatas = {}
            BY <1>3, Kinds
        <2>3. <<>> \in Seq({Main} \cup Tables)
            OBVIOUS
        <2> HIDE DEF objs
        <2> QED BY <1>3, <1>4, <2>1, <2>2, <2>3, EmptyRange, MarkStep
    <1> USE <1>6 DEF Coloured
    <1>7. KindInv'
        BY <1>1, <1>2, <1>4 DEF KindInv
    <1>8. ListInv'
        <2>1. /\ IsInjective(gray') /\ Range(gray') = W \cap ({Main} \cup Tables)
              /\ IsInjective(grayagain') /\ IsInjective(weak')
              /\ Range(grayagain') = {} /\ Range(weak') = {}
            BY <1>1, <1>2, <1>6, EmptyRange
        <2>2. \A o \in {Main} \cup Tables : o \in W <=> o \in alloc /\ color'[o] = "gray"
            BY <1>2, <1>3, <1>5, <1>6, Kinds
        <2> QED BY <1>1, <2>1, <2>2 DEF ListInv, Listed
    <1>9. AtomicInv'
        BY <1>1, <1>2, <1>6, Kinds DEF AtomicInv
    <1>10. TriColour'
        <2> SUFFICES ASSUME NEW h \in (Holders \cap alloc) \ Range(tmudata),
                            color'[h] = "black", ref'[h] # Nil
                     PROVE  ~IsWhite(color', ref'[h])
            BY <1>1 DEF TriColour
        <2>1. color[h] = "white"
            BY <1>1, <1>3 DEF GCInv, ColorInv, Marking
        <2>2. h \in W \cap Udatas
            BY <1>2, <1>6, <2>1, Kinds
        <2> QED BY <1>1, <1>2, <1>6, <2>2
    <1>11. /\ \A s \in Strings : color'[s] # "black"
           /\ \A u \in Udatas : color'[u] # "gray"
           /\ color'[Main] # "black" /\ \A o \in alloc : color'[o] # "dead"
        BY <1>2, <1>3, <1>6, Kinds DEF GCInv, TypeOK
    <1>12. /\ gcstate \notin {"sweepstring", "sweep"} /\ gcstate' \in Marking
           /\ finalized' \subseteq Udatas /\ full' \in {"no", "sweep", "cycle"}
           /\ color' \in [Objects -> Colors] /\ Range(tmudata') \subseteq alloc
        BY <1>1, <1>2, <1>3, <1>6 DEF GCInv, TypeOK, Marking
    <1> QED BY <1>1, <1>7, <1>8, <1>9, <1>10, <1>11, <1>12, MarkingGC

\* One object leaves the gray list: what it refers to is marked, and it is black, or gray
\* and on another list if it is the thread or weak.
LEMMA PropagateGC == GCInv /\ QueueInv' /\ Propagate => GCInv'
    <1> SUFFICES ASSUME GCInv, QueueInv', Propagate PROVE GCInv'
        OBVIOUS
    <1> DEFINE o == Head(gray)
               c == [color EXCEPT ![o] = "black"]
               objs == Traversed(o)
               stays == o \in weakmode \cup {Main}
    <1>1. /\ gcstate \in Marking /\ gray # <<>> /\ gcstate' = gcstate
          /\ grayagain' = IF o = Main THEN <<o>> \o grayagain ELSE grayagain
          /\ weak' = IF o \in weakmode THEN <<o>> \o weak ELSE weak
          /\ UNCHANGED <<weakmode, alloc, ref, finalized, stack, gcstate, full, tmudata, tosweep, called>>
        BY DEF Propagate
    <1>2. PICK m \in MarkObjects(objs, [color |-> c, gray |-> Tail(gray)]) :
              /\ gray' = m.gray
              /\ color' = IF stays THEN [m.color EXCEPT ![o] = "gray"] ELSE m.color
        BY DEF Propagate
    <1>3. /\ KindInv /\ TypeOK /\ ColorInv /\ ListInv /\ AtomicInv /\ TriColour
          /\ Range(tmudata) \subseteq Udatas
        BY Kinds DEF GCInv, TypeOK
    <1>4. /\ \A x \in alloc : color[x] # "dead"
          /\ stack \cup Roots \cup Range(tmudata) \cup {Main} \subseteq alloc
          /\ \A h \in Holders \cap alloc : ref[h] = Nil \/ ref[h] \in alloc
          /\ alloc \subseteq Objects
        BY <1>1, AllStay DEF Marking
    <1>5. /\ IsInjective(gray) /\ IsInjective(grayagain) /\ IsInjective(weak)
          /\ Range(gray) \cap Range(grayagain) = {} /\ Range(gray) \cap Range(weak) = {}
          /\ Range(grayagain) \cap Range(weak) = {}
          /\ \A x \in {Main} \cup Tables : x \in Listed <=> x \in alloc /\ color[x] = "gray"
        BY <1>1, <1>3 DEF ListInv
    <1>6. /\ o \in Range(gray) /\ Tail(gray) \in Seq({Main} \cup Tables) /\ IsInjective(Tail(gray))
          /\ Range(Tail(gray)) = Range(gray) \ {o}
        BY <1>1, <1>3, <1>5, TailInjective DEF KindInv
    <1>7. Range(gray) \subseteq {Main} \cup Tables
        BY <1>3 DEF KindInv, Range
    <1>8. o \in {Main} \cup Tables /\ o \in alloc /\ color[o] = "gray"
        BY <1>5, <1>6, <1>7 DEF Listed
    <1>9. c \in [Objects -> Colors] /\ c[o] = "black" /\ \A x \in Objects : x # o => c[x] = color[x]
        BY <1>3, <1>8, Kinds DEF TypeOK, Colors
    <1>10. objs \in SUBSET alloc
        BY <1>4, <1>8, Kinds DEF Traversed, Roots
    <1>11. \A x \in Range(Tail(gray)) : ~IsWhite(c, x)
        BY <1>5, <1>6, <1>7, <1>9, Kinds DEF Listed, IsWhite
    <1> HIDE DEF c, objs, o
    <1>12. PICK W \in SUBSET alloc : Coloured(W, objs, c, Tail(gray), m)
        <2>1. ref \in [Holders -> Objects \cup {Nil}] /\ objs \in SUBSET Objects
            BY <1>3, <1>4, <1>10 DEF TypeOK
        <2>2. Marked(objs, c, Tail(gray), m)
            BY <1>2, <1>3, <1>9, <2>1, Marks
        <2>3. \A u \in objs \cap Udatas : ref[u] = Nil \/ ref[u] \in alloc
            BY <1>4, <1>10, Kinds
        <2> QED BY <1>3, <1>4, <1>6, <1>9, <1>10, <1>11, <2>2, <2>3, MarkStep
    <1>13. o \notin W
        BY <1>9, <1>12 DEF Coloured, IsWhite
    <1>14. /\ color' \in [Objects -> Colors]
           /\ color'[o] = IF stays THEN "gray" ELSE "black"
           /\ \A x \in Objects : x # o => color'[x] = m.color[x]
        BY <1>2, <1>8, <1>9, <1>12, <1>13, Kinds DEF Coloured, Colors
    <1>15. /\ \A x \in W : color'[x] = (IF x \in Udatas THEN "black" ELSE "gray") /\ IsWhite(color, x)
           /\ \A x \in Objects \ W : x # o => color'[x] = color[x]
        BY <1>4, <1>9, <1>12, <1>13, <1>14 DEF Coloured, IsWhite
    <1>16. /\ \A x \in Objects : ~IsWhite(color, x) => ~IsWhite(color', x)
           /\ \A x \in objs : ~IsWhite(color', x)
        BY <1>4, <1>8, <1>9, <1>10, <1>12, <1>14 DEF Coloured, IsWhite
    <1>17. \A u \in W \cap Udatas : ref[u] = Nil \/ ~IsWhite(color', ref[u])
        <2> SUFFICES ASSUME NEW u \in W \cap Udatas, ref[u] # Nil PROVE ~IsWhite(color', ref[u])
            OBVIOUS
        <2>1. ref[u] \in Objects /\ ~IsWhite(m.color, ref[u])
            BY <1>3, <1>12, Kinds DEF Coloured, TypeOK
        <2> QED BY <1>14, <2>1 DEF IsWhite
    <1>18. /\ gray' \in Seq({Main} \cup Tables) /\ IsInjective(gray')
           /\ Range(gray') = (Range(gray) \ {o}) \cup (W \cap ({Main} \cup Tables))
        BY <1>2, <1>6, <1>12 DEF Coloured
    <1>19. /\ grayagain' \in Seq({Main} \cup Tables) /\ IsInjective(grayagain')
           /\ Range(grayagain') = Range(grayagain) \cup ({o} \cap {Main})
        <2>1. o \notin Range(grayagain)
            BY <1>5, <1>6
        <2>2. /\ <<o>> \o grayagain \in Seq({Main} \cup Tables) /\ IsInjective(<<o>> \o grayagain)
              /\ Range(<<o>> \o grayagain) = {o} \cup Range(grayagain)
            BY <1>3, <1>5, <1>8, <2>1, PutBefore DEF KindInv
        <2> QED BY <1>1, <1>3, <1>5, <2>2 DEF KindInv
    <1>20. /\ weak' \in Seq(Tables) /\ IsInjective(weak')
           /\ Range(weak') = Range(weak) \cup ({o} \cap weakmode)
        <2>1. CASE o \in weakmode
            <3>1. o \notin Range(weak) /\ o \in Tables
                BY <1>3, <1>5, <1>6, <2>1 DEF TypeOK
            <3>2. /\ <<o>> \o weak \in Seq(Tables) /\ IsInjective(<<o>> \o weak)
                  /\ Range(<<o>> \o weak) = {o} \cup Range(weak)
                BY <1>3, <1>5, <3>1, PutBefore DEF KindInv
            <3> QED BY <1>1, <2>1, <3>2
        <2>2. CASE o \notin weakmode
            BY <1>1, <1>3, <1>5, <2>2 DEF KindInv
        <2> QED BY <2>1, <2>2
    <1>21. KindInv'
        BY <1>1, <1>3, <1>18, <1>19, <1>20 DEF KindInv
    <1>22. W \cap Listed = {} /\ weakmode \cap {Main} = {}
        <2>1. \A x \in W : x \in {Main} \cup Tables => x \notin Listed
            BY <1>5, <1>15 DEF IsWhite
        <2>2. Listed \subseteq {Main} \cup Tables
            BY <1>3, <1>7 DEF KindInv, Range, Listed
        <2> QED BY <1>3, <2>1, <2>2, Kinds DEF TypeOK
    <1>23. ListInv'
        <2>1. /\ Range(gray') \cap Range(grayagain') = {} /\ Range(gray') \cap Range(weak') = {}
              /\ Range(grayagain') \cap Range(weak') = {}
            BY <1>5, <1>6, <1>13, <1>18, <1>19, <1>20, <1>22 DEF Listed
        <2>2. Range(gray') \cup Range(grayagain') \cup Range(weak') =
                  (Listed \ {o}) \cup (W \cap ({Main} \cup Tables)) \cup ({o} \cap (weakmode \cup {Main}))
            <3>1. Range(gray') \cup Range(grayagain') \cup Range(weak') =
                      (Range(gray) \ {o}) \cup (W \cap ({Main} \cup Tables))
                      \cup Range(grayagain) \cup ({o} \cap {Main})
                      \cup Range(weak) \cup ({o} \cap weakmode)
                BY <1>18, <1>19, <1>20
            <3>2. o \notin Range(grayagain) /\ o \notin Range(weak)
                BY <1>5, <1>6
            <3> QED BY <3>1, <3>2 DEF Listed
        <2>3. ASSUME NEW x \in {Main} \cup Tables
              PROVE  x \in (Listed \ {o}) \cup (W \cap ({Main} \cup Tables)) \cup ({o} \cap (weakmode \cup {Main}))
                     <=> x \in alloc /\ color'[x] = "gray"
            <3>1. CASE x = o
                BY <1>8, <1>13, <1>14, <3>1
            <3>2. CASE x # o /\ x \in W
                BY <1>15, <3>2, Kinds
            <3>3. CASE x # o /\ x \notin W
                BY <1>5, <1>15, <3>3, Kinds
            <3> QED BY <3>1, <3>2, <3>3
        <2> QED BY <1>1, <1>18, <1>19, <1>20, <2>1, <2>2, <2>3 DEF ListInv, Listed
    <1>24. AtomicInv'
        <2>1. gcstate' \in Marking => \A x \in {Main} \cup Roots : ~IsWhite(color', x)
            BY <1>1, <1>3, <1>16, Kinds DEF AtomicInv
        <2>2. gcstate' \in {"again", "tmu"} => Range(grayagain') \subseteq {Main}
            BY <1>1, <1>3, <1>19 DEF AtomicInv
        <2>3. StackMarked => StackMarked'
            BY <1>1, <1>4, <1>16 DEF StackMarked
        <2>4. gcstate' = "again" => Main \in Range(gray') \/ StackMarked'
            <3>1. CASE o = Main
                <4>1. stack \subseteq objs
                    BY <3>1 DEF objs, Traversed
                <4> QED BY <1>1, <1>16, <4>1 DEF StackMarked
            <3>2. CASE o # Main
                BY <1>1, <1>3, <1>18, <2>3, <3>2 DEF AtomicInv
            <3> QED BY <3>1, <3>2
        <2>5. ASSUME gcstate' = "tmu", NEW u \in Range(tmudata')
              PROVE  color'[u] = "black" /\ (ref'[u] = Nil \/ ~IsWhite(color', ref'[u]))
            <3>1. u \in Udatas /\ u # o /\ color[u] = "black" /\ (ref[u] = Nil \/ ~IsWhite(color, ref[u]))
                BY <1>1, <1>3, <1>8, <2>5, Kinds DEF AtomicInv
            <3>2. u \notin W
                BY <1>15, <3>1 DEF IsWhite
            <3>3. ref[u] = Nil \/ ref[u] \in Objects
                BY <1>3, <3>1, Kinds DEF TypeOK
            <3> QED BY <1>1, <1>15, <1>16, <3>1, <3>2, <3>3, Kinds
        <2>6. gcstate' = "tmu" => \A u \in Udatas \cap alloc' : IsWhite(color', u) => u \in finalized'
            BY <1>1, <1>3, <1>16, Kinds DEF AtomicInv
        <2>7. gcstate' = "tmu" => StackMarked'
            BY <1>1, <1>3, <2>3 DEF AtomicInv
        <2> QED BY <2>1, <2>2, <2>4, <2>5, <2>6, <2>7 DEF AtomicInv
    <1>25. TriColour'
        <2> SUFFICES ASSUME NEW h \in (Holders \cap alloc) \ Range(tmudata),
                            color'[h] = "black", ref[h] # Nil
                     PROVE  ~IsWhite(color', ref[h])
            BY <1>1 DEF TriColour
        <2>1. h \in Objects /\ ref[h] \in Objects
            BY <1>3, Kinds DEF TypeOK
        <2>2. CASE h = o
            <3>1. ref[h] \in objs
                BY <1>14, <2>2, Kinds DEF objs, Traversed
            <3> QED BY <1>16, <3>1
        <2>3. CASE h \in W
            BY <1>15, <1>17, <2>3
        <2>4. CASE h # o /\ h \notin W
            BY <1>1, <1>3, <1>15, <1>16, <2>1, <2>4 DEF TriColour
        <2> QED BY <2>2, <2>3, <2>4
    <1>26. /\ \A s \in Strings : color'[s] # "black"
           /\ \A u \in Udatas : color'[u] # "gray"
           /\ color'[Main] # "black" /\ \A x \in alloc : color'[x] # "dead"
        <2>1. ASSUME NEW s \in Strings PROVE color'[s] # "black"
            BY <1>3, <1>8, <1>15, Kinds DEF TypeOK
        <2>2. ASSUME NEW u \in Udatas PROVE color'[u] # "gray"
            BY <1>3, <1>8, <1>15, Kinds DEF TypeOK
        <2>3. color'[Main] # "black"
            <3>1. CASE o = Main
                BY <1>14, <3>1
            <3>2. CASE o # Main
                BY <1>3, <1>15, <3>2, Kinds DEF TypeOK
            <3> QED BY <3>1, <3>2
        <2>4. ASSUME NEW x \in alloc PROVE color'[x] # "dead"
            BY <1>4, <1>14, <1>15
        <2> QED BY <2>1, <2>2, <2>3, <2>4
    <1>27. /\ gcstate \notin {"sweepstring", "sweep"} /\ gcstate' \in Marking
           /\ finalized' \subseteq Udatas /\ full' \in {"no", "sweep", "cycle"}
           /\ Range(tmudata') \subseteq alloc
        BY <1>1, <1>3, <1>4 DEF TypeOK, Marking
    <1> QED BY <1>1, <1>14, <1>21, <1>23, <1>24, <1>25, <1>26, <1>27, MarkingGC

\* The weak tables are gone over once more; the thread is marked already.
LEMMA RemarkWeakGC == GCInv /\ QueueInv' /\ RemarkWeak => GCInv'
    <1> SUFFICES ASSUME GCInv, QueueInv', RemarkWeak PROVE GCInv'
        OBVIOUS
    <1>1. /\ gcstate = "propagate" /\ gray = <<>> /\ gcstate' = "weak" /\ weak' = <<>>
          /\ UNCHANGED <<weakmode, alloc, ref, finalized, stack, full, grayagain, tmudata, tosweep, called>>
        BY DEF RemarkWeak
    <1>2. PICK m \in MarkObjects({Main}, [color |-> color, gray |-> weak]) :
              color' = m.color /\ gray' = m.gray
        BY DEF RemarkWeak, Mark
    <1>3. /\ KindInv /\ TypeOK /\ ListInv /\ AtomicInv /\ TriColour
          /\ color \in [Objects -> Colors] /\ ref \in [Holders -> Objects \cup {Nil}]
          /\ gcstate \in Marking
        BY <1>1 DEF GCInv, TypeOK, Marking
    <1>4. /\ \A x \in alloc : color[x] # "dead"
          /\ stack \cup Roots \cup Range(tmudata) \cup {Main} \subseteq alloc
          /\ alloc \subseteq Objects
        BY <1>1, AllStay
    <1>5. /\ weak \in Seq({Main} \cup Tables) /\ IsInjective(weak)
          /\ \A x \in Range(weak) : ~IsWhite(color, x)
        <2>1. weak \in Seq(Tables) /\ Range(weak) \subseteq Tables
            BY <1>3 DEF KindInv, Range
        <2> QED BY <1>3, <2>1 DEF ListInv, Listed, IsWhite
    <1>6. PICK W \in SUBSET alloc : Coloured(W, {Main}, color, weak, m)
        <2>1. {Main} \in SUBSET Objects /\ {Main} \in SUBSET alloc
              /\ \A u \in {Main} \cap Udatas : ref[u] = Nil \/ ref[u] \in alloc
            BY <1>4, Kinds
        <2>2. Marked({Main}, color, weak, m)
            BY <1>2, <1>3, <2>1, Marks
        <2> QED BY <1>3, <1>4, <1>5, <2>1, <2>2, MarkStep
    <1>7. /\ color' \in [Objects -> Colors]
          /\ \A x \in Objects : ~IsWhite(color, x) => ~IsWhite(color', x) /\ color'[x] = color[x]
          /\ \A x \in Objects : color'[x] # color[x] => color'[x] = IF x \in Udatas THEN "black" ELSE "gray"
          /\ \A x \in Objects : color'[x] # color[x] => x \in W
        BY <1>2, <1>6 DEF Coloured, IsWhite
    <1>8. W \cap ({Main} \cup Strings \cup Udatas) = {}
        <2>1. ~IsWhite(color, Main)
            BY <1>3 DEF AtomicInv
        <2> QED BY <1>6, <2>1, Kinds DEF Coloured
    <1>9. /\ gray' \in Seq({Main} \cup Tables) /\ IsInjective(gray')
          /\ Range(gray') = Range(weak) \cup (W \cap ({Main} \cup Tables))
        BY <1>2, <1>6 DEF Coloured
    <1>10. KindInv'
        BY <1>1, <1>3, <1>9 DEF KindInv
    <1>11. ListInv'
        <2>1. /\ IsInjective(grayagain) /\ Range(grayagain) \cap Range(weak) = {}
              /\ \A o \in {Main} \cup Tables : o \in Range(grayagain) \cup Range(weak) <=>
                                                 o \in alloc /\ color[o] = "gray"
            BY <1>1, <1>3, EmptyRange DEF ListInv, Listed
        <2>2. Range(weak') = {} /\ IsInjective(weak')
            BY <1>1, EmptyRange
        <2>3. Range(grayagain) \subseteq {Main} \cup Tables
            BY <1>3 DEF KindInv, Range
        <2>4. \A o \in W : IsWhite(color, o) /\ (o \in Tables => color'[o] = "gray")
            BY <1>2, <1>6, Kinds DEF Coloured
        <2>5. Range(gray') \cap Range(grayagain) = {}
            BY <1>9, <2>1, <2>3, <2>4 DEF IsWhite
        <2>6. \A o \in {Main} \cup Tables : o \in Range(gray') \cup Range(grayagain) <=>
                                              o \in alloc /\ color'[o] = "gray"
            BY <1>7, <1>8, <1>9, <2>1, <2>4, Kinds DEF IsWhite
        <2> QED BY <1>1, <1>9, <2>1, <2>2, <2>5, <2>6 DEF ListInv, Listed
    <1>12. AtomicInv'
        BY <1>1, <1>3, <1>7, Kinds DEF AtomicInv
    <1>13. TriColour'
        <2> SUFFICES ASSUME NEW h \in (Holders \cap alloc) \ Range(tmudata),
                            color'[h] = "black", ref[h] # Nil
                     PROVE  ~IsWhite(color', ref[h])
            BY <1>1 DEF TriColour
        <2>1. h \in Objects /\ ref[h] \in Objects
            BY <1>3, Kinds DEF TypeOK
        <2>2. color[h] = "black"
            BY <1>7, <1>8, <2>1
        <2> QED BY <1>3, <1>7, <2>1, <2>2 DEF TriColour
    <1>14. /\ \A s \in Strings : color'[s] # "black"
           /\ \A u \in Udatas : color'[u] # "gray"
           /\ color'[Main] # "black" /\ \A x \in alloc : color'[x] # "dead"
        BY <1>3, <1>4, <1>7, Kinds DEF TypeOK
    <1>15. /\ gcstate \notin {"sweepstring", "sweep"} /\ gcstate' \in Marking
           /\ finalized' \subseteq Udatas /\ full' \in {"no", "sweep", "cycle"}
           /\ Range(tmudata') \subseteq alloc
        BY <1>1, <1>3, <1>4 DEF TypeOK, Marking
    <1> QED BY <1>1, <1>7, <1>10, <1>11, <1>12, <1>13, <1>14, <1>15, MarkingGC

\* The tables of the backward barrier and the thread are traversed once more.
LEMMA RemarkAgainGC == GCInv /\ QueueInv' /\ RemarkAgain => GCInv'
    <1> SUFFICES ASSUME GCInv, QueueInv', RemarkAgain PROVE GCInv'
        OBVIOUS
    <1>1. /\ gcstate = "weak" /\ gray = <<>> /\ gcstate' = "again"
          /\ gray' = grayagain /\ grayagain' = <<>>
          /\ UNCHANGED <<weakmode, alloc, color, ref, finalized, stack, full, weak, tmudata, tosweep, called>>
        BY DEF RemarkAgain
    <1>2. /\ KindInv /\ TypeOK /\ ListInv /\ AtomicInv /\ TriColour
          /\ gcstate \in Marking /\ gcstate' \in Marking
        BY <1>1 DEF GCInv, Marking
    <1>3. KindInv'
        <2>1. <<>> \in Seq({Main} \cup Tables)
            OBVIOUS
        <2> QED BY <1>1, <1>2, <2>1 DEF KindInv
    <1>4. ListInv'
        BY <1>1, <1>2, EmptyRange DEF ListInv, Listed
    <1>5. Main \in Range(gray')
        <2>1. color[Main] = "gray"
            BY <1>2, Kinds DEF TypeOK, Colors, AtomicInv, IsWhite
        <2>2. Main \in Listed
            BY <1>2, <2>1 DEF ListInv, TypeOK
        <2>3. Main \notin Range(weak)
            BY <1>2, Kinds DEF KindInv, Range
        <2> QED BY <1>1, <2>2, <2>3, EmptyRange DEF Listed
    <1>6. AtomicInv'
        BY <1>1, <1>2, <1>5, EmptyRange DEF AtomicInv
    <1>7. TriColour'
        BY <1>1, <1>2 DEF TriColour
    <1>8. (\A x \in alloc : color[x] # "dead") /\ Range(tmudata) \subseteq alloc
        BY <1>1, AllStay
    <1> QED BY <1>1, <1>2, <1>3, <1>4, <1>6, <1>7, <1>8, MarkingGC DEF TypeOK

\* The userdata to be finalized are marked, those of earlier cycles once more; the
\* stack is marked by now.
LEMMA SeparateGC == GCInv /\ QueueInv' /\ Separate => GCInv'
    <1> SUFFICES ASSUME GCInv, QueueInv', Separate PROVE GCInv'
        OBVIOUS
    <1> DEFINE Q == Range(tmudata')
               c == MadeWhite(Q)
    <1>1. /\ gcstate = "again" /\ gray = <<>> /\ gcstate' = "tmu"
          /\ finalized' = finalized \cup Unfinalized
          /\ UNCHANGED <<weakmode, alloc, ref, stack, full, grayagain, weak, tosweep, called>>
        BY DEF Separate
    <1>2. PICK dead \in SetToSeqs(Unfinalized \cap Finalizable) : tmudata' = tmudata \o dead
        BY DEF Separate
    <1>3. \E m \in MarkObjects(Q, [color |-> c, gray |-> gray]) : color' = m.color /\ gray' = m.gray
        BY DEF Separate, Mark
    <1>4. PICK m \in MarkObjects(Q, [color |-> c, gray |-> gray]) : color' = m.color /\ gray' = m.gray
        BY <1>3
    <1>5. /\ KindInv /\ TypeOK /\ ListInv /\ AtomicInv /\ TriColour /\ QueueInv
          /\ color \in [Objects -> Colors] /\ ref \in [Holders -> Objects \cup {Nil}]
          /\ gcstate \in Marking
        BY <1>1 DEF GCInv, TypeOK, Marking
    <1>6. /\ \A x \in alloc : color[x] # "dead"
          /\ stack \cup Roots \cup Range(tmudata) \cup {Main} \subseteq alloc
          /\ \A h \in Holders \cap alloc : ref[h] = Nil \/ ref[h] \in alloc
          /\ alloc \subseteq Objects
        BY <1>1, AllStay
    <1>7. Q \subseteq Udatas \cap alloc /\ Range(tmudata) \subseteq Q
        <2>1. IsFiniteSet(Unfinalized \cap Finalizable)
            BY <1>6, Kinds, FS_Subset DEF Unfinalized
        <2>2. dead \in Seq(Finalizable) /\ Range(dead) \subseteq alloc
            <3>1. dead \in Seq(Unfinalized \cap Finalizable) /\ Range(dead) = Unfinalized \cap Finalizable
                BY <1>2, <2>1, SetToSeqsType
            <3> QED BY <3>1 DEF Unfinalized
        <2>3. Q = Range(tmudata) \cup Range(dead)
            BY <1>2, <1>5, <2>2, ConcatRange DEF QueueInv
        <2>4. Range(tmudata) \subseteq Finalizable /\ Range(dead) \subseteq Finalizable
            BY <1>5, <2>2 DEF QueueInv, Range
        <2> QED BY <1>6, <2>2, <2>3, <2>4, Kinds
    <1>8. /\ c \in [Objects -> Colors] /\ \A x \in Q : c[x] = "white"
          /\ \A x \in Objects \ Q : c[x] = color[x]
        BY <1>5, <1>6, <1>7 DEF MadeWhite, Colors
    <1> HIDE DEF c, Q
    <1>9. PICK W \in SUBSET alloc : Coloured(W, Q, c, gray, m)
        <2>1. Q \in SUBSET Objects /\ Q \in SUBSET alloc
              /\ \A u \in Q \cap Udatas : ref[u] = Nil \/ ref[u] \in alloc
            BY <1>6, <1>7, Kinds
        <2>2. gray \in Seq({Main} \cup Tables) /\ IsInjective(gray) /\ \A x \in Range(gray) : ~IsWhite(c, x)
            BY <1>1, <1>5, EmptyRange DEF KindInv
        <2>3. Marked(Q, c, gray, m)
            BY <1>4, <1>5, <1>8, <2>1, Marks
        <2> QED BY <1>5, <1>6, <1>8, <2>1, <2>2, <2>3, MarkStep
    <1>10. /\ color' \in [Objects -> Colors]
           /\ \A x \in W : color'[x] = IF x \in Udatas THEN "black" ELSE "gray"
           /\ \A x \in Q : x \in W /\ color'[x] = "black"
           /\ \A x \in Objects \ W : color'[x] = color[x]
        <2>1. \A x \in Q : x \in W
            BY <1>6, <1>7, <1>8, <1>9 DEF Coloured, IsWhite
        <2> QED BY <1>4, <1>7, <1>8, <1>9, <2>1 DEF Coloured
    <1>11. \A x \in Objects : ~IsWhite(color, x) => ~IsWhite(color', x)
        BY <1>4, <1>8, <1>9, <1>10 DEF Coloured, IsWhite
    <1>12. \A u \in W \cap Udatas : ref[u] = Nil \/ ~IsWhite(color', ref[u])
        BY <1>4, <1>9 DEF Coloured
    <1>13. /\ gray' \in Seq({Main} \cup Tables) /\ IsInjective(gray')
           /\ Range(gray') = W \cap ({Main} \cup Tables)
        BY <1>1, <1>4, <1>9, EmptyRange DEF Coloured
    <1>14. \A x \in W : x \in {Main} \cup Tables => IsWhite(color, x) /\ color'[x] = "gray"
        BY <1>6, <1>7, <1>8, <1>9, <1>10, Kinds DEF Coloured, IsWhite
    <1>15. KindInv'
        BY <1>1, <1>5, <1>13 DEF KindInv
    <1>16. ListInv'
        <2>1. /\ IsInjective(grayagain) /\ IsInjective(weak) /\ Range(grayagain) \cap Range(weak) = {}
              /\ \A o \in {Main} \cup Tables : o \in Range(grayagain) \cup Range(weak) <=>
                                                 o \in alloc /\ color[o] = "gray"
            BY <1>1, <1>5, EmptyRange DEF ListInv, Listed
        <2>2. Range(grayagain) \subseteq {Main} \cup Tables /\ Range(weak) \subseteq {Main} \cup Tables
            BY <1>5 DEF KindInv, Range
        <2>3. Range(gray') \cap Range(grayagain) = {} /\ Range(gray') \cap Range(weak) = {}
            BY <1>13, <1>14, <2>1, <2>2 DEF IsWhite
        <2>4. \A o \in {Main} \cup Tables : o \in Range(gray') \cup (Range(grayagain) \cup Range(weak))
                                              <=> o \in alloc /\ color'[o] = "gray"
            BY <1>10, <1>13, <1>14, <2>1, Kinds
        <2> QED BY <1>1, <1>13, <2>1, <2>3, <2>4 DEF ListInv, Listed
    <1>17. AtomicInv'
        <2>1. StackMarked'
            <3>1. StackMarked
                BY <1>1, <1>5, EmptyRange DEF AtomicInv
            <3> QED BY <1>1, <1>6, <1>11, <3>1 DEF StackMarked
        <2>2. \A u \in Q : color'[u] = "black" /\ (ref'[u] = Nil \/ ~IsWhite(color', ref'[u]))
            BY <1>1, <1>7, <1>10, <1>12
        <2>3. \A u \in Udatas \cap alloc' : IsWhite(color', u) => u \in finalized'
            <3> SUFFICES ASSUME NEW u \in Udatas \cap alloc, IsWhite(color', u)
                         PROVE  u \in finalized'
                BY <1>1
            <3>1. IsWhite(color, u)
                BY <1>11, Kinds
            <3> QED BY <1>1, <3>1 DEF Unfinalized
        <2>4. \A o \in {Main} \cup Roots : ~IsWhite(color', o)
            BY <1>5, <1>11, Kinds DEF AtomicInv
        <2> QED BY <1>1, <1>5, <2>1, <2>2, <2>3, <2>4 DEF AtomicInv, Q
    <1>18. TriColour'
        <2> SUFFICES ASSUME NEW h \in (Holders \cap alloc) \ Q,
                            color'[h] = "black", ref[h] # Nil
                     PROVE  ~IsWhite(color', ref[h])
            BY <1>1 DEF TriColour, Q
        <2>1. h \in Objects /\ ref[h] \in Objects
            BY <1>5, Kinds DEF TypeOK
        <2>2. CASE h \in W
            BY <1>10, <1>12, <2>2
        <2>3. CASE h \notin W
            BY <1>5, <1>7, <1>10, <1>11, <2>1, <2>3 DEF TriColour
        <2> QED BY <2>2, <2>3
    <1>19. /\ \A s \in Strings : color'[s] # "black"
           /\ \A u \in Udatas : color'[u] # "gray"
           /\ color'[Main] # "black" /\ \A x \in alloc : color'[x] # "dead"
        BY <1>5, <1>6, <1>10, Kinds DEF TypeOK
    <1>20. /\ gcstate \notin {"sweepstring", "sweep"} /\ gcstate' \in Marking
           /\ finalized' \subseteq Udatas /\ full' \in {"no", "sweep", "cycle"}
           /\ Range(tmudata') \subseteq alloc
        BY <1>1, <1>5, <1>7 DEF TypeOK, Marking, Unfinalized, Q
    <1> QED BY <1>1, <1>10, <1>15, <1>16, <1>17, <1>18, <1>19, <1>20, MarkingGC

-----------------------------------------------------------------------------
(* The end of atomic(), the sweep and the finalizers                       *)

\* What is left to show of a step outside the marking.
LEMMA RestingGC ==
    ASSUME QueueInv', gcstate' \notin Marking, gcstate' \in States, KindInv', ColorInv', NoDangling',
           alloc' \subseteq Objects, {Main} \cup Roots \subseteq alloc',
           color' \in [Objects -> Colors],
           \A s \in Strings : color'[s] # "black", \A u \in Udatas : color'[u] # "gray",
           color'[Main] # "black",
           ref' \in [Holders -> Objects \cup {Nil}],
           weakmode' \subseteq Tables, finalized' \subseteq Udatas, stack' \subseteq Objects,
           full' \in {"no", "sweep", "cycle"}, tosweep' \subseteq alloc'
    PROVE  GCInv'
    <1>1. TypeParts'
        BY DEF TypeParts
    <1> QED BY <1>1, TypeNext, NotMarkingNext DEF GCInv

\* What the flip of the whites makes dead is referred to by nothing that is marked: a
\* black object refers to marked ones, and a gray one left is a weak table, whose slot
\* is cleared unless it holds a string.
LEMMA ClearAndFlipGC == GCInv /\ QueueInv' /\ ClearAndFlip => GCInv'
    <1> SUFFICES ASSUME GCInv, QueueInv', ClearAndFlip PROVE GCInv'
        OBVIOUS
    <1> DEFINE met == {ref[h] : h \in Range(weak)} \cap Strings
               c == [o \in Objects |-> IF o \in met /\ IsWhite(color, o) THEN "gray" ELSE color[o]]
    <1>1. /\ gcstate = "tmu" /\ gray = <<>> /\ gcstate' = "sweepstring"
          /\ color' = Flip(c) /\ tosweep' = alloc \ Range(tmudata)
          /\ ref' = [h \in Holders |-> IF h \in Range(weak) /\ IsCleared(h) THEN Nil ELSE ref[h]]
          /\ UNCHANGED <<weakmode, alloc, finalized, stack, full, gray, grayagain, weak, tmudata, called>>
        BY DEF ClearAndFlip
    <1>2. /\ KindInv /\ TypeOK /\ ListInv /\ AtomicInv /\ TriColour /\ ColorInv
          /\ color \in [Objects -> Colors] /\ ref \in [Holders -> Objects \cup {Nil}]
          /\ gcstate \in Marking /\ Range(tmudata) \subseteq Udatas
        BY <1>1, Kinds DEF GCInv, TypeOK, Marking
    <1>3. /\ \A x \in alloc : color[x] # "dead"
          /\ stack \cup Roots \cup Range(tmudata) \cup {Main} \subseteq alloc
          /\ \A h \in Holders \cap alloc : ref[h] = Nil \/ ref[h] \in alloc
          /\ alloc \subseteq Objects
        BY <1>1, AllStay
    <1> HIDE DEF met
    <1>4. \A o \in Objects :
              color'[o] = IF o \in met /\ IsWhite(color, o) THEN "gray"
                          ELSE IF color[o] = "white" THEN "dead"
                          ELSE IF color[o] = "dead" THEN "white" ELSE color[o]
        <2> SUFFICES ASSUME NEW o \in Objects
                     PROVE  color'[o] = IF o \in met /\ IsWhite(color, o) THEN "gray"
                                        ELSE IF color[o] = "white" THEN "dead"
                                        ELSE IF color[o] = "dead" THEN "white" ELSE color[o]
            OBVIOUS
        <2>1. c[o] = IF o \in met /\ IsWhite(color, o) THEN "gray" ELSE color[o]
            OBVIOUS
        <2>2. color'[o] = IF c[o] = "white" THEN "dead" ELSE IF c[o] = "dead" THEN "white" ELSE c[o]
            BY <1>1 DEF Flip
        <2> QED BY <2>1, <2>2
    <1>5. color' \in [Objects -> Colors] /\ met \subseteq Strings
        <2>1. color' = [o \in Objects |-> color'[o]]
            BY <1>1 DEF Flip
        <2>2. \A o \in Objects : color'[o] \in Colors
            BY <1>2, <1>4 DEF Colors
        <2> QED BY <2>1, <2>2 DEF met
    <1>6. \A o \in alloc : ~IsWhite(color, o) => color'[o] = color[o] /\ color'[o] # "dead"
        BY <1>3, <1>4 DEF IsWhite
    <1>7. /\ \A h \in Holders : ref'[h] \in {ref[h], Nil}
          /\ \A h \in Range(weak) : h \in Holders /\ IsCleared(h) => ref'[h] = Nil
          /\ ref' \in [Holders -> Objects \cup {Nil}]
        BY <1>1, <1>2
    <1>8. KindInv'
        BY <1>1, <1>2, <1>7, Kinds DEF KindInv
    <1>9. \A u \in Range(tmudata) : color'[u] = "black" /\ color[u] = "black"
        BY <1>1, <1>2, <1>3, <1>6 DEF AtomicInv, IsWhite
    <1>10. ColorInv'
        BY <1>1, <1>2, <1>3, <1>6, <1>9, Kinds DEF ColorInv, AtomicInv
    <1>11. NoDangling'
        <2>1. \A o \in stack \cup Roots \cup Range(tmudata) : o \in alloc /\ color'[o] # "dead"
            BY <1>1, <1>2, <1>3, <1>6, <1>9 DEF AtomicInv, StackMarked
        <2>2. ASSUME NEW h \in Holders, h \in alloc, color'[h] # "dead", ref[h] # Nil, ref'[h] # Nil
              PROVE  ref[h] \in alloc /\ color'[ref[h]] # "dead"
            <3>1. h \in Objects /\ h \notin met /\ h # Main /\ h \notin Strings
                BY <1>5, Kinds
            <3>2. color[h] \in {"gray", "black"}
                BY <1>2, <1>3, <1>4, <2>2, <3>1 DEF Colors
            <3>3. ref[h] \in alloc /\ ref[h] \in Objects
                BY <1>3, <2>2
            <3>4. CASE color[h] = "black"
                <4>1. ~IsWhite(color, ref[h])
                    BY <1>1, <1>2, <2>2, <3>4 DEF AtomicInv, TriColour
                <4> QED BY <1>6, <3>3, <4>1
            <3>5. CASE color[h] = "gray"
                <4>1. h \in Tables /\ h \in Listed
                    BY <1>2, <2>2, <3>5, Kinds DEF TypeOK, ListInv, Holders
                <4>2. h \in Range(weak)
                    BY <1>1, <1>2, <3>1, <4>1, EmptyRange DEF Listed, AtomicInv
                <4>3. CASE ~IsWhite(color, ref[h])
                    BY <1>6, <3>3, <4>3
                <4>4. CASE IsWhite(color, ref[h]) /\ ref[h] \in Strings
                    <5>1. ref[h] \in met
                        BY <4>2, <4>4 DEF met
                    <5> QED BY <1>4, <3>3, <4>4, <5>1
                <4>5. CASE IsWhite(color, ref[h]) /\ ref[h] \notin Strings
                    <5>1. IsCleared(h)
                        BY <3>3, <4>5 DEF IsCleared
                    <5> QED BY <1>7, <2>2, <4>2, <5>1
                <4> QED BY <4>3, <4>4, <4>5
            <3> QED BY <3>2, <3>4, <3>5
        <2> QED BY <1>1, <1>7, <2>1, <2>2 DEF NoDangling, Stays
    <1>12. /\ \A s \in Strings : color'[s] # "black"
           /\ \A u \in Udatas : color'[u] # "gray"
           /\ color'[Main] # "black"
        BY <1>2, <1>4, <1>5, Kinds DEF TypeOK
    <1>13. /\ alloc' \subseteq Objects /\ {Main} \cup Roots \subseteq alloc' /\ gcstate' \notin Marking
           /\ weakmode' \subseteq Tables /\ finalized' \subseteq Udatas /\ stack' \subseteq Objects
           /\ full' \in {"no", "sweep", "cycle"} /\ tosweep' \subseteq alloc' /\ gcstate' \in States
        BY <1>1, <1>2, <1>3 DEF TypeOK, Marking, States
    <1> QED BY <1>5, <1>7, <1>8, <1>10, <1>11, <1>12, <1>13, RestingGC

\* What is freed is dead, so that nothing live refers to it; the rest turns white.
LEMMA SweepGC == GCInv /\ QueueInv' /\ Sweep => GCInv'
    <1> SUFFICES ASSUME GCInv, QueueInv', Sweep PROVE GCInv'
        OBVIOUS
    <1>1. /\ gcstate \in {"sweepstring", "sweep"}
          /\ UNCHANGED <<stack, gcstate, full, gray, grayagain, weak, tmudata>>
        BY DEF Sweep
    <1>2. PICK o \in tosweep :
              /\ tosweep' = tosweep \ {o} /\ color' = [color EXCEPT ![o] = "white"]
              /\ \/ /\ color[o] = "dead" /\ alloc' = alloc \ {o}
                    /\ ref' = [h \in Holders |-> IF h = o THEN Nil ELSE ref[h]]
                    /\ weakmode' = weakmode \ {o}
                    /\ finalized' = finalized \ {o} /\ called' = called \ {o}
                 \/ /\ color[o] # "dead"
                    /\ UNCHANGED <<alloc, weakmode, ref, finalized, called>>
        BY DEF Sweep, IsSwept
    <1>3. /\ KindInv /\ TypeOK /\ ColorInv /\ NoDangling
          /\ color \in [Objects -> Colors] /\ ref \in [Holders -> Objects \cup {Nil}]
          /\ o \in alloc /\ o \in Objects /\ tosweep \subseteq alloc
        BY DEF GCInv, TypeOK
    <1>4. /\ color'[o] = "white" /\ \A x \in Objects : x # o => color'[x] = color[x]
          /\ color' \in [Objects -> Colors]
          /\ ref' \in [Holders -> Objects \cup {Nil}] /\ \A h \in Holders : ref'[h] \in {ref[h], Nil}
        BY <1>2, <1>3 DEF Colors
    <1>5. KindInv'
        BY <1>1, <1>3, <1>4, Kinds DEF KindInv
    <1>6. {Main} \cup Roots \subseteq alloc'
        <2>1. \A x \in {Main} \cup Roots : color[x] # "dead" /\ x \in alloc
            BY <1>3 DEF ColorInv, NoDangling, Stays, TypeOK
        <2> QED BY <1>2, <2>1
    <1>7. ColorInv'
        <2>1. color'[Main] # "dead"
            BY <1>3, <1>4, Kinds DEF ColorInv
        <2>2. \A x \in alloc' : color'[x] = "dead" => x \in tosweep'
            BY <1>2, <1>3, <1>4 DEF ColorInv, TypeOK
        <2>3. \A x \in alloc' \ (tosweep' \cup Range(tmudata')) : color'[x] = "white"
            BY <1>1, <1>2, <1>3, <1>4 DEF ColorInv, TypeOK, Marking
        <2> QED BY <2>1, <2>2, <2>3 DEF ColorInv
    <1>8. NoDangling'
        <2>1. \A x \in Objects : Stays(x) => x \in alloc' /\ color'[x] # "dead"
            BY <1>2, <1>4 DEF Stays
        <2>2. \A h \in Holders : h \in alloc' /\ color'[h] # "dead" =>
                  Stays(h) /\ (ref'[h] = ref[h] \/ ref'[h] = Nil)
            BY <1>2, <1>3, <1>4, Kinds DEF Stays
        <2>3. stack \cup Roots \cup Range(tmudata) \subseteq Objects
            BY <1>3, Kinds DEF TypeOK
        <2> QED BY <1>1, <1>3, <2>1, <2>2, <2>3, DanglingFrame
    <1>9. /\ \A s \in Strings : color'[s] # "black"
          /\ \A u \in Udatas : color'[u] # "gray"
          /\ color'[Main] # "black"
        BY <1>3, <1>4, Kinds DEF TypeOK
    <1>10. /\ alloc' \subseteq Objects /\ gcstate' \notin Marking
           /\ weakmode' \subseteq Tables /\ finalized' \subseteq Udatas /\ stack' \subseteq Objects
           /\ full' \in {"no", "sweep", "cycle"} /\ tosweep' \subseteq alloc' /\ gcstate' \in States
        BY <1>1, <1>2, <1>3 DEF TypeOK, Marking, States
    <1> QED BY <1>4, <1>5, <1>6, <1>7, <1>8, <1>9, <1>10, RestingGC

\* The sweep or the cycle ends.
LEMMA EndGC == GCInv /\ QueueInv' /\ (SweepEnd \/ EndCycle) => GCInv'
    <1> SUFFICES ASSUME GCInv, QueueInv', SweepEnd \/ EndCycle PROVE GCInv'
        OBVIOUS
    <1>1. /\ gcstate \notin Marking /\ gcstate' \in {"sweep", "finalize", "pause"}
          /\ full' \in {full, "no"}
          /\ UNCHANGED <<weakmode, alloc, ref, finalized, stack, color, gray, grayagain, weak, tmudata, tosweep, called>>
        BY DEF SweepEnd, EndCycle, marks, Marking
    <1>2. KindInv' /\ ColorInv' /\ NoDangling'
        BY <1>1 DEF GCInv, KindInv, ColorInv, NoDangling, Stays
    <1>3. /\ alloc' \subseteq Objects /\ gcstate' \notin Marking /\ {Main} \cup Roots \subseteq alloc'
          /\ weakmode' \subseteq Tables /\ finalized' \subseteq Udatas /\ stack' \subseteq Objects
          /\ full' \in {"no", "sweep", "cycle"} /\ tosweep' \subseteq alloc' /\ gcstate' \in States
        BY <1>1 DEF GCInv, TypeOK, Marking, States
    <1>4. /\ color' \in [Objects -> Colors] /\ ref' \in [Holders -> Objects \cup {Nil}]
          /\ \A s \in Strings : color'[s] # "black"
          /\ \A u \in Udatas : color'[u] # "gray"
          /\ color'[Main] # "black"
        BY <1>1 DEF GCInv, TypeOK
    <1> QED BY <1>2, <1>3, <1>4, RestingGC

\* The userdata whose finalizer is called comes back alive, white and in hand.
LEMMA CallTMGC == GCInv /\ QueueInv' /\ CallTM => GCInv'
    <1> SUFFICES ASSUME GCInv, QueueInv', CallTM PROVE GCInv'
        OBVIOUS
    <1> DEFINE u == Head(tmudata)
    <1>1. /\ gcstate = "finalize" /\ tmudata # <<>> /\ tmudata' = Tail(tmudata)
          /\ color' = [color EXCEPT ![u] = "white"] /\ stack' = stack \cup {u}
          /\ UNCHANGED <<weakmode, alloc, ref, finalized, gcstate, full, gray, grayagain, weak, tosweep>>
        BY DEF CallTM
    <1>2. u \in Range(tmudata) /\ Range(tmudata') = Range(tmudata) \ {u}
        BY <1>1, TailInjective DEF GCInv, QueueInv
    <1>3. /\ KindInv /\ TypeOK /\ ColorInv /\ NoDangling
          /\ color \in [Objects -> Colors] /\ ref \in [Holders -> Objects \cup {Nil}]
          /\ u \in alloc /\ u \in Udatas /\ u \in Objects /\ color[u] # "dead"
        BY <1>2, Kinds DEF GCInv, TypeOK, NoDangling, Stays
    <1> HIDE DEF u
    <1>4. /\ color'[u] = "white" /\ \A x \in Objects : x # u => color'[x] = color[x]
          /\ color' \in [Objects -> Colors]
        BY <1>1, <1>3 DEF Colors
    <1>5. KindInv'
        BY <1>1, <1>3 DEF KindInv
    <1>6. ColorInv'
        BY <1>1, <1>2, <1>3, <1>4, Kinds DEF ColorInv, TypeOK
    <1>7. NoDangling'
        <2>1. \A x \in Objects : Stays(x) => x \in alloc' /\ color'[x] # "dead"
            BY <1>1, <1>4 DEF Stays
        <2>2. \A h \in Holders : h \in alloc' /\ color'[h] # "dead" => Stays(h) /\ ref'[h] = ref[h]
            BY <1>1, <1>3, <1>4, Kinds DEF Stays
        <2>3. stack \cup Roots \cup Range(tmudata) \subseteq Objects
            BY <1>3, Kinds DEF TypeOK
        <2>4. \A o \in stack' \cup Range(tmudata') : o \in stack \cup Range(tmudata)
            BY <1>1, <1>2
        <2> QED BY <1>3, <2>1, <2>2, <2>3, <2>4, DanglingFrame
    <1>8. /\ \A s \in Strings : color'[s] # "black"
          /\ \A x \in Udatas : color'[x] # "gray"
          /\ color'[Main] # "black"
        BY <1>3, <1>4, Kinds DEF TypeOK
    <1>9. /\ alloc' \subseteq Objects /\ gcstate' \notin Marking /\ {Main} \cup Roots \subseteq alloc'
          /\ weakmode' \subseteq Tables /\ finalized' \subseteq Udatas /\ stack' \subseteq Objects
          /\ full' \in {"no", "sweep", "cycle"} /\ tosweep' \subseteq alloc' /\ gcstate' \in States
          /\ ref' \in [Holders -> Objects \cup {Nil}]
        BY <1>1, <1>3 DEF TypeOK, Marking, States
    <1> QED BY <1>4, <1>5, <1>6, <1>7, <1>8, <1>9, RestingGC

-----------------------------------------------------------------------------
(* Every step                                                              *)

LEMMA CollectorGC == GCInv /\ QueueInv' /\ Collector => GCInv'
    BY MarkRootGC, PropagateGC, RemarkWeakGC, RemarkAgainGC, SeparateGC, ClearAndFlipGC,
       SweepGC, EndGC, CallTMGC DEF Collector

LEMMA ProgramGC == GCInv /\ QueueInv' /\ Program => GCInv'
    <1> SUFFICES ASSUME GCInv, QueueInv', Program PROVE GCInv'
        OBVIOUS
    <1>1. CASE \E o \in Holders : New(o)
        BY <1>1, NewGC
    <1>2. CASE \E s \in Strings : NewString(s)
        BY <1>2, NewStringGC
    <1>3. CASE \E h \in Holders : Get(h)
        BY <1>3, GetGC
    <1>4. CASE \E o \in Objects : Drop(o)
        BY <1>4, DropGC
    <1>5. CASE \E t \in Tables, v \in Objects \cup {Nil} : SetTable(t, v)
        BY <1>5, SetTableGC
    <1>6. CASE \E u \in Udatas, e \in Tables : SetEnv(u, e)
        BY <1>6, SetEnvGC
    <1>7. CASE \E t \in Tables : SetMode(t)
        BY <1>7, SetModeGC
    <1>8. CASE FullGC
        BY <1>8, FullGCGC
    <1> QED BY <1>1, <1>2, <1>3, <1>4, <1>5, <1>6, <1>7, <1>8 DEF Program

LEMMA NextGC == GCInv /\ [Next]_vars => GCInv'
    <1> SUFFICES ASSUME GCInv, [Next]_vars PROVE GCInv'
        OBVIOUS
    <1>1. QueueInv'
        BY NextQueueInv DEF GCInv
    <1>2. CASE UNCHANGED vars
        <2> USE <1>2 DEF GCInv, vars
        <2>1. TypeOK' /\ KindInv' /\ ColorInv'
            BY DEF TypeOK, KindInv, ColorInv, Lists
        <2>2. ListInv' /\ AtomicInv' /\ TriColour' /\ NoDangling'
            BY DEF ListInv, Listed, AtomicInv, StackMarked, TriColour, NoDangling, Stays
        <2> QED BY <1>1, <2>1, <2>2
    <1>3. CASE Next
        BY <1>1, <1>3, CollectorGC, ProgramGC DEF Next
    <1> QED BY <1>2, <1>3

-----------------------------------------------------------------------------
\* The marks fit the kinds of the objects: no string is ever black, no userdata gray,
\* and the thread is never black (lgc.c:76, 295).
THEOREM HeapTyped == Spec => []TypeOK
    <1>1. GCInv => TypeOK
        BY DEF GCInv
    <1> QED BY <1>1, InitGC, NextGC, PTL DEF Spec

\* Nothing the program can reach is freed or about to be, wherever the collector stands
\* when the program writes to its stack, tables and environments (lgc.c: barriers,
\* atomic, cleartable; lstring.c:86).
THEOREM NothingDangles == Spec => []NoDangling
    <1>1. GCInv => NoDangling
        BY DEF GCInv
    <1> QED BY <1>1, InitGC, NextGC, PTL DEF Spec

\* No black object refers to a white one while the heap is being marked (lgc.c:667).
THEOREM ColoursApart == Spec => []TriColour
    <1>1. GCInv => TriColour
        BY DEF GCInv
    <1> QED BY <1>1, InitGC, NextGC, PTL DEF Spec

\* No object is linked twice through its gclist, and what is linked is gray (lgc.c:81,
\* 189, 300, 686).
THEOREM ListsApart == Spec => []ListsDisjoint
    <1>1. GCInv => ListsDisjoint
        <2> SUFFICES ASSUME GCInv, gcstate \in Marking
                     PROVE  IsInjective(Lists) /\ \A o \in Range(Lists) : color[o] = "gray"
            BY DEF ListsDisjoint
        <2>1. /\ gray \in Seq({Main} \cup Tables) /\ grayagain \in Seq({Main} \cup Tables)
              /\ weak \in Seq({Main} \cup Tables)
              /\ IsInjective(gray) /\ IsInjective(grayagain) /\ IsInjective(weak)
              /\ Range(gray) \cap Range(grayagain) = {} /\ Range(gray) \cap Range(weak) = {}
              /\ Range(grayagain) \cap Range(weak) = {}
              /\ \A o \in {Main} \cup Tables : o \in Listed <=> o \in alloc /\ color[o] = "gray"
            BY DEF GCInv, KindInv, ListInv
        <2> DEFINE rest == grayagain \o weak
        <2>2. /\ rest \in Seq({Main} \cup Tables) /\ IsInjective(rest)
              /\ Range(rest) = Range(grayagain) \cup Range(weak)
            BY <2>1, ConcatInjective
        <2>3. Lists = gray \o rest
            BY <2>1 DEF Lists
        <2> HIDE DEF rest
        <2>4. Range(gray) \cap Range(rest) = {}
            BY <2>1, <2>2
        <2>5. IsInjective(gray \o rest) /\ Range(gray \o rest) = Range(gray) \cup Range(rest)
            BY <2>1, <2>2, <2>4, ConcatInjective
        <2>6. Listed \subseteq {Main} \cup Tables
            BY <2>1 DEF Listed, Range
        <2> QED BY <2>1, <2>2, <2>3, <2>5, <2>6 DEF Listed
    <1> QED BY <1>1, InitGC, NextGC, PTL DEF Spec

-----------------------------------------------------------------------------
(* Finalizers come first                                                   *)

\* Only the sweep frees an object, and a dead one.
LEMMA OnlySweepFrees ==
    ASSUME GCInv, [Next]_vars, ~Sweep
    PROVE  alloc \subseteq alloc'
    <1>1. CASE UNCHANGED vars
        BY <1>1 DEF vars
    <1>2. CASE Collector
        BY <1>2 DEF Collector, MarkRoot, Propagate, RemarkWeak, RemarkAgain, Separate,
                    ClearAndFlip, SweepEnd, CallTM, EndCycle
    <1>3. CASE Program
        BY <1>3 DEF Program, New, NewString, Get, Drop, SetTable, SetEnv, SetMode, FullGC
    <1> QED BY <1>1, <1>2, <1>3 DEF Next

\* Nothing is dead before the sweep or after it, and on the way the program makes
\* nothing dead.
LEMMA DeadFrame ==
    ASSUME GCInv, GCInv', [Next]_vars, ~ClearAndFlip, NEW u \in Udatas \cap alloc', color'[u] = "dead"
    PROVE  u \in alloc /\ color[u] = "dead"
    <1> USE DEF GCInv
    <1>1. u \in tosweep' /\ gcstate' \in {"sweepstring", "sweep"} /\ u \in Objects
        BY Kinds DEF ColorInv, QueueInv
    <1>2. color \in [Objects -> Colors]
        BY DEF TypeOK
    <1>3. CASE UNCHANGED vars
        BY <1>3 DEF vars
    <1>4. CASE Sweep
        BY <1>1, <1>2, <1>4 DEF Sweep, TypeOK
    <1>5. CASE Collector /\ ~Sweep
        <2>1. SweepEnd \/ EndCycle \/ gcstate' \in Marking \/ gcstate' = "finalize"
            BY <1>5 DEF Collector, MarkRoot, Propagate, RemarkWeak, RemarkAgain, Separate, CallTM,
                        Marking
        <2> QED BY <1>1, <2>1 DEF SweepEnd, EndCycle, marks, Marking
    <1>6. CASE \E o \in Holders : New(o)
        BY <1>1, <1>2, <1>6 DEF New
    <1>7. CASE \E s \in Strings : NewString(s)
        BY <1>1, <1>2, <1>7, Kinds DEF NewString, Resurrect
    <1>8. CASE \/ \E h \in Holders : Get(h)
               \/ \E o \in Objects : Drop(o)
               \/ FullGC
        BY <1>8 DEF Get, Drop, FullGC
    <1>9. CASE \E t \in Tables, v \in Objects \cup {Nil} : SetTable(t, v)
        BY <1>1, <1>2, <1>9, Kinds DEF SetTable, BarrierBack
    <1>10. CASE \E x \in Udatas, e \in Tables : SetEnv(x, e)
        BY <1>1, <1>2, <1>10 DEF SetEnv, BarrierForward
    <1>11. CASE \E t \in Tables : SetMode(t)
        BY <1>1, <1>2, <1>11, Kinds DEF SetMode, BarrierBack
    <1> QED BY <1>3, <1>4, <1>5, <1>6, <1>7, <1>8, <1>9, <1>10, <1>11 DEF Next, Program

LEMMA InitLookedAt == Init => LookedAtInv
    BY Kinds DEF Init, LookedAtInv

LEMMA NextLookedAt ==
    ASSUME GCInv, GCInv', LookedAtInv, [Next]_vars
    PROVE  LookedAtInv'
    <1> USE DEF LookedAtInv
    <1>1. CASE Separate
        <2>1. PICK dead \in SetToSeqs(Unfinalized \cap Finalizable) : tmudata' = tmudata \o dead
            BY <1>1 DEF Separate
        <2>2. IsFiniteSet(Unfinalized \cap Finalizable)
            BY Kinds, FS_Subset DEF Unfinalized
        <2>3. dead \in Seq(Finalizable) /\ Range(dead) = Unfinalized \cap Finalizable
            <3>1. dead \in Seq(Unfinalized \cap Finalizable) /\ Range(dead) = Unfinalized \cap Finalizable
                BY <2>1, <2>2, SetToSeqsType
            <3> QED BY <3>1
        <2>4. Range(tmudata') = Range(tmudata) \cup Range(dead)
            BY <2>1, <2>3, ConcatRange DEF GCInv, QueueInv
        <2>5. finalized' = finalized \cup Unfinalized /\ UNCHANGED called /\ ~ClearAndFlip
            BY <1>1 DEF Separate, ClearAndFlip
        <2>6. \A u \in Udatas \cap alloc' : color'[u] = "dead" => u \in finalized'
            BY <2>5, DeadFrame
        <2> QED BY <2>3, <2>4, <2>5, <2>6
    <1>2. CASE ClearAndFlip
        <2>1. /\ UNCHANGED <<alloc, finalized, tmudata, called>> /\ gcstate = "tmu"
              /\ color' = Flip([o \in Objects |->
                              IF o \in {ref[h] : h \in Range(weak)} \cap Strings /\ IsWhite(color, o)
                              THEN "gray" ELSE color[o]])
            BY <1>2 DEF ClearAndFlip
        <2>2. ASSUME NEW u \in Udatas \cap alloc, color'[u] = "dead" PROVE u \in finalized
            <3>1. IsWhite(color, u)
                <4>1. u \in Objects /\ u \notin Strings
                    BY Kinds
                <4> QED BY <2>1, <2>2, <4>1 DEF Flip, IsWhite
            <3> QED BY <2>1, <3>1 DEF GCInv, AtomicInv
        <2> QED BY <2>1, <2>2
    <1>3. CASE Sweep
        <2>1. PICK o \in tosweep :
                  \/ finalized' = finalized \ {o} /\ called' = called \ {o} /\ alloc' = alloc \ {o}
                  \/ UNCHANGED <<alloc, finalized, called>>
            BY <1>3 DEF Sweep
        <2>2. UNCHANGED tmudata /\ ~ClearAndFlip
            BY <1>3 DEF Sweep, ClearAndFlip
        <2>3. \A u \in Udatas \cap alloc' : color'[u] = "dead" => u \in finalized /\ u \in alloc
            BY <2>2, DeadFrame
        <2> QED BY <2>1, <2>2, <2>3
    <1>4. CASE CallTM
        <2>1. /\ Range(tmudata') = Range(tmudata) \ {Head(tmudata)}
              /\ called' = called \cup {Head(tmudata)} /\ UNCHANGED finalized /\ ~ClearAndFlip
            BY <1>4, TailInjective DEF CallTM, GCInv, QueueInv, ClearAndFlip
        <2>2. \A u \in Udatas \cap alloc' : color'[u] = "dead" => u \in finalized
            BY <2>1, DeadFrame
        <2> QED BY <2>1, <2>2
    <1>5. CASE ~Separate /\ ~ClearAndFlip /\ ~Sweep /\ ~CallTM
        <2>1. UNCHANGED <<finalized, called, tmudata>>
            <3>1. CASE UNCHANGED vars
                BY <3>1 DEF vars
            <3>2. CASE Collector
                BY <1>5, <3>2 DEF Collector, MarkRoot, Propagate, RemarkWeak, RemarkAgain, SweepEnd,
                                  EndCycle
            <3>3. CASE Program
                BY <3>3 DEF Program, New, NewString, Get, Drop, SetTable, SetEnv, SetMode, FullGC
            <3> QED BY <3>1, <3>2, <3>3 DEF Next
        <2>2. \A u \in Udatas \cap alloc' : color'[u] = "dead" => u \in finalized
            BY <1>5, DeadFrame
        <2> QED BY <2>1, <2>2
    <1> QED BY <1>1, <1>2, <1>3, <1>4, <1>5

\* A userdata with __gc is freed only after the call of its finalizer (lgc.c:128, 435, 445).
THEOREM FinalizersFirst == Spec => FinalizedFirst
    <1>1. ASSUME GCInv, LookedAtInv, [Next]_vars
          PROVE  [\A u \in Finalizable \cap alloc : u \notin alloc' => u \in called]_vars
        <2> SUFFICES ASSUME NEW u \in Finalizable \cap alloc, u \notin alloc' PROVE u \in called
            OBVIOUS
        <2>1. Sweep
            BY <1>1, OnlySweepFrees
        <2>2. u \in tosweep /\ color[u] = "dead"
            BY <2>1 DEF Sweep, IsSwept
        <2>3. u \notin Range(tmudata)
            BY <1>1, <2>2 DEF GCInv, QueueInv
        <2> QED BY <1>1, <2>2, <2>3, Kinds DEF LookedAtInv
    <1>2. GCInv /\ LookedAtInv /\ [Next]_vars => GCInv' /\ LookedAtInv'
        BY NextGC, NextLookedAt
    <1>3. Init => GCInv /\ LookedAtInv
        BY InitGC, InitLookedAt
    <1> QED BY <1>1, <1>2, <1>3, PTL DEF Spec, FinalizedFirst

=============================================================================
