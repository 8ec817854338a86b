------------------------------- MODULE LuaGC -------------------------------
(***************************************************************************)
(* The incremental garbage collector of the Lua that ProfiLua embeds       *)
(* (lgc.c), interleaved with the program it collects for.  Everything runs *)
(* on one thread, but luaC_step is called from every allocation, so that   *)
(* the collector takes a few of its small steps and the program goes on    *)
(* changing the very graph that is being marked or swept.                  *)
(*                                                                         *)
(* The heap holds the main thread, tables, full userdata and strings.  A   *)
(* table has one slot, which holds a value or, in the tables of Keyed, a   *)
(* key that goes with a number; a userdata has its environment.  Metatables    *)
(* are kept by the registry (as those of liolib.c and loadlib.c are): a    *)
(* userdata of Finalizable has one with __gc, and a table takes or gives   *)
(* up one whose __mode makes its slot weak at any time.  Closures, upvalues, prototypes    *)
(* and coroutines are left out: lua_State has one stack, and remarkupvals  *)
(* and markmt find nothing.                                                *)
(*                                                                         *)
(* The two whites are named from the collector's side: "white" is          *)
(* currentwhite and "dead" is otherwhite, so that flipping currentwhite    *)
(* swaps the two names on every object.                                    *)
(***************************************************************************)
EXTENDS Naturals, FiniteSets, SequencesExt

CONSTANTS
    Main,          \* the main thread
    Globals,       \* gt(mainthread)
    Registry,      \* the registry
    Tables,        \* memory for tables, Globals and Registry among them
    Keyed,         \* those whose slot holds a key, with a number as its value
    Udatas,        \* memory for full userdata
    Finalizable,   \* those with a __gc metamethod
    Strings,       \* the strings the program uses, each interned once
    Nil,           \* no object
    MaxStack       \* bound: values the program keeps on the stack

Holders == Tables \cup Udatas
Objects == {Main} \cup Holders \cup Strings
Roots == {Globals, Registry}

ASSUME HeapAssumption ==
    /\ Roots \subseteq Tables /\ Keyed \subseteq Tables
    /\ Finalizable \subseteq Udatas
    /\ Main \notin Holders \cup Strings
    /\ Tables \cap Udatas = {} /\ Holders \cap Strings = {}
    /\ Nil \notin Objects
    /\ IsFiniteSet(Objects) /\ MaxStack \in Nat

VARIABLES
    alloc,         \* objects that are allocated
    color,         \* marked: the bits of white and black
    weakmode,      \* tables whose metatable makes the slot weak
    ref,           \* the slot of a table, the env of a userdata
    finalized,     \* userdata with FINALIZEDBIT
    stack,         \* objects in the part of the stack that is in use
    gcstate,       \* gcstate, with atomic() cut at its calls of propagateall
    full,          \* progress of luaC_fullgc: "no", "sweep", "cycle"
    gray, grayagain, weak,  \* the lists threaded through gclist
    tmudata,       \* userdata whose __gc is to be called, first one first
    tosweep,       \* objects after sweepstrgc and sweepgc
    called         \* history: userdata whose __gc was called

marks == <<color, gray, grayagain, weak>>
vars == <<alloc, color, weakmode, ref, finalized, stack, gcstate, full, gray, grayagain,
          weak, tmudata, tosweep, called>>

Colors == {"white", "dead", "gray", "black"}
Marking == {"propagate", "weak", "again", "tmu"}
States == {"pause", "sweepstring", "sweep", "finalize"} \cup Marking
Lists == gray \o grayagain \o weak

IsWhite(c, o) == c[o] \in {"white", "dead"}

Init ==
    /\ alloc = {Main} \cup Roots
    /\ color = [o \in Objects |-> "white"]
    /\ weakmode = {}
    /\ ref = [o \in Holders |-> Nil]
    /\ finalized = {} /\ called = {}
    /\ stack = {}
    /\ gcstate = "pause" /\ full = "no"
    /\ gray = <<>> /\ grayagain = <<>> /\ weak = <<>>
    /\ tmudata = <<>> /\ tosweep = {}

-----------------------------------------------------------------------------
(* Marking.  A mark is a record of the colours and the gray list.          *)

Mark == [color |-> color, gray |-> gray]

\* Shade without gray2black
ShadeGray(o) == "gray"

\* white2gray, and gray2black for "udata are never gray"
Shade(o) == IF o \in Udatas THEN "black" ELSE "gray"

\* The white objects among objs, and the white environments of the userdata there
Whites(c, objs) ==
    LET found == {o \in objs : IsWhite(c, o)}
    IN  found \cup {e \in {ref[u] : u \in found \cap Udatas} \ {Nil} : IsWhite(c, e)}

\* reallymarkobject of each of objs that is white, in any order: tables and the
\* thread are linked into the gray list
MarkObjects(objs, m) ==
    LET marked == Whites(m.color, objs)
    IN  {[color |-> [o \in Objects |-> IF o \in marked THEN Shade(o) ELSE m.color[o]],
          gray  |-> linked \o m.gray]
         : linked \in SetToSeqs(marked \cap ({Main} \cup Tables))}

\* what traversetable and traversestack mark
Traversed(o) ==
    IF o = Main THEN stack \cup {Globals}
    ELSE {v \in {ref[o]} \ {Nil} : o \notin weakmode}

\* propagatemark: one object leaves the gray list
Propagate ==
    /\ gcstate \in Marking /\ gray # <<>>
    /\ LET o == Head(gray)
           black == [color |-> [color EXCEPT ![o] = "black"], gray |-> Tail(gray)]
           stays == o \in weakmode \cup {Main}
       IN  /\ \E m \in MarkObjects(Traversed(o), black) :
                /\ gray' = m.gray
                /\ color' = IF stays THEN [m.color EXCEPT ![o] = "gray"] ELSE m.color
           /\ grayagain' = IF o = Main THEN <<o>> \o grayagain ELSE grayagain
           /\ weak' = IF o \in weakmode THEN <<o>> \o weak ELSE weak
    /\ UNCHANGED <<weakmode, alloc, ref, finalized, stack, gcstate, full, tmudata, tosweep, called>>

\* markroot, from GCSpause or in the middle of luaC_fullgc
MarkRoot ==
    /\ \/ gcstate = "pause" /\ full = "no" /\ full' = full
       \/ gcstate = "finalize" /\ full = "sweep" /\ full' = "cycle"
    /\ \E m \in MarkObjects({Main} \cup Roots, [Mark EXCEPT !.gray = <<>>]) :
         color' = m.color /\ gray' = m.gray
    /\ grayagain' = <<>> /\ weak' = <<>>
    /\ gcstate' = "propagate"
    /\ UNCHANGED <<weakmode, alloc, ref, finalized, stack, tmudata, tosweep, called>>

-----------------------------------------------------------------------------
(* atomic(), in the stages its calls of propagateall cut it into.  The     *)
(* program does not run between them.                                      *)

\* everything caught is black: go over the weak tables once more
RemarkWeak ==
    /\ gcstate = "propagate" /\ gray = <<>>
    /\ \E m \in MarkObjects({Main}, [Mark EXCEPT !.gray = weak]) :
         color' = m.color /\ gray' = m.gray
    /\ weak' = <<>>
    /\ gcstate' = "weak"
    /\ UNCHANGED <<weakmode, alloc, ref, finalized, stack, full, grayagain, tmudata, tosweep, called>>

RemarkAgain ==
    /\ gcstate = "weak" /\ gray = <<>>
    /\ gray' = grayagain /\ grayagain' = <<>>
    /\ gcstate' = "again"
    /\ UNCHANGED <<weakmode, alloc, color, ref, finalized, stack, full, weak, tmudata, tosweep, called>>

\* Unfinalized without isfinalized
UnfinalizedAgain == {u \in Udatas \cap alloc : IsWhite(color, u)}

\* luaC_separateudata(L, 0): the white userdata not looked at in an earlier cycle
Unfinalized == {u \in Udatas \cap alloc : IsWhite(color, u) /\ u \notin finalized}

\* makewhite of what marktmu marks
MadeWhite(us) == [o \in Objects |-> IF o \in us THEN "white" ELSE color[o]]

Separate ==
    /\ gcstate = "again" /\ gray = <<>>
    /\ \E dead \in SetToSeqs(Unfinalized \cap Finalizable) :
         LET queue == tmudata \o dead
         IN  /\ tmudata' = queue
             /\ \E m \in MarkObjects(Range(queue), [Mark EXCEPT !.color = MadeWhite(Range(queue))]) :
                  color' = m.color /\ gray' = m.gray
    /\ finalized' = finalized \cup Unfinalized
    /\ gcstate' = "tmu"
    /\ UNCHANGED <<weakmode, alloc, ref, stack, full, grayagain, weak, tosweep, called>>

\* iscleared, of the slot of weak table h
IsCleared(h) ==
    LET o == ref[h]
    IN  /\ o \in Objects \ Strings
        /\ \/ IsWhite(color, o)
           \/ o \in finalized /\ h \notin Keyed

\* Flip if currentwhite stayed
FlipNot(c) == c

\* currentwhite = otherwhite: the whites swap names
Flip(c) == [o \in Objects |-> CASE c[o] = "white" -> "dead"
                                [] c[o] = "dead" -> "white"
                                [] OTHER -> c[o]]

\* cleartable, which marks the strings it meets, and the start of the sweep
ClearAndFlip ==
    /\ gcstate = "tmu" /\ gray = <<>>
    /\ LET met == {ref[h] : h \in Range(weak)} \cap Strings
       IN  color' = Flip([o \in Objects |->
                          IF o \in met /\ IsWhite(color, o) THEN "gray" ELSE color[o]])
    /\ ref' = [h \in Holders |->
                 IF h \in Range(weak) /\ IsCleared(h) THEN Nil ELSE ref[h]]
    /\ tosweep' = alloc \ Range(tmudata)
    /\ gcstate' = "sweepstring"
    /\ UNCHANGED <<weakmode, alloc, finalized, stack, full, gray, grayagain, weak, tmudata, called>>

-----------------------------------------------------------------------------
(* Sweeping: an object that was not marked is freed, any other turns to    *)
(* the current white.  One object at a time stands for the buckets of the  *)
(* string table and the runs of GCSWEEPMAX objects of the code.  Userdata  *)
(* are chained behind the main thread, which was linked first.             *)

\* IsSwept if both whites were dead
IsSweptWhite(o) == IsWhite(color, o)

IsSwept(o) == color[o] = "dead"

Sweep ==
    /\ \E o \in tosweep :
         /\ \/ gcstate = "sweepstring" /\ o \in Strings
            \/ gcstate = "sweep" /\ o \in Tables
            \/ gcstate = "sweep" /\ o = Main /\ tosweep \cap Tables = {}
            \/ gcstate = "sweep" /\ o \in Udatas /\ tosweep \subseteq Udatas
         /\ tosweep' = tosweep \ {o}
         /\ \/ /\ IsSwept(o)
               /\ alloc' = alloc \ {o}
               /\ color' = [color EXCEPT ![o] = "white"]
               /\ ref' = [h \in Holders |-> IF h = o THEN Nil ELSE ref[h]]
               /\ weakmode' = weakmode \ {o}
               /\ finalized' = finalized \ {o} /\ called' = called \ {o}
            \/ /\ ~IsSwept(o)
               /\ color' = [color EXCEPT ![o] = "white"]
               /\ UNCHANGED <<alloc, weakmode, ref, finalized, called>>
    /\ UNCHANGED <<stack, gcstate, full, gray, grayagain, weak, tmudata>>

SweepEnd ==
    /\ \/ gcstate = "sweepstring" /\ tosweep \cap Strings = {} /\ gcstate' = "sweep"
       \/ gcstate = "sweep" /\ tosweep = {} /\ gcstate' = "finalize"
    /\ UNCHANGED <<weakmode, alloc, ref, finalized, stack, full, marks, tmudata, tosweep, called>>

\* GCTM: back to the root list, and its __gc is called with it on the stack.
\* What the finalizer does are the program's steps that follow.
CallTM ==
    /\ gcstate = "finalize" /\ full # "sweep" /\ tmudata # <<>>
    /\ LET u == Head(tmudata)
       IN  /\ color' = [color EXCEPT ![u] = "white"]
           /\ stack' = stack \cup {u}
           /\ called' = called \cup {u}
    /\ tmudata' = Tail(tmudata)
    /\ UNCHANGED <<weakmode, alloc, ref, finalized, gcstate, full, gray, grayagain, weak, tosweep>>

EndCycle ==
    /\ gcstate = "finalize" /\ full # "sweep" /\ tmudata = <<>>
    /\ gcstate' = "pause" /\ full' = "no"
    /\ UNCHANGED <<weakmode, alloc, ref, finalized, stack, marks, tmudata, tosweep, called>>

Collector ==
    \/ MarkRoot \/ Propagate \/ RemarkWeak \/ RemarkAgain \/ Separate
    \/ ClearAndFlip \/ Sweep \/ SweepEnd \/ CallTM \/ EndCycle

-----------------------------------------------------------------------------
(* The program.  It reaches objects by its stack, _G and the registry, and *)
(* it does not run inside atomic() nor, but for the finalizers, inside     *)
(* luaC_fullgc.                                                            *)

ProgramRuns ==
    /\ gcstate \notin {"weak", "again", "tmu"}
    /\ full = "no" \/ (full = "cycle" /\ gcstate = "finalize")

InHand == stack \cup Roots

PushValue(o) ==
    /\ Cardinality(stack \cup {o}) <= MaxStack
    /\ stack' = stack \cup {o}

\* luaC_link and luaS_newudata: the current white; env is the running one's
New(o) ==
    /\ ProgramRuns
    /\ o \in Holders \ alloc
    /\ alloc' = alloc \cup {o}
    /\ color' = [color EXCEPT ![o] = "white"]
    /\ ref' = [ref EXCEPT ![o] = IF o \in Udatas THEN Globals ELSE Nil]
    /\ PushValue(o)
    /\ UNCHANGED <<weakmode, finalized, called, gcstate, full, gray, grayagain, weak, tmudata, tosweep>>

\* Resurrect without changewhite
ResurrectNot(s) == color

\* changewhite of a string that the sweep has not reached
Resurrect(s) == [color EXCEPT ![s] = IF @ = "dead" THEN "white" ELSE @]

\* luaS_newlstr: a string met before is found in the string table, dead or not
NewString(s) ==
    /\ ProgramRuns
    /\ s \in Strings
    /\ alloc' = alloc \cup {s}
    /\ color' = IF s \in alloc THEN Resurrect(s) ELSE [color EXCEPT ![s] = "white"]
    /\ PushValue(s)
    /\ UNCHANGED <<weakmode, ref, finalized, gcstate, full, gray, grayagain, weak, tmudata, tosweep, called>>

\* a slot, a key of next() or an environment
Get(h) ==
    /\ ProgramRuns
    /\ h \in InHand \cap Holders /\ ref[h] # Nil
    /\ PushValue(ref[h])
    /\ UNCHANGED <<weakmode, alloc, color, ref, finalized, gcstate, full, gray, grayagain, weak, tmudata, tosweep, called>>

Drop(o) ==
    /\ ProgramRuns
    /\ o \in stack
    /\ stack' = stack \ {o}
    /\ UNCHANGED <<weakmode, alloc, color, ref, finalized, gcstate, full, gray, grayagain, weak, tmudata, tosweep, called>>

\* NeedsBack without isblack
NeedsBackAlways(t, v) == v # Nil /\ IsWhite(color, v)

\* luaC_barriert: a black table that takes a white value
NeedsBack(t, v) == v # Nil /\ IsWhite(color, v) /\ color[t] = "black"

\* luaC_barrierback
BarrierBack(t) ==
    /\ color' = [color EXCEPT ![t] = "gray"]
    /\ grayagain' = <<t>> \o grayagain

SetTable(t, v) ==
    /\ ProgramRuns
    /\ t \in InHand \cap Tables
    /\ v \in stack \cup {Nil} /\ v # ref[t]
    /\ ref' = [ref EXCEPT ![t] = v]
    /\ \/ NeedsBack(t, v) /\ BarrierBack(t)
       \/ ~NeedsBack(t, v) /\ UNCHANGED <<color, grayagain>>
    /\ UNCHANGED <<weakmode, alloc, finalized, stack, gcstate, full, gray, weak, tmudata, tosweep, called>>

\* NeedsForward if there were no barrier
NeedsForwardNever(u, e) == FALSE

\* luaC_objbarrier: a black userdata that takes a white table
NeedsForward(u, e) == IsWhite(color, e) /\ color[u] = "black"

\* luaC_barrierf
BarrierForward(u, e) ==
    \/ /\ gcstate = "propagate"
       /\ \E m \in MarkObjects({e}, Mark) : color' = m.color /\ gray' = m.gray
    \/ /\ gcstate # "propagate"
       /\ color' = [color EXCEPT ![u] = "white"] /\ UNCHANGED gray

\* lua_setfenv of a userdata
SetEnv(u, e) ==
    /\ ProgramRuns
    /\ u \in stack \cap Udatas /\ e \in InHand \cap Tables /\ e # ref[u]
    /\ ref' = [ref EXCEPT ![u] = e]
    /\ \/ NeedsForward(u, e) /\ BarrierForward(u, e)
       \/ ~NeedsForward(u, e) /\ UNCHANGED <<color, gray>>
    /\ UNCHANGED <<weakmode, alloc, finalized, stack, gcstate, full, grayagain, weak, tmudata, tosweep, called>>

\* lua_setmetatable of a table: without __mode, or with a metatable whose __mode
\* makes the slot weak; the registry keeps it, and it may be white or not
SetMode(t) ==
    /\ ProgramRuns
    /\ t \in stack \cap (Tables \ Roots)
    /\ \/ weakmode' = weakmode \ {t} /\ t \in weakmode /\ UNCHANGED <<color, grayagain>>
       \/ weakmode' = weakmode \cup {t} /\ t \notin weakmode
          /\ \/ color[t] = "black" /\ BarrierBack(t)
             \/ UNCHANGED <<color, grayagain>>
    /\ UNCHANGED <<alloc, ref, finalized, stack, gcstate, full, gray, weak, tmudata, tosweep, called>>

\* luaC_fullgc: before the sweep it turns back to it, to whiten every object
FullGC ==
    /\ ProgramRuns
    /\ full' = "sweep"
    /\ IF gcstate \in {"pause", "propagate"}
       THEN /\ gcstate' = "sweepstring"
            /\ tosweep' = alloc \ Range(tmudata)
            /\ gray' = <<>> /\ grayagain' = <<>> /\ weak' = <<>>
       ELSE UNCHANGED <<gcstate, tosweep, gray, grayagain, weak>>
    /\ UNCHANGED <<weakmode, alloc, color, ref, finalized, stack, tmudata, called>>

Program ==
    \/ \E o \in Holders : New(o)
    \/ \E s \in Strings : NewString(s)
    \/ \E h \in Holders : Get(h)
    \/ \E o \in Objects : Drop(o)
    \/ \E t \in Tables, v \in Objects \cup {Nil} : SetTable(t, v)
    \/ \E u \in Udatas, e \in Tables : SetEnv(u, e)
    \/ \E t \in Tables : SetMode(t)
    \/ FullGC

Next == Collector \/ Program

Spec == Init /\ [][Next]_vars

\* A program that goes on allocating goes on calling luaC_step.
FairSpec == Spec /\ WF_vars(Collector)

-----------------------------------------------------------------------------
(* Properties                                                              *)

\* Every mark fits the kind it is on: strings are never blackened and, outside
\* the instant of white2gray, userdata are never gray (lgc.c:76); the thread is
\* never black once its traversal is over, so that writes to the stack need no
\* barrier (lgc.c:295).
TypeOK ==
    /\ alloc \subseteq Objects /\ {Main} \cup Roots \subseteq alloc
    /\ color \in [Objects -> Colors]
    /\ \A s \in Strings : color[s] # "black"
    /\ \A u \in Udatas : color[u] # "gray"
    /\ color[Main] # "black"
    /\ weakmode \subseteq Tables
    /\ ref \in [Holders -> Objects \cup {Nil}]
    /\ finalized \subseteq Udatas /\ called \subseteq finalized
    /\ stack \subseteq Objects
    /\ gcstate \in States /\ full \in {"no", "sweep", "cycle"}
    /\ Range(Lists) \subseteq {Main} \cup Tables
    /\ Range(tmudata) \subseteq Finalizable
    /\ tosweep \subseteq alloc

\* What the program can hold is never freed and never about to be: neither the
\* stack and the roots nor an object that stays refers to freed memory or to an
\* object the sweep will free.  Barriers, the second pass over the thread, the
\* clearing of weak tables, the preservation of userdata to be finalized and the
\* resurrection of strings are all there for this.
Stays(o) == o \in alloc /\ color[o] # "dead"

NoDangling ==
    /\ \A o \in stack \cup Roots \cup Range(tmudata) : Stays(o)
    /\ \A h \in Holders : Stays(h) => ref[h] = Nil \/ Stays(ref[h])

\* While marking, no black object refers to a white one (the invariant
\* luaC_barrierf "must keep", lgc.c:667): only the userdata left in tmudata by an
\* earlier cycle are black with an environment not yet marked.
TriColour ==
    gcstate \in Marking =>
        \A h \in (Holders \cap alloc) \ Range(tmudata) :
            color[h] = "black" /\ ref[h] # Nil => ~IsWhite(color, ref[h])

\* The three lists run through the one gclist field of an object: while marking,
\* an object is on one of them at most, once, and is gray; a second link would
\* cut the list it was on and lose the objects behind it.
ListsDisjoint ==
    gcstate \in Marking =>
        /\ IsInjective(Lists)
        /\ \A o \in Range(Lists) : color[o] = "gray"

\* The finalizer of a userdata is called once at most: a userdata waits in
\* tmudata once, and not after its call, although its finalizer may keep it and a
\* later cycle finds it dead again.
FinalizedOnce ==
    /\ IsInjective(tmudata)
    /\ Range(tmudata) \cap called = {}

\* No userdata with a finalizer is freed before its finalizer was called.
FinalizedFirst ==
    [][\A u \in Finalizable \cap alloc : u \notin alloc' => u \in called]_vars

\* What is reached from the stack, the roots and tmudata by strong references; a
\* string in a weak slot counts, for strings are values, never weak (iscleared)
Reached ==
    LET Strong(h) == h \notin weakmode \/ ref[h] \in Strings
        Follow(S) == S \cup ({ref[h] : h \in {k \in S \cap Holders : Strong(k)}} \ {Nil})
        R[n \in 0 .. Cardinality(Holders)] ==
            IF n = 0 THEN stack \cup Roots \cup Range(tmudata) ELSE Follow(R[n - 1])
    IN  R[Cardinality(Holders)]

\* Garbage is freed in the end, unless the program gets hold of it again (by a
\* finalizer, a weak table or, in a heap with strings, by making one anew), whatever
\* the program writes and whenever it asks for full collections.
GarbageFreed ==
    \A o \in (Holders \cup Strings) \ Roots :
        o \in alloc /\ o \notin Reached ~> o \notin alloc \/ o \in Reached

=============================================================================
