--------------------------- MODULE LuaCallsProofs ---------------------------
(* Proofs about the calls from C into Lua, for any limit of their depth, any *)
(* coroutines and any program: what is known of the thread that runs is      *)
(* known, up to the call it waits at, of every thread that waits.            *)
EXTENDS LuaCalls, FiniteSetTheorems, SequenceTheorems, TLAPS

\* of the first n calls of s, those that count; and those that left a thread waiting
Counted(s, n) == {m \in 1 .. n : s[m].k \in {"call", "resume"}}
Level(s, n)   == Cardinality(Counted(s, n))
Resumed(s, n) == {m \in 1 .. n : s[m].k = "resume"}

IsLast(s, n, m) == m \in Resumed(s, n) /\ \A j \in Resumed(s, n) : j <= m

\* Above the first n calls of s, thread t is at depth nc and was last resumed at bc.
Above(s, n, t, nc, bc) ==
  /\ nc = Level(s, n)
  /\ \/ Resumed(s, n) = {} /\ t = main /\ bc = 0
     \/ \E m \in 1 .. n : IsLast(s, n, m) /\ bc = Level(s, m)
  /\ \A m \in Resumed(s, n) : s[m].from # t

\* Thread t waits at call m of s, in a function that called lua_resume.
Waits(s, m, t, nc, bc, st, bg) ==
  /\ Above(s, m - 1, t, nc[t], bc[t])
  /\ nc[t] < LUAI_MAXCCALLS
  /\ st[t] = "ok" /\ bg[t]

Sound(s, m, nc, bc, st, bg) ==
  /\ s[m].k = "pcall" => s[m].nCcalls = Level(s, m - 1) /\ s[m].nCcalls < Limit
  /\ s[m].k = "resume" => Waits(s, m, s[m].from, nc, bc, st, bg)

Frames(s, n, nc, bc, st, bg) == \A m \in 1 .. n : Sound(s, m, nc, bc, st, bg)

\* The thread that runs is not dead, has given way only to its lua_resume, and has
\* room for the call of an error function.
Runner(s, n, stt, e) ==
  /\ stt \in {"ok", "yield"}
  /\ stt = "yield" => s # <<>> /\ Last(s).k = "resume" /\ e = ""
  /\ n <= Limit
  /\ e \in {"", "ERRMSG"} => n < Limit

CallsInv ==
  /\ TypeOK
  /\ Frames(stack, Len(stack), nCcalls, baseCcalls, status, begun)
  /\ Above(stack, Len(stack), L, nCcalls[L], baseCcalls[L])
  /\ Runner(stack, nCcalls[L], status[L], err)

-----------------------------------------------------------------------------
(* Counting calls                                                          *)

LEMMA LimitAbove ==
  Limit \in Nat /\ LUAI_MAXCCALLS \in Nat /\ 1 < LUAI_MAXCCALLS /\ LUAI_MAXCCALLS < Limit
  BY CcallsAssumption DEF Limit

LEMMA FrameFields ==
  ASSUME NEW fr \in Frame
  PROVE  /\ fr.k \in {"call", "pcall", "resume"}
         /\ fr.k = "pcall" => fr.nCcalls \in Nat
         /\ fr.k = "resume" => fr.from \in Threads
  BY DEF Frame

LEMMA CountedFinite ==
  ASSUME NEW s, NEW n \in Nat
  PROVE  IsFiniteSet(Counted(s, n)) /\ Level(s, n) \in Nat
  <1>1. IsFiniteSet(1 .. n)
    BY FS_Interval
  <1>2. Counted(s, n) \in SUBSET (1 .. n)
    BY DEF Counted
  <1>3. IsFiniteSet(Counted(s, n))
    BY <1>1, <1>2, FS_Subset
  <1> QED BY <1>3, FS_CardinalityType DEF Level

LEMMA LevelZero == ASSUME NEW s PROVE Level(s, 0) = 0 /\ Resumed(s, 0) = {}
  <1>1. Counted(s, 0) = {} /\ Resumed(s, 0) = {}
    BY DEF Counted, Resumed
  <1> QED BY <1>1, FS_EmptySet DEF Level

\* One more call counts unless it is luaD_pcall's own.
LEMMA LevelStep ==
  ASSUME NEW s, NEW n \in Nat
  PROVE  Level(s, n + 1) =
           IF s[n + 1].k \in {"call", "resume"} THEN Level(s, n) + 1 ELSE Level(s, n)
  <1>0. IsFiniteSet(Counted(s, n))
    BY CountedFinite
  <1>1. CASE s[n + 1].k \in {"call", "resume"}
    <2>1. Counted(s, n + 1) = Counted(s, n) \cup {n + 1} /\ n + 1 \notin Counted(s, n)
      BY <1>1 DEF Counted
    <2>2. Cardinality(Counted(s, n) \cup {n + 1}) = Cardinality(Counted(s, n)) + 1
      BY <2>1, <1>0, FS_AddElement
    <2> QED BY <1>1, <2>1, <2>2 DEF Level
  <1>2. CASE s[n + 1].k \notin {"call", "resume"}
    <2>1. Counted(s, n + 1) = Counted(s, n)
      BY <1>2 DEF Counted
    <2> QED BY <1>2, <2>1 DEF Level
  <1> QED BY <1>1, <1>2

LEMMA LevelMonotone ==
  ASSUME NEW s, NEW n \in Nat, NEW m \in 0 .. n
  PROVE  Level(s, m) <= Level(s, n)
  <1>1. Counted(s, m) \in SUBSET Counted(s, n)
    BY DEF Counted
  <1>2. IsFiniteSet(Counted(s, n))
    BY CountedFinite
  <1> QED BY <1>1, <1>2, FS_Subset DEF Level

\* the lua_resume that left a thread waiting, and the calls below it
LEMMA ResumedDepth ==
  ASSUME NEW s, NEW n \in Nat, NEW m \in Resumed(s, n)
  PROVE  /\ m \in 1 .. n /\ m - 1 \in 0 .. n /\ s[m].k = "resume"
         /\ Level(s, n) \in Nat /\ Level(s, n) - 1 \in Nat
  <1>1. m \in 1 .. n /\ m - 1 \in Nat /\ m \in 0 .. n /\ s[m].k = "resume" /\ (m - 1) + 1 = m
    BY DEF Resumed
  <1>2. Level(s, m) = Level(s, m - 1) + 1
    <2>1. Level(s, (m - 1) + 1) = Level(s, m - 1) + 1
      <3>1. s[(m - 1) + 1].k \in {"call", "resume"}
        BY <1>1
      <3> QED BY <1>1, <3>1, LevelStep
    <2> QED BY <1>1, <2>1
  <1>3. Level(s, m - 1) \in Nat /\ Level(s, n) \in Nat
    BY <1>1, CountedFinite
  <1>4. Level(s, m) <= Level(s, n)
    BY <1>1, LevelMonotone
  <1> QED BY <1>1, <1>2, <1>3, <1>4

LEMMA BelowLimit ==
  ASSUME NEW n \in Nat, n < Limit \/ n < LUAI_MAXCCALLS
  PROVE  n < Limit /\ n <= Limit
  BY LimitAbove

LEMMA RoomToResume ==
  ASSUME NEW n \in Nat, n < LUAI_MAXCCALLS
  PROVE  n + 1 \in Nat /\ n + 1 < Limit /\ n + 1 <= Limit
  BY LimitAbove

LEMMA SplitAt ==
  ASSUME NEW n \in Nat, NEW at \in 1 .. n
  PROVE  /\ at - 1 \in 0 .. n
         /\ \A m \in 1 .. n : m \in 1 .. at - 1 \/ m = at \/ m \in at + 1 .. n
  OBVIOUS

LEMMA InInterval == \A n \in Nat : \A m \in 0 .. n : m \in Nat
  OBVIOUS

\* Stacks that agree on their first n calls
Agree(s, u, n) == \A m \in 1 .. n : s[m] = u[m]

LEMMA SameBelow ==
  ASSUME NEW s, NEW u, NEW n \in Nat, Agree(s, u, n), NEW m \in 0 .. n
  PROVE  Level(s, m) = Level(u, m) /\ Resumed(s, m) = Resumed(u, m)
  <1>1. \A j \in 1 .. m : s[j] = u[j]
    BY DEF Agree
  <1>2. Counted(s, m) = Counted(u, m) /\ Resumed(s, m) = Resumed(u, m)
    BY <1>1 DEF Counted, Resumed
  <1> QED BY <1>2 DEF Level

LEMMA SameAbove ==
  ASSUME NEW s, NEW u, NEW n \in Nat, Agree(s, u, n), NEW m \in 0 .. n,
         NEW t, NEW nc, NEW bc, Above(s, m, t, nc, bc)
  PROVE  Above(u, m, t, nc, bc)
  <1>1. Level(s, m) = Level(u, m) /\ Resumed(s, m) = Resumed(u, m)
    BY SameBelow
  <1>2. \A j \in 1 .. m : Level(s, j) = Level(u, j)
    BY SameBelow
  <1>3. \A j \in Resumed(u, m) : s[j] = u[j]
    BY DEF Agree, Resumed
  <1>4. \A j \in 1 .. m : IsLast(s, m, j) => IsLast(u, m, j)
    BY <1>1 DEF IsLast
  <1> QED BY <1>1, <1>2, <1>3, <1>4 DEF Above

\* What is known of the calls below n stays true as long as these and the threads that
\* wait there are left alone.
LEMMA SameFrames ==
  ASSUME NEW s, NEW u, NEW n \in Nat, Agree(s, u, n),
         NEW nc, NEW bc, NEW st, NEW bg, NEW nc2, NEW bc2, NEW st2, NEW bg2,
         Frames(s, n, nc, bc, st, bg),
         \A m \in Resumed(s, n) : LET t == s[m].from IN
            nc[t] = nc2[t] /\ bc[t] = bc2[t] /\ st[t] = st2[t] /\ bg[t] = bg2[t]
  PROVE  Frames(u, n, nc2, bc2, st2, bg2)
  <1> SUFFICES ASSUME NEW m \in 1 .. n
               PROVE  Sound(u, m, nc2, bc2, st2, bg2)
    BY DEF Frames
  <1>1. Sound(s, m, nc, bc, st, bg) /\ s[m] = u[m] /\ m - 1 \in 0 .. n
    BY DEF Frames, Agree
  <1>2. Level(s, m - 1) = Level(u, m - 1)
    BY <1>1, SameBelow
  <1>3. CASE u[m].k = "resume"
    <2> DEFINE t == s[m].from
    <2>1. m \in Resumed(s, n)
      BY <1>1, <1>3 DEF Resumed
    <2>2. nc[t] = nc2[t] /\ bc[t] = bc2[t] /\ st[t] = st2[t] /\ bg[t] = bg2[t]
      BY <2>1
    <2>3. Waits(s, m, t, nc, bc, st, bg)
      BY <1>1, <1>3 DEF Sound
    <2>4. Above(u, m - 1, t, nc[t], bc[t])
      BY <1>1, <2>3, SameAbove DEF Waits
    <2>5. Waits(u, m, t, nc2, bc2, st2, bg2)
      BY <2>2, <2>3, <2>4 DEF Waits
    <2> QED BY <1>1, <1>3, <2>5 DEF Sound
  <1>4. CASE u[m].k # "resume"
    BY <1>1, <1>2, <1>4 DEF Sound
  <1> QED BY <1>3, <1>4

\* A call that is not lua_resume leaves the thread above it the same.
LEMMA AboveCall ==
  ASSUME NEW s, NEW n \in Nat, s[n + 1].k # "resume",
         NEW t, NEW nc, NEW bc, Above(s, n, t, nc, bc)
  PROVE  Above(s, n + 1, t, Level(s, n + 1), bc)
  <1>1. Resumed(s, n + 1) = Resumed(s, n)
    BY DEF Resumed
  <1>2. \A m \in 1 .. n : m \in 1 .. n + 1 /\ (IsLast(s, n, m) => IsLast(s, n + 1, m))
    BY <1>1 DEF IsLast
  <1> QED BY <1>1, <1>2 DEF Above

\* Calls between which and the end of the stack no thread waits may be given up.
LEMMA AboveDrop ==
  ASSUME NEW s, NEW n \in Nat, NEW m \in 0 .. n, Resumed(s, n) \subseteq 1 .. m,
         NEW t, NEW nc, NEW bc, Above(s, n, t, nc, bc)
  PROVE  Above(s, m, t, Level(s, m), bc)
  <1>1. Resumed(s, m) = Resumed(s, n)
    BY DEF Resumed
  <1>2. \A j \in 1 .. n : IsLast(s, n, j) => j \in 1 .. m /\ IsLast(s, m, j)
    <2>1. \A j \in Resumed(s, n) : j \in 1 .. m
      OBVIOUS
    <2> QED BY <1>1, <2>1 DEF IsLast
  <1> QED BY <1>1, <1>2 DEF Above

\* lua_resume starts from where its caller is, which waits from now on.
LEMMA AboveResume ==
  ASSUME NEW s, NEW n \in Nat, s[n + 1].k = "resume",
         NEW co, co # s[n + 1].from, \A m \in Resumed(s, n) : s[m].from # co
  PROVE  Above(s, n + 1, co, Level(s, n + 1), Level(s, n + 1))
  <1>0. 1 .. n + 1 = (1 .. n) \cup {n + 1}
    OBVIOUS
  <1>1. Resumed(s, n + 1) = Resumed(s, n) \cup {n + 1}
    <2>1. \A m \in Resumed(s, n + 1) : m \in Resumed(s, n) \/ m = n + 1
      BY <1>0 DEF Resumed
    <2>2. \A m \in Resumed(s, n) : m \in Resumed(s, n + 1)
      BY <1>0 DEF Resumed
    <2>3. n + 1 \in Resumed(s, n + 1)
      <3>1. n + 1 \in 1 .. n + 1
        OBVIOUS
      <3> QED BY <3>1, Zenon DEF Resumed
    <2> QED BY <2>1, <2>2, <2>3
  <1>3. \A m \in Resumed(s, n) : m <= n + 1
    BY DEF Resumed
  <1>2. n + 1 \in 1 .. n + 1 /\ n + 1 <= n + 1
    OBVIOUS
  <1>4. IsLast(s, n + 1, n + 1)
    BY <1>1, <1>2, <1>3, Zenon DEF IsLast
  <1>5. \A m \in Resumed(s, n + 1) : s[m].from # co
    BY <1>1
  <1> QED BY <1>2, <1>4, <1>5 DEF Above

-----------------------------------------------------------------------------
(* The stack of calls grows and shrinks at its end                          *)

LEMMA GrowsBy ==
  ASSUME NEW s \in Seq(Frame), NEW fr \in Frame
  PROVE  /\ Append(s, fr) \in Seq(Frame) /\ Len(Append(s, fr)) = Len(s) + 1
         /\ Agree(s, Append(s, fr), Len(s)) /\ Append(s, fr)[Len(s) + 1] = fr
         /\ Last(Append(s, fr)) = fr /\ Append(s, fr) # <<>>
  BY AppendProperties DEF Agree, Last

LEMMA GrowsByTwo ==
  ASSUME NEW s \in Seq(Frame), NEW a \in Frame, NEW b \in Frame
  PROVE  s \o <<a, b>> = Append(Append(s, a), b)
  OBVIOUS

LEMMA TwoFrames == ASSUME NEW a, NEW b PROVE <<a, b>> = Append(Append(<<>>, a), b)
  OBVIOUS

LEMMA ShrinksTo ==
  ASSUME NEW s \in Seq(Frame), NEW n \in 0 .. Len(s)
  PROVE  /\ SubSeq(s, 1, n) \in Seq(Frame) /\ Len(SubSeq(s, 1, n)) = n
         /\ Agree(s, SubSeq(s, 1, n), n)
  <1>1. \A i \in 1 .. n : s[i] \in Frame
    OBVIOUS
  <1> QED BY <1>1, SubSeqProperties DEF Agree

LEMMA TopFrame ==
  ASSUME NEW s \in Seq(Frame), s # <<>>
  PROVE  /\ Len(s) \in Nat /\ Len(s) - 1 \in 0 .. Len(s) /\ Len(s) \in 1 .. Len(s)
         /\ Len(s) - 1 \in Nat /\ (Len(s) - 1) + 1 = Len(s)
         /\ Last(s) = s[Len(s)] /\ Last(s) \in Frame
         /\ Front(s) = SubSeq(s, 1, Len(s) - 1)
  BY DEF Last, Front

\* a frame more, with what is known of it
LEMMA MoreFrames ==
  ASSUME NEW s, NEW n \in Nat, NEW nc, NEW bc, NEW st, NEW bg,
         Frames(s, n, nc, bc, st, bg), Sound(s, n + 1, nc, bc, st, bg)
  PROVE  Frames(s, n + 1, nc, bc, st, bg)
  BY DEF Frames

LEMMA FewerFrames ==
  ASSUME NEW s, NEW n \in Nat, NEW m \in 0 .. n, NEW nc, NEW bc, NEW st, NEW bg,
         Frames(s, n, nc, bc, st, bg)
  PROVE  Frames(s, m, nc, bc, st, bg)
  BY DEF Frames

LEMMA StackTyped ==
  CallsInv => /\ TypeOK /\ L \in Threads /\ stack \in Seq(Frame)
              /\ Len(stack) \in Nat /\ Len(stack) \in 0 .. Len(stack)
  <1>1. \A s \in Seq(Frame) : Len(s) \in Nat /\ Len(s) \in 0 .. Len(s)
    OBVIOUS
  <1>2. CallsInv => TypeOK /\ L \in Threads /\ stack \in Seq(Frame)
    BY Zenon DEF CallsInv, TypeOK
  <1> QED BY <1>1, <1>2, Zenon

\* Who waits is not the one that runs, is suspended neither nor dead, and has a function
\* in progress: it cannot be resumed.
LEMMA Waiting ==
  ASSUME CallsInv, NEW m \in Resumed(stack, Len(stack))
  PROVE  /\ stack[m].from \in Threads /\ stack[m].from # L
         /\ status[stack[m].from] = "ok" /\ begun[stack[m].from]
         /\ Waits(stack, m, stack[m].from, nCcalls, baseCcalls, status, begun)
         /\ ~Suspended(stack[m].from)
  <1>1. m \in 1 .. Len(stack) /\ stack[m].k = "resume" /\ stack[m] \in Frame
    BY StackTyped DEF Resumed
  <1>2. Waits(stack, m, stack[m].from, nCcalls, baseCcalls, status, begun)
    BY <1>1 DEF CallsInv, Frames, Sound
  <1>3. stack[m].from # L
    BY DEF CallsInv, Above
  <1> QED BY <1>1, <1>2, <1>3, FrameFields DEF Waits, Suspended

\* What is known of the calls survives a step that leaves all that wait there alone,
LEMMA FramesStay ==
  ASSUME CallsInv, NEW n \in 0 .. Len(stack),
         \A m \in Resumed(stack, n) : LET t == stack[m].from IN
            /\ nCcalls'[t] = nCcalls[t] /\ baseCcalls'[t] = baseCcalls[t]
            /\ status'[t] = status[t] /\ begun'[t] = begun[t]
  PROVE  Frames(stack, n, nCcalls', baseCcalls', status', begun')
  <1>1. Len(stack) \in Nat /\ n \in Nat
    BY StackTyped
  <1>2. Frames(stack, n, nCcalls, baseCcalls, status, begun)
    BY <1>1, FewerFrames DEF CallsInv
  <1>3. Agree(stack, stack, n)
    BY DEF Agree
  <1> QED BY <1>1, <1>2, <1>3, SameFrames

\* as one does that changes only the thread that runs, or one that can be resumed.
LEMMA OthersStay ==
  ASSUME CallsInv, NEW n \in 0 .. Len(stack), NEW u, u = L \/ Suspended(u),
         \A t \in Threads \ {u} :
            /\ nCcalls'[t] = nCcalls[t] /\ baseCcalls'[t] = baseCcalls[t]
            /\ status'[t] = status[t] /\ begun'[t] = begun[t]
  PROVE  Frames(stack, n, nCcalls', baseCcalls', status', begun')
  <1>1. \A m \in Resumed(stack, n) : m \in Resumed(stack, Len(stack))
    BY StackTyped DEF Resumed
  <1>2. \A m \in Resumed(stack, n) : stack[m].from \in Threads \ {u}
    BY <1>1, Waiting
  <1> QED BY <1>2, FramesStay

\* luaD_call and luaD_pcall push a frame,
LEMMA PushFrame ==
  ASSUME NEW s \in Seq(Frame), NEW fr \in Frame, fr.k # "resume",
         NEW nc, NEW bc, NEW st, NEW bg, Frames(s, Len(s), nc, bc, st, bg),
         fr.k = "pcall" => fr.nCcalls = Level(s, Len(s)) /\ fr.nCcalls < Limit,
         NEW t, NEW depth, NEW base, Above(s, Len(s), t, depth, base)
  PROVE  LET u == Append(s, fr) IN
         /\ u \in Seq(Frame) /\ Frames(u, Len(u), nc, bc, st, bg)
         /\ Above(u, Len(u), t, IF fr.k = "call" THEN depth + 1 ELSE depth, base)
  <1> DEFINE u == Append(s, fr)
             n == Len(s)
  <1> HIDE DEF u
  <1>1. /\ n \in Nat /\ u \in Seq(Frame) /\ Len(u) = n + 1 /\ Agree(s, u, n)
        /\ u[n + 1] = fr
    BY GrowsBy DEF u
  <1>2. Level(u, n) = Level(s, n) /\ depth = Level(u, n) /\ Above(u, n, t, depth, base)
    <2>1. Above(u, n, t, depth, base)
      BY <1>1, SameAbove
    <2>2. depth = Level(s, n)
      BY DEF Above
    <2> QED BY <1>1, <2>1, <2>2, SameBelow
  <1>3. Frames(u, n, nc, bc, st, bg)
    BY <1>1, SameFrames
  <1>4. Sound(u, n + 1, nc, bc, st, bg)
    <2>1. (n + 1) - 1 = n
      BY <1>1
    <2> QED BY <1>1, <1>2, <2>1 DEF Sound
  <1>5. Frames(u, n + 1, nc, bc, st, bg)
    BY <1>1, <1>3, <1>4, MoreFrames
  <1>6. Above(u, n + 1, t, Level(u, n + 1), base)
    BY <1>1, <1>2, AboveCall
  <1>7. Level(u, n + 1) = IF fr.k = "call" THEN depth + 1 ELSE depth
    BY <1>1, <1>2, LevelStep, FrameFields
  <1> QED BY <1>1, <1>5, <1>6, <1>7 DEF u

\* lua_resume one that its caller f waits at.
LEMMA PushResume ==
  ASSUME NEW s \in Seq(Frame), NEW f \in Threads,
         NEW nc, NEW bc, NEW st, NEW bg, Frames(s, Len(s), nc, bc, st, bg),
         Above(s, Len(s), f, nc[f], bc[f]),
         nc[f] < LUAI_MAXCCALLS, st[f] = "ok", bg[f],
         NEW co, co # f, \A m \in Resumed(s, Len(s)) : s[m].from # co
  PROVE  LET u == Append(s, [k |-> "resume", from |-> f]) IN
         /\ u \in Seq(Frame) /\ Frames(u, Len(u), nc, bc, st, bg)
         /\ Above(u, Len(u), co, nc[f] + 1, nc[f] + 1)
  <1> DEFINE fr == [k |-> "resume", from |-> f]
             u == Append(s, fr)
             n == Len(s)
  <1>0. fr \in Frame /\ fr.k = "resume" /\ fr.from = f
    BY DEF Frame
  <1> HIDE DEF u, fr
  <1>1. /\ n \in Nat /\ u \in Seq(Frame) /\ Len(u) = n + 1 /\ Agree(s, u, n)
        /\ u[n + 1] = fr /\ (n + 1) - 1 = n
    BY <1>0, GrowsBy DEF u
  <1>2. Level(u, n) = Level(s, n) /\ Resumed(u, n) = Resumed(s, n)
    BY <1>1, SameBelow
  <1>3. Above(u, n, f, nc[f], bc[f]) /\ nc[f] = Level(u, n)
    <2>1. Above(u, n, f, nc[f], bc[f])
      BY <1>1, SameAbove
    <2> QED BY <2>1 DEF Above
  <1>4. Frames(u, n, nc, bc, st, bg)
    BY <1>1, SameFrames
  <1>5. Sound(u, n + 1, nc, bc, st, bg)
    BY <1>0, <1>1, <1>3 DEF Sound, Waits
  <1>6. Frames(u, n + 1, nc, bc, st, bg)
    BY <1>1, <1>4, <1>5, MoreFrames
  <1>7. \A m \in Resumed(u, n) : u[m].from # co
    <2>1. \A m \in Resumed(s, n) : s[m] = u[m]
      BY <1>1 DEF Agree, Resumed
    <2> QED BY <1>2, <2>1
  <1>8. Above(u, n + 1, co, Level(u, n + 1), Level(u, n + 1))
    BY <1>0, <1>1, <1>7, AboveResume
  <1>9. Level(u, n + 1) = nc[f] + 1
    BY <1>0, <1>1, <1>3, LevelStep
  <1> QED BY <1>1, <1>6, <1>8, <1>9 DEF u, fr

\* What is known of the first m frames is known when the others are gone.
LEMMA CutFrames ==
  ASSUME NEW s \in Seq(Frame), NEW m \in 0 .. Len(s),
         NEW nc, NEW bc, NEW st, NEW bg, Frames(s, m, nc, bc, st, bg),
         NEW t, NEW depth, NEW base, Above(s, m, t, depth, base)
  PROVE  LET u == SubSeq(s, 1, m) IN
         /\ u \in Seq(Frame) /\ Frames(u, Len(u), nc, bc, st, bg)
         /\ Above(u, Len(u), t, depth, base)
  <1> DEFINE u == SubSeq(s, 1, m)
  <1> HIDE DEF u
  <1>1. m \in Nat /\ m \in 0 .. m /\ u \in Seq(Frame) /\ Len(u) = m /\ Agree(s, u, m)
    BY ShrinksTo DEF u
  <1>2. Frames(u, m, nc, bc, st, bg)
    BY <1>1, SameFrames
  <1>3. Above(u, m, t, depth, base)
    BY <1>1, SameAbove
  <1> QED BY <1>1, <1>2, <1>3 DEF u

-----------------------------------------------------------------------------
(* The invariant is inductive                                              *)

\* luaD_call at depth n raises an error that needs no room once there is none.
LEMMA EnteredErr ==
  ASSUME NEW n \in Nat, n <= Limit, Entered(n)
  PROVE  err' \in Errors \cup {""} /\ (err' \in {"", "ERRMSG"} => n < Limit)
  <1>1. CASE n = LUAI_MAXCCALLS
    BY <1>1, LimitAbove DEF Entered, Errors
  <1>2. CASE n # LUAI_MAXCCALLS /\ n >= Limit
    BY <1>2 DEF Entered, Errors
  <1>3. CASE n # LUAI_MAXCCALLS /\ ~(n >= Limit)
    <2>1. n < Limit
      BY <1>3, LimitAbove
    <2>2. err' \in Errors \cup {""}
      BY <1>3 DEF Entered
    <2> QED BY <2>1, <2>2
  <1> QED BY <1>1, <1>2, <1>3

LEMMA CountTyped ==
  ASSUME nCcalls \in [Threads -> Nat], NEW t \in Threads, NEW n \in Nat
  PROVE  /\ [nCcalls EXCEPT ![t] = n] \in [Threads -> Nat]
         /\ [nCcalls EXCEPT ![t] = n][t] = n
         /\ \A u \in Threads \ {t} : [nCcalls EXCEPT ![t] = n][u] = nCcalls[u]
  OBVIOUS

LEMMA BegunTyped ==
  ASSUME begun \in [Threads -> BOOLEAN], NEW t, MayBegin(t)
  PROVE  begun' \in [Threads -> BOOLEAN] /\ \A u \in Threads \ {t} : begun'[u] = begun[u]
  BY DEF MayBegin

\* What a function that runs may rely on.
LEMMA WhenRunning ==
  ASSUME CallsInv, Runs
  PROVE  /\ stack # <<>> /\ Last(stack).k # "pcall" /\ status[L] = "ok"
         /\ nCcalls[L] \in Nat /\ nCcalls[L] < Limit /\ nCcalls[L] <= Limit
  BY LimitAbove DEF CallsInv, TypeOK, Runner, Runs, Top

\* the frames and the depth of a stack that is empty or has luaD_pcall's two
LEMMA InitInv == Init => CallsInv
  <1> SUFFICES ASSUME Init PROVE CallsInv
    OBVIOUS
  <1>0. main \in Threads /\ <<>> \in Seq(Frame) /\ Len(<<>>) = 0
    BY DEF Threads
  <1>1. L = main /\ baseCcalls[L] = 0 /\ status[L] = "ok"
    BY <1>0 DEF Init
  <1>2. /\ Frames(<<>>, Len(<<>>), nCcalls, baseCcalls, status, begun)
        /\ Above(<<>>, Len(<<>>), L, 0, baseCcalls[L])
    BY <1>0, <1>1, LevelZero DEF Frames, Above
  <1>3. CASE stack = <<>> /\ err = "" /\ nCcalls = [t \in Threads |-> 0]
    <2>1. nCcalls[L] = 0 /\ 0 < Limit /\ 0 <= Limit
      <3>1. 0 < Limit /\ 0 <= Limit
        BY LimitAbove
      <3> QED BY <1>0, <1>1, <1>3, <3>1
    <2>2. TypeOK
      BY <1>0, <1>3 DEF Init, TypeOK, Errors
    <2>3. Runner(stack, nCcalls[L], status[L], err)
      BY <1>1, <2>1, LimitAbove DEF Runner
    <2> QED BY <1>2, <1>3, <2>1, <2>2, <2>3 DEF CallsInv
  <1>4. CASE /\ stack = <<pcall(0), call>> /\ err \in Errors \cup {""}
             /\ nCcalls = [t \in Threads |-> IF t = main THEN 1 ELSE 0]
    <2>1. nCcalls[L] = 1 /\ 0 < Limit /\ 1 < Limit /\ 1 <= Limit
      <3>1. 0 < Limit /\ 1 < Limit /\ 1 <= Limit
        BY LimitAbove
      <3>2. nCcalls[L] = 1
        BY <1>0, <1>1, <1>4
      <3> QED BY <3>1, <3>2
    <2>2. /\ pcall(0) \in Frame /\ pcall(0).k = "pcall" /\ pcall(0).nCcalls = 0
          /\ call \in Frame /\ call.k = "call"
      BY DEF Frame, pcall, call
    <2> DEFINE u == Append(<<>>, pcall(0))
    <2>3. /\ u \in Seq(Frame) /\ Frames(u, Len(u), nCcalls, baseCcalls, status, begun)
          /\ Above(u, Len(u), L, 0, baseCcalls[L])
      <3>1. Level(<<>>, Len(<<>>)) = 0
        BY <1>0, LevelZero
      <3> QED BY <1>0, <1>2, <2>1, <2>2, <3>1, PushFrame
    <2> HIDE DEF u
    <2>4. /\ Append(u, call) \in Seq(Frame)
          /\ Frames(Append(u, call), Len(Append(u, call)), nCcalls, baseCcalls, status, begun)
          /\ Above(Append(u, call), Len(Append(u, call)), L, 0 + 1, baseCcalls[L])
      BY <2>2, <2>3, PushFrame
    <2>5. stack = Append(u, call)
      BY <1>4, TwoFrames DEF u
    <2>6. TypeOK
      BY <1>0, <1>4, <2>4, <2>5 DEF Init, TypeOK, Errors
    <2>7. Runner(stack, nCcalls[L], status[L], err)
      BY <1>1, <2>1 DEF Runner
    <2> QED BY <2>1, <2>4, <2>5, <2>6, <2>7 DEF CallsInv
  <1> QED BY <1>3, <1>4 DEF Init

LEMMA StepInv == CallsInv /\ Step => CallsInv'
  <1> SUFFICES ASSUME CallsInv, Step PROVE CallsInv'
    OBVIOUS
  <1>1. Len(stack) \in 0 .. Len(stack)
    BY StackTyped
  <1>2. TypeOK /\ begun' \in [Threads -> BOOLEAN] /\ \A u \in Threads \ {L} : begun'[u] = begun[u]
    BY BegunTyped DEF CallsInv, TypeOK, Step
  <1>3. TypeOK'
    BY <1>2 DEF TypeOK, Step, Errors
  <1>4. Frames(stack, Len(stack), nCcalls', baseCcalls', status', begun')
    BY <1>1, <1>2, OthersStay DEF Step
  <1>5. Runner(stack, nCcalls[L], status[L], err')
    BY WhenRunning DEF Runner, Step
  <1> QED BY <1>3, <1>4, <1>5 DEF CallsInv, Step

\* Both luaD_call and luaD_pcall let the thread that runs go one call deeper.
LEMMA WhenDeeper ==
  ASSUME CallsInv, Runs, Deeper, UNCHANGED <<L, status, baseCcalls>>
  PROVE  /\ nCcalls' \in [Threads -> Nat] /\ nCcalls'[L] = nCcalls[L] + 1
         /\ begun' \in [Threads -> BOOLEAN] /\ err' \in Errors \cup {""}
         /\ Frames(stack, Len(stack), nCcalls', baseCcalls', status', begun')
         /\ \A s : Runner(s, nCcalls'[L], status[L], err')
  <1>1. Len(stack) \in 0 .. Len(stack) /\ TypeOK /\ L \in Threads
    BY StackTyped
  <1>2. begun' \in [Threads -> BOOLEAN] /\ \A u \in Threads \ {L} : begun'[u] = begun[u]
    BY <1>1, BegunTyped DEF TypeOK, Deeper
  <1>3. nCcalls[L] \in Nat /\ nCcalls[L] < Limit /\ nCcalls[L] + 1 \in Nat
    BY WhenRunning
  <1>4. /\ nCcalls' \in [Threads -> Nat] /\ nCcalls'[L] = nCcalls[L] + 1
        /\ \A u \in Threads \ {L} : nCcalls'[u] = nCcalls[u]
    <2>1. nCcalls \in [Threads -> Nat]
      BY <1>1 DEF TypeOK
    <2>2. nCcalls' = [nCcalls EXCEPT ![L] = nCcalls[L] + 1]
      BY DEF Deeper
    <2> QED BY <1>1, <1>3, <2>1, <2>2, CountTyped
  <1>5. nCcalls'[L] <= Limit
    BY <1>3, <1>4, LimitAbove
  <1>6. err' \in Errors \cup {""} /\ (err' \in {"", "ERRMSG"} => nCcalls'[L] < Limit)
    <2>1. nCcalls[L] + 1 \in Nat /\ nCcalls[L] + 1 <= Limit /\ Entered(nCcalls[L] + 1)
      BY <1>3, LimitAbove DEF Deeper
    <2> QED BY <1>4, <2>1, EnteredErr
  <1>7. Frames(stack, Len(stack), nCcalls', baseCcalls', status', begun')
    BY <1>1, <1>2, <1>4, OthersStay
  <1>8. \A s : Runner(s, nCcalls'[L], status[L], err')
    <2>1. status[L] = "ok"
      BY WhenRunning
    <2> QED BY <1>5, <1>6, <2>1 DEF Runner
  <1> QED BY <1>2, <1>4, <1>6, <1>7, <1>8

LEMMA CallInv == CallsInv /\ luaD_call => CallsInv'
  <1> SUFFICES ASSUME CallsInv, luaD_call PROVE CallsInv'
    OBVIOUS
  <1>1. Runs /\ Deeper /\ UNCHANGED <<L, status, baseCcalls>> /\ stack' = Append(stack, call)
    BY DEF luaD_call
  <1>2. /\ nCcalls' \in [Threads -> Nat] /\ nCcalls'[L] = nCcalls[L] + 1
        /\ begun' \in [Threads -> BOOLEAN] /\ err' \in Errors \cup {""}
        /\ Frames(stack, Len(stack), nCcalls', baseCcalls', status', begun')
        /\ Runner(stack', nCcalls'[L], status[L], err')
    BY <1>1, WhenDeeper
  <1>3. call \in Frame /\ call.k = "call"
    BY DEF Frame, call
  <1>4. stack \in Seq(Frame) /\ Above(stack, Len(stack), L, nCcalls[L], baseCcalls[L])
    BY StackTyped DEF CallsInv
  <1>5. /\ stack' \in Seq(Frame)
        /\ Frames(stack', Len(stack'), nCcalls', baseCcalls', status', begun')
        /\ Above(stack', Len(stack'), L, nCcalls'[L], baseCcalls[L])
    BY <1>1, <1>2, <1>3, <1>4, PushFrame
  <1>6. TypeOK'
    BY <1>1, <1>2, <1>5, StackTyped DEF TypeOK
  <1> QED BY <1>1, <1>2, <1>5, <1>6 DEF CallsInv

LEMMA PcallInv == CallsInv /\ luaD_pcall => CallsInv'
  <1> SUFFICES ASSUME CallsInv, luaD_pcall PROVE CallsInv'
    OBVIOUS
  <1> DEFINE u == Append(stack, pcall(nCcalls[L]))
  <1>1. stack \in Seq(Frame) /\ Above(stack, Len(stack), L, nCcalls[L], baseCcalls[L])
    BY StackTyped DEF CallsInv
  <1>2. /\ call \in Frame /\ call.k = "call"
        /\ pcall(nCcalls[L]) \in Frame /\ pcall(nCcalls[L]).k = "pcall"
        /\ pcall(nCcalls[L]).nCcalls = nCcalls[L] /\ nCcalls[L] < Limit
    BY WhenRunning DEF Frame, call, pcall, luaD_pcall
  <1>3. /\ Runs /\ Deeper /\ UNCHANGED <<L, status, baseCcalls>>
        /\ stack' = Append(u, call)
    BY <1>1, <1>2, GrowsByTwo DEF luaD_pcall
  <1>4. /\ nCcalls' \in [Threads -> Nat] /\ nCcalls'[L] = nCcalls[L] + 1
        /\ begun' \in [Threads -> BOOLEAN] /\ err' \in Errors \cup {""}
        /\ Frames(stack, Len(stack), nCcalls', baseCcalls', status', begun')
        /\ Runner(stack', nCcalls'[L], status[L], err')
    BY <1>3, WhenDeeper
  <1>5. /\ u \in Seq(Frame)
        /\ Frames(u, Len(u), nCcalls', baseCcalls', status', begun')
        /\ Above(u, Len(u), L, nCcalls[L], baseCcalls[L])
    <2>1. nCcalls[L] = Level(stack, Len(stack))
      BY <1>1 DEF Above
    <2> QED BY <1>1, <1>2, <1>4, <2>1, PushFrame
  <1> HIDE DEF u
  <1>6. /\ stack' \in Seq(Frame)
        /\ Frames(stack', Len(stack'), nCcalls', baseCcalls', status', begun')
        /\ Above(stack', Len(stack'), L, nCcalls'[L], baseCcalls[L])
    BY <1>2, <1>3, <1>4, <1>5, PushFrame
  <1>7. TypeOK'
    BY <1>3, <1>4, <1>6, StackTyped DEF TypeOK
  <1> QED BY <1>3, <1>4, <1>6, <1>7 DEF CallsInv

\* Calls of the thread that runs are left, one that returns or several an error gives
\* up: it is at the depth where the last that stays was entered.
LEMMA LeaveOwn ==
  ASSUME CallsInv, NEW m \in 0 .. Len(stack), Resumed(stack, Len(stack)) \subseteq 1 .. m,
         stack' = SubSeq(stack, 1, m), err' = "", status[L] = "ok",
         nCcalls' = [nCcalls EXCEPT ![L] = Level(stack, m)], Level(stack, m) < Limit,
         begun' = begun \/ MayBegin(L), UNCHANGED <<L, status, baseCcalls>>
  PROVE  CallsInv'
  <1>1. TypeOK /\ L \in Threads /\ stack \in Seq(Frame) /\ Len(stack) \in Nat /\ m \in Nat
    BY InInterval, StackTyped, Zenon
  <1>2. begun' \in [Threads -> BOOLEAN] /\ \A u \in Threads \ {L} : begun'[u] = begun[u]
    BY <1>1, BegunTyped DEF TypeOK
  <1>3. Level(stack, m) \in Nat
    BY <1>1, CountedFinite
  <1>4. /\ nCcalls' \in [Threads -> Nat] /\ nCcalls'[L] = Level(stack, m)
        /\ \A u \in Threads \ {L} : nCcalls'[u] = nCcalls[u]
    <2>1. nCcalls \in [Threads -> Nat]
      BY <1>1 DEF TypeOK
    <2> QED BY <1>1, <1>3, <2>1, CountTyped
  <1>5. Frames(stack, m, nCcalls', baseCcalls', status', begun')
    BY <1>2, <1>4, OthersStay
  <1>6. Above(stack, m, L, nCcalls'[L], baseCcalls[L])
    <2>1. Above(stack, Len(stack), L, nCcalls[L], baseCcalls[L])
      BY DEF CallsInv
    <2>2. Above(stack, m, L, Level(stack, m), baseCcalls[L])
      BY <1>1, <2>1, AboveDrop
    <2> QED BY <1>4, <2>2
  <1>7. /\ stack' \in Seq(Frame)
        /\ Frames(stack', Len(stack'), nCcalls', baseCcalls', status', begun')
        /\ Above(stack', Len(stack'), L, nCcalls'[L], baseCcalls[L])
    BY <1>1, <1>5, <1>6, CutFrames
  <1>8. TypeOK'
    BY <1>1, <1>2, <1>4, <1>7 DEF TypeOK
  <1>9. Runner(stack', nCcalls'[L], status[L], "")
    <2>1. Level(stack, m) <= Limit
      BY <1>3, BelowLimit
    <2> QED BY <1>4, <2>1 DEF Runner
  <1> QED BY <1>7, <1>8, <1>9 DEF CallsInv

\* A coroutine is left, for the thread that waits at its lua_resume, with the depth and
\* the state this thread had then.
LEMMA LeaveCoroutine ==
  ASSUME CallsInv, NEW m \in Resumed(stack, Len(stack)), Leaves(stack[m]),
         stack' = SubSeq(stack, 1, m - 1), err' = "",
         status' = status \/ status' = [status EXCEPT ![L] = "dead"],
         UNCHANGED <<begun, baseCcalls>>
  PROVE  CallsInv'
  <1> DEFINE f == stack[m].from
  <1>1. TypeOK /\ L \in Threads /\ stack \in Seq(Frame) /\ Len(stack) \in Nat
    BY StackTyped
  <1>2. /\ m \in 1 .. Len(stack) /\ m - 1 \in 0 .. Len(stack) /\ stack[m].k = "resume"
        /\ Level(stack, Len(stack)) \in Nat /\ Level(stack, Len(stack)) - 1 \in Nat
    BY <1>1, ResumedDepth
  <1>3. /\ f \in Threads /\ f # L /\ status[f] = "ok"
        /\ Waits(stack, m, f, nCcalls, baseCcalls, status, begun)
    BY Waiting
  <1>4. nCcalls[L] \in Nat /\ nCcalls[L] - 1 \in Nat
    BY <1>2 DEF CallsInv, Above
  <1>5. nCcalls' \in [Threads -> Nat] /\ \A u \in Threads \ {L} : nCcalls'[u] = nCcalls[u]
    <2>1. nCcalls \in [Threads -> Nat] /\ nCcalls' = [nCcalls EXCEPT ![L] = nCcalls[L] - 1]
      BY <1>1 DEF TypeOK, Leaves
    <2> QED BY <1>1, <1>4, <2>1, CountTyped
  <1>6. /\ status' \in [Threads -> {"ok", "yield", "dead"}]
        /\ \A u \in Threads \ {L} : status'[u] = status[u]
    <2>1. status \in [Threads -> {"ok", "yield", "dead"}]
      BY <1>1 DEF TypeOK
    <2> QED BY <2>1
  <1>7. Frames(stack, m - 1, nCcalls', baseCcalls', status', begun')
    BY <1>2, <1>5, <1>6, OthersStay
  <1>8. Above(stack, m - 1, f, nCcalls[f], baseCcalls[f]) /\ nCcalls[f] < LUAI_MAXCCALLS
    BY <1>3 DEF Waits
  <1>9. /\ stack' \in Seq(Frame)
        /\ Frames(stack', Len(stack'), nCcalls', baseCcalls', status', begun')
        /\ Above(stack', Len(stack'), f, nCcalls[f], baseCcalls[f])
    BY <1>1, <1>2, <1>7, <1>8, CutFrames
  <1>10. L' = f /\ nCcalls'[f] = nCcalls[f] /\ status'[f] = "ok"
    BY <1>3, <1>5, <1>6 DEF Leaves
  <1>11. TypeOK'
    BY <1>1, <1>3, <1>5, <1>6, <1>9, <1>10 DEF TypeOK
  <1>12. Runner(stack', nCcalls[f], "ok", "")
    <2>1. nCcalls[f] \in Nat
      BY <1>1, <1>3 DEF TypeOK
    <2>2. nCcalls[f] < Limit /\ nCcalls[f] <= Limit
      BY <1>8, <2>1, BelowLimit
    <2> QED BY <2>2 DEF Runner
  <1> HIDE DEF f
  <1>13. Above(stack', Len(stack'), L', nCcalls'[L'], baseCcalls'[L']) /\ Runner(stack', nCcalls'[L'], status'[L'], err')
    BY <1>9, <1>10, <1>12
  <1> QED BY <1>9, <1>11, <1>13 DEF CallsInv

\* What is known of the frame on top, when a call or luaD_pcall returns.
LEMMA WhenReturning ==
  ASSUME CallsInv, NEW k \in {"call", "pcall"}, Returns(k)
  PROVE  LET n == Len(stack) - 1 IN
         /\ n \in 0 .. Len(stack) /\ Resumed(stack, Len(stack)) \subseteq 1 .. n
         /\ stack' = SubSeq(stack, 1, n) /\ err' = "" /\ begun' = begun /\ status[L] = "ok"
         /\ nCcalls[L] \in Nat /\ nCcalls[L] < Limit /\ Level(stack, n) < Limit
         /\ Level(stack, n) = IF k = "call" THEN nCcalls[L] - 1 ELSE nCcalls[L]
  <1> DEFINE n == Len(stack) - 1
  <1>1. /\ stack \in Seq(Frame) /\ stack # <<>> /\ Last(stack).k = k /\ err = ""
        /\ stack' = Front(stack) /\ begun' = begun /\ err' = err
    BY StackTyped DEF Returns, Top
  <1>2. /\ Len(stack) \in Nat /\ n \in 0 .. Len(stack) /\ n \in Nat /\ n + 1 = Len(stack)
        /\ stack[n + 1].k = k /\ Front(stack) = SubSeq(stack, 1, n)
    BY <1>1, TopFrame, Zenon
  <1>3. nCcalls[L] = Level(stack, n + 1)
    BY <1>2 DEF CallsInv, Above
  <1>4. Level(stack, n + 1) = IF k = "call" THEN Level(stack, n) + 1 ELSE Level(stack, n)
    BY <1>2, LevelStep
  <1>5. Level(stack, n) \in Nat
    BY <1>2, CountedFinite
  <1>6. status[L] = "ok" /\ nCcalls[L] < Limit
    BY <1>1 DEF CallsInv, Runner
  <1>7. Resumed(stack, n + 1) \subseteq 1 .. n
    BY <1>2 DEF Resumed
  <1> HIDE DEF n
  <1>8. Limit \in Nat
    BY LimitAbove
  <1>9. nCcalls[L] \in Nat /\ Level(stack, n) < Limit /\
        Level(stack, n) = IF k = "call" THEN nCcalls[L] - 1 ELSE nCcalls[L]
    BY <1>3, <1>4, <1>5, <1>6, <1>8
  <1> QED BY <1>1, <1>2, <1>6, <1>7, <1>9 DEF n

LEMMA CallReturnsInv == CallsInv /\ CallReturns => CallsInv'
  <1> SUFFICES ASSUME CallsInv, CallReturns PROVE CallsInv'
    OBVIOUS
  <1>1. /\ Returns("call") /\ UNCHANGED <<L, status, baseCcalls>>
        /\ nCcalls' = [nCcalls EXCEPT ![L] = nCcalls[L] - 1]
    BY DEF CallReturns
  <1> QED BY <1>1, WhenReturning, LeaveOwn

LEMMA PcallReturnsInv == CallsInv /\ PcallReturns => CallsInv'
  <1> SUFFICES ASSUME CallsInv, PcallReturns PROVE CallsInv'
    OBVIOUS
  <1>1. Returns("pcall") /\ UNCHANGED <<L, status, baseCcalls>> /\ nCcalls' = nCcalls
    BY DEF PcallReturns
  <1>2. nCcalls = [nCcalls EXCEPT ![L] = nCcalls[L]]
    BY StackTyped DEF TypeOK
  <1> QED BY <1>1, <1>2, WhenReturning, LeaveOwn

LEMMA ResumeReturnsInv == CallsInv /\ ResumeReturns => CallsInv'
  <1> SUFFICES ASSUME CallsInv, ResumeReturns PROVE CallsInv'
    OBVIOUS
  <1>1. /\ stack \in Seq(Frame) /\ stack # <<>> /\ Last(stack).k = "resume" /\ err' = ""
        /\ stack' = Front(stack) /\ Leaves(Last(stack)) /\ UNCHANGED <<begun, status, baseCcalls>>
    BY StackTyped DEF ResumeReturns, Returns, Top
  <1>2. Len(stack) \in Resumed(stack, Len(stack))
    BY <1>1, TopFrame DEF Resumed
  <1> QED BY <1>1, <1>2, TopFrame, LeaveCoroutine

\* An error goes to the last luaD_pcall, at the depth it was called with, or ends the
\* coroutine.
LEMMA UnwindInv == CallsInv /\ Unwind => CallsInv'
  <1> SUFFICES ASSUME CallsInv, Unwind PROVE CallsInv'
    OBVIOUS
  <1>1. PICK at \in DOMAIN stack :
          /\ Handler(at) /\ stack' = SubSeq(stack, 1, at - 1)
          /\ Caught(stack[at]) \/ Dies(stack[at])
    BY DEF Unwind
  <1>2. /\ err \in Errors \ {"ERRMSG"} /\ err' = "" /\ baseCcalls' = baseCcalls
        /\ stack \in Seq(Frame) /\ Len(stack) \in Nat
    BY StackTyped DEF Unwind
  <1>3. at \in 1 .. Len(stack) /\ at - 1 \in 0 .. Len(stack)
    <2>1. \A s \in Seq(Frame) : DOMAIN s = 1 .. Len(s)
      OBVIOUS
    <2>2. at \in 1 .. Len(stack)
      BY <1>2, <2>1
    <2> QED BY <1>2, <2>2, SplitAt
  <1>4. CASE Caught(stack[at])
    <2>1. /\ stack[at].k = "pcall" /\ MayBegin(L) /\ UNCHANGED <<L, status>>
          /\ nCcalls' = [nCcalls EXCEPT ![L] = stack[at].nCcalls]
      BY <1>4 DEF Caught
    <2>2. Sound(stack, at, nCcalls, baseCcalls, status, begun)
      BY <1>3 DEF CallsInv, Frames
    <2>3. stack[at].nCcalls = Level(stack, at - 1) /\ Level(stack, at - 1) < Limit
      BY <2>1, <2>2 DEF Sound
    <2>4. Resumed(stack, Len(stack)) \subseteq 1 .. at - 1
      <3>1. \A m \in at + 1 .. Len(stack) : stack[m].k = "call"
        BY <1>1 DEF Handler
      <3>2. \A m \in 1 .. Len(stack) : m \in 1 .. at - 1 \/ m = at \/ m \in at + 1 .. Len(stack)
        BY <1>2, <1>3, SplitAt
      <3> QED BY <2>1, <3>1, <3>2 DEF Resumed
    <2>5. status[L] = "ok"
      BY <1>2 DEF CallsInv, Runner, Errors
    <2> QED BY <1>1, <1>2, <1>3, <2>1, <2>3, <2>4, <2>5, LeaveOwn
  <1>5. CASE Dies(stack[at])
    <2>1. /\ stack[at].k = "resume" /\ Leaves(stack[at]) /\ UNCHANGED begun
          /\ status' = [status EXCEPT ![L] = "dead"]
      BY <1>5 DEF Dies
    <2>2. at \in Resumed(stack, Len(stack))
      BY <1>3, <2>1 DEF Resumed
    <2> QED BY <1>1, <1>2, <2>1, <2>2, LeaveCoroutine
  <1> QED BY <1>1, <1>4, <1>5

\* A thread that can be resumed does not run and waits nowhere.
LEMMA WhenResuming ==
  ASSUME CallsInv, Runs, begun[L], NEW co \in Threads, Suspended(co)
  PROVE  co # L /\ \A m \in Resumed(stack, Len(stack)) : stack[m].from # co
  <1>1. co # L
    BY WhenRunning DEF Suspended
  <1> QED BY <1>1, Waiting

LEMMA ResumeInv ==
  ASSUME CallsInv, NEW co \in Threads, lua_resume(co)
  PROVE  CallsInv'
  <1>1. /\ TypeOK /\ L \in Threads /\ stack \in Seq(Frame)
        /\ Len(stack) \in Nat /\ Len(stack) \in 0 .. Len(stack)
    BY StackTyped
  <1>2. /\ Runs /\ begun[L] /\ Suspended(co) /\ nCcalls[L] < LUAI_MAXCCALLS /\ MayBegin(co)
        /\ L' = co /\ stack' = Append(stack, [k |-> "resume", from |-> L])
        /\ err' \in Errors \cup {""}
    BY DEF lua_resume
  <1>3. co # L /\ \A m \in Resumed(stack, Len(stack)) : stack[m].from # co
    BY <1>2, WhenResuming
  <1>4. nCcalls[L] \in Nat /\ nCcalls[L] + 1 \in Nat /\ nCcalls[L] + 1 < Limit /\ nCcalls[L] + 1 <= Limit
    BY <1>2, WhenRunning, RoomToResume
  <1>5. /\ begun' \in [Threads -> BOOLEAN]
        /\ \A u \in Threads \ {co} : begun'[u] = begun[u]
    BY <1>1, <1>2, BegunTyped DEF TypeOK
  <1>6. /\ nCcalls' \in [Threads -> Nat] /\ nCcalls'[co] = nCcalls[L] + 1
        /\ \A u \in Threads \ {co} : nCcalls'[u] = nCcalls[u]
    <2>1. nCcalls \in [Threads -> Nat] /\ nCcalls' = [nCcalls EXCEPT ![co] = nCcalls[L] + 1]
      BY <1>1 DEF TypeOK, lua_resume
    <2> QED BY <1>4, <2>1, CountTyped
  <1>7. /\ baseCcalls' \in [Threads -> Nat] /\ baseCcalls'[co] = nCcalls[L] + 1
        /\ \A u \in Threads \ {co} : baseCcalls'[u] = baseCcalls[u]
    <2>1. baseCcalls \in [Threads -> Nat] /\ baseCcalls' = [baseCcalls EXCEPT ![co] = nCcalls[L] + 1]
      BY <1>1 DEF TypeOK, lua_resume
    <2> QED BY <1>4, <2>1
  <1>8. /\ status' \in [Threads -> {"ok", "yield", "dead"}] /\ status'[co] = "ok"
        /\ \A u \in Threads \ {co} : status'[u] = status[u]
    BY <1>1 DEF TypeOK, lua_resume
  <1>9. Frames(stack, Len(stack), nCcalls', baseCcalls', status', begun')
    BY <1>1, <1>2, <1>5, <1>6, <1>7, <1>8, OthersStay
  <1>10. /\ Above(stack, Len(stack), L, nCcalls'[L], baseCcalls'[L])
         /\ nCcalls'[L] = nCcalls[L] /\ nCcalls'[L] < LUAI_MAXCCALLS
         /\ status'[L] = "ok" /\ begun'[L]
    <2>1. /\ nCcalls'[L] = nCcalls[L] /\ baseCcalls'[L] = baseCcalls[L]
          /\ status'[L] = status[L] /\ begun'[L] = begun[L]
      BY <1>1, <1>3, <1>5, <1>6, <1>7, <1>8
    <2>2. status[L] = "ok" /\ Above(stack, Len(stack), L, nCcalls[L], baseCcalls[L])
      BY <1>2, WhenRunning DEF CallsInv
    <2> QED BY <1>2, <2>1, <2>2
  <1>11. /\ stack' \in Seq(Frame)
         /\ Frames(stack', Len(stack'), nCcalls', baseCcalls', status', begun')
         /\ Above(stack', Len(stack'), co, nCcalls'[L] + 1, nCcalls'[L] + 1)
    BY <1>1, <1>2, <1>3, <1>9, <1>10, PushResume
  <1>12. TypeOK'
    BY <1>2, <1>5, <1>6, <1>7, <1>8, <1>11 DEF TypeOK
  <1>13. Runner(stack', nCcalls[L] + 1, "ok", err')
    BY <1>4 DEF Runner
  <1>14. /\ Above(stack', Len(stack'), L', nCcalls'[L'], baseCcalls'[L'])
         /\ Runner(stack', nCcalls'[L'], status'[L'], err')
    BY <1>2, <1>6, <1>7, <1>8, <1>10, <1>11, <1>13
  <1> QED BY <1>11, <1>12, <1>14 DEF CallsInv

LEMMA ResumeFailsInv ==
  ASSUME CallsInv, NEW co \in Threads, ResumeFails(co)
  PROVE  CallsInv'
  <1>1. TypeOK /\ L \in Threads /\ Len(stack) \in 0 .. Len(stack)
    BY StackTyped
  <1>2. /\ Runs /\ begun[L] /\ Suspended(co)
        /\ nCcalls' = [nCcalls EXCEPT ![co] = nCcalls[L]]
        /\ UNCHANGED <<L, status, begun, baseCcalls, stack, err>>
    BY DEF ResumeFails
  <1>3. co # L
    BY <1>2, WhenResuming
  <1>4. nCcalls' \in [Threads -> Nat] /\ \A u \in Threads \ {co} : nCcalls'[u] = nCcalls[u]
    <2>1. nCcalls \in [Threads -> Nat] /\ nCcalls[L] \in Nat
      BY <1>1 DEF TypeOK
    <2> QED BY <1>2, <2>1, CountTyped
  <1>5. Frames(stack, Len(stack), nCcalls', baseCcalls', status', begun')
    BY <1>1, <1>2, <1>4, OthersStay
  <1>6. nCcalls'[L] = nCcalls[L]
    BY <1>1, <1>3, <1>4
  <1>7. TypeOK'
    BY <1>1, <1>2, <1>4 DEF TypeOK
  <1> QED BY <1>2, <1>5, <1>6, <1>7 DEF CallsInv

\* No call is left between a coroutine that gives way and its lua_resume: each would
\* have made it deeper than it was entered.
LEMMA NothingBetween ==
  ASSUME NEW s \in Seq(Frame), s # <<>>, Last(s).k # "pcall",
         NEW t, NEW nc, NEW bc, Above(s, Len(s), t, nc, bc), ~(nc > bc)
  PROVE  Last(s).k = "resume"
  <1> DEFINE n == Len(s) - 1
  <1>1. /\ n \in Nat /\ n + 1 = Len(s) /\ Last(s) = s[n + 1]
        /\ s[n + 1].k \in {"call", "resume"}
    BY TopFrame, FrameFields
  <1> HIDE DEF n
  <1> SUFFICES ASSUME s[n + 1].k # "resume" PROVE FALSE
    BY <1>1
  <1>2. nc = Level(s, n) + 1 /\ Level(s, n) \in Nat
    BY <1>1, LevelStep, CountedFinite DEF Above
  <1>3. bc # 0
    BY <1>2
  <1>4. PICK m \in 1 .. n + 1 : IsLast(s, n + 1, m) /\ bc = Level(s, m)
    BY <1>1, <1>3 DEF Above
  <1>5. m # n + 1
    BY <1>4 DEF IsLast, Resumed
  <1>6. m \in 0 .. n
    BY <1>1, <1>5
  <1>7. Level(s, m) <= Level(s, n) /\ Level(s, m) \in Nat
    BY <1>1, <1>6, LevelMonotone, CountedFinite, InInterval
  <1> QED BY <1>2, <1>4, <1>7

LEMMA YieldInv == CallsInv /\ lua_yield => CallsInv'
  <1> SUFFICES ASSUME CallsInv, lua_yield PROVE CallsInv'
    OBVIOUS
  <1>1. TypeOK /\ L \in Threads /\ stack \in Seq(Frame) /\ Len(stack) \in 0 .. Len(stack)
    BY StackTyped
  <1>2. /\ Runs /\ err = "" /\ ~(nCcalls[L] > baseCcalls[L])
        /\ status' = [status EXCEPT ![L] = "yield"]
        /\ UNCHANGED <<L, begun, nCcalls, baseCcalls, stack, err>>
    BY DEF lua_yield
  <1>3. /\ status' \in [Threads -> {"ok", "yield", "dead"}] /\ status'[L] = "yield"
        /\ \A u \in Threads \ {L} : status'[u] = status[u]
    BY <1>1, <1>2 DEF TypeOK
  <1>4. Frames(stack, Len(stack), nCcalls', baseCcalls', status', begun')
    BY <1>1, <1>2, <1>3, OthersStay
  <1>5. Above(stack, Len(stack), L, nCcalls[L], baseCcalls[L])
    BY DEF CallsInv
  <1>6. stack # <<>> /\ Last(stack).k = "resume"
    BY <1>1, <1>2, <1>5, WhenRunning, NothingBetween
  <1>7. Runner(stack, nCcalls[L], "yield", "")
    BY <1>2, <1>6, WhenRunning DEF Runner
  <1>8. TypeOK'
    BY <1>1, <1>2, <1>3 DEF TypeOK
  <1> QED BY <1>2, <1>3, <1>4, <1>5, <1>7, <1>8 DEF CallsInv

LEMMA NextInv == CallsInv /\ [Next]_vars => CallsInv'
  <1>1. CallsInv /\ UNCHANGED vars => CallsInv'
    BY DEF CallsInv, TypeOK, vars
  <1> QED BY <1>1, StepInv, CallInv, PcallInv, CallReturnsInv, PcallReturnsInv, ResumeInv,
             ResumeFailsInv, YieldInv, ResumeReturnsInv, UnwindInv DEF Next

LEMMA AlwaysInv == Spec => []CallsInv
  BY InitInv, NextInv, PTL DEF Spec

-----------------------------------------------------------------------------
(* What it gives                                                           *)

\* The threads, their counts and the stack of calls keep their types: nCcalls never
\* falls below zero, however calls return or are given up (ldo.c, lstate.h).
THEOREM CallsTyped == Spec => []TypeOK
  BY AlwaysInv, PTL DEF CallsInv

\* nCcalls of the thread that runs is the number of calls from C that have not returned
\* and stays below the limit, through luaD_pcall's restoring of it, lua_resume's taking
\* it over from the caller and every error (luaD_call, luaD_pcall, resume, ldo.c).
THEOREM DepthCounted == Spec => []CcallsCounted
  <1>1. CallsInv => CcallsCounted
    <2> SUFFICES ASSUME CallsInv PROVE CcallsCounted
      OBVIOUS
    <2>1. nCcalls[L] = Level(stack, Len(stack)) /\ nCcalls[L] <= Limit
      BY DEF CallsInv, Above, Runner
    <2>2. DOMAIN stack = 1 .. Len(stack)
      BY StackTyped
    <2> QED BY <2>1, <2>2 DEF CcallsCounted, Level, Counted
  <1> QED BY <1>1, AlwaysInv, PTL

\* The threads that wait in lua_resume form a chain from the one that runs to the main
\* thread: none is in it twice, suspended or dead, so an error or a yield always gets
\* back to the one thread that resumed (lua_resume, luaB_auxwrap).
THEOREM ChainHolds == Spec => []ResumeChain
  <1>1. CallsInv => ResumeChain
    <2> SUFFICES ASSUME CallsInv PROVE ResumeChain
      OBVIOUS
    <2>1. Len(stack) \in Nat /\ Resumes = Resumed(stack, Len(stack))
      <3>1. DOMAIN stack = 1 .. Len(stack) /\ Len(stack) \in Nat
        BY StackTyped
      <3> QED BY <3>1 DEF Resumes, Resumed
    <2>2. \A m \in Resumes :
            LET t == stack[m].from IN t # L /\ status[t] = "ok" /\ begun[t]
      BY <2>1, Waiting
    <2>3. \A m \in Resumes : Above(stack, m - 1, stack[m].from, nCcalls[stack[m].from],
                                   baseCcalls[stack[m].from])
      BY <2>1, Waiting DEF Waits
    <2>4. \A m \in Resumes : \A j \in Resumes : j < m => j \in Resumed(stack, m - 1)
      BY <2>1 DEF Resumed
    <2>5. \A m \in Resumes : m \in Nat
      BY <2>1 DEF Resumed
    <2>6. \A m \in Resumes : \A j \in Resumes : j < m => stack[j].from # stack[m].from
      BY <2>3, <2>4 DEF Above
    <2>7. \A m \in Resumes : \A j \in Resumes : j # m => stack[j].from # stack[m].from
      BY <2>5, <2>6
    <2>8. Resumes = {} => L = main
      BY <2>1 DEF CallsInv, Above, IsLast
    <2>9. \A m \in Resumes : (\A j \in Resumes : m <= j) => stack[m].from = main
      <3> SUFFICES ASSUME NEW m \in Resumes, \A j \in Resumes : m <= j
                   PROVE  Resumed(stack, m - 1) = {}
        BY <2>3 DEF Above, IsLast
      <3>1. \A j \in Resumed(stack, m - 1) : j \in Resumes /\ j < m
        BY <2>1 DEF Resumed
      <3>2. \A j \in Resumed(stack, m - 1) : j \in Nat /\ m \in Nat
        BY <2>5, <3>1
      <3> QED BY <3>1, <3>2
    <2> QED BY <2>2, <2>7, <2>8, <2>9 DEF ResumeChain
  <1> QED BY <1>1, AlwaysInv, PTL

\* Whoever has given way is about to return to its lua_resume: no call from C, protected
\* or not, is lost by a yield (lua_yield, the test of nCcalls against baseCcalls).
THEOREM YieldsSafe == Spec => []YieldsToResume
  <1>1. CallsInv => YieldsToResume
    BY DEF CallsInv, Runner, YieldsToResume, Top
  <1> QED BY <1>1, AlwaysInv, PTL

\* lua_assert(L->nCcalls == L->baseCcalls), ldo.c:434: a coroutine comes back from
\* luaD_rawrunprotected at the depth it was resumed at.
THEOREM LeavesSafe == Spec => []LeavesAsEntered
  <1>1. CallsInv => LeavesAsEntered
    <2> SUFFICES ASSUME CallsInv, stack # <<>>, Last(stack).k = "resume"
                 PROVE  nCcalls[L] = baseCcalls[L]
      BY DEF LeavesAsEntered, Top
    <2>1. /\ Len(stack) \in Nat /\ Len(stack) \in Resumed(stack, Len(stack))
      BY StackTyped, TopFrame DEF Resumed
    <2>2. PICK m \in 1 .. Len(stack) :
            IsLast(stack, Len(stack), m) /\ baseCcalls[L] = Level(stack, m)
      BY <2>1 DEF CallsInv, Above
    <2>3. m = Len(stack)
      BY <2>1, <2>2 DEF IsLast
    <2> QED BY <2>2, <2>3 DEF CallsInv, Above
  <1> QED BY <1>1, AlwaysInv, PTL

\* A coroutine that died of an error stays dead and never runs again: neither lua_resume
\* nor the chain of threads that wait leads back to it (lua_resume, luaD_throw).
THEOREM DeadStayDead == Spec => DeadForGood
  <1> DEFINE Stays == \A t \in Threads : status[t] = "dead" => status'[t] = "dead" /\ L' # t
  <1>1. CallsInv /\ [Next]_vars => Stays
    <2> SUFFICES ASSUME CallsInv, [Next]_vars, NEW t \in Threads, status[t] = "dead"
                 PROVE  status'[t] = "dead" /\ L' # t
      OBVIOUS
    <2>1. CallsInv' /\ status \in [Threads -> {"ok", "yield", "dead"}] /\ L \in Threads
      BY NextInv, StackTyped DEF TypeOK
    <2>2. status[L] # "dead" /\ status'[L'] # "dead"
      BY <2>1 DEF CallsInv, Runner
    <2>3. status'[t] = "dead"
      <3>1. CASE \E co \in Threads : lua_resume(co)
        BY <2>1, <3>1 DEF lua_resume, Suspended
      <3>2. CASE lua_yield
        BY <2>1, <2>2, <3>2 DEF lua_yield
      <3>3. CASE Unwind
        BY <2>1, <3>3 DEF Unwind, Caught, Dies
      <3>4. CASE UNCHANGED status
        BY <3>4
      <3> QED BY <3>1, <3>2, <3>3, <3>4
           DEF Next, vars, Step, luaD_call, luaD_pcall, CallReturns, PcallReturns, ResumeFails,
               ResumeReturns
    <2> QED BY <2>2, <2>3
  <1> HIDE DEF Stays
  <1>2. Spec => [][Stays]_vars
    BY <1>1, AlwaysInv, PTL DEF Spec
  <1> QED BY <1>2 DEF DeadForGood, Stays
=============================================================================
