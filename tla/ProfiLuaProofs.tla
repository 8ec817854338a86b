--------------------------- MODULE ProfiLuaProofs ---------------------------
(***************************************************************************)
(* Proofs about the host adapter, for all scripts and any width of uchar.  *)
(***************************************************************************)
EXTENDS ProfiLua, TLAPS

\* Where a call of the simulation stands, what is known of gERROR and L: gERROR
\* stays set until a state is open, a running simulation without error has one, and
\* no console is open before the first call of a simulation.
StateInv ==
  /\ pc # "host" => sim = "run"
  /\ pc \in {"inNames", "outNames", "start"} => gERROR = 1
  /\ pc = "start" /\ i = 1 => L # NULL
  /\ pc \in {"startBack", "calcBack", "puserBack"} => L # NULL
  /\ pc \in {"calc", "calcBack"} => gCSimStartOverride = 0
  /\ pc = "calc" /\ gERROR = 0 => L # NULL
  /\ pc = "host" /\ sim = "run" /\ gCSimStartOverride = 0 /\ gERROR = 0 => L # NULL
  /\ pc = "calcBack" => i >= 1
  /\ pc = "host" /\ (sim = "edit" \/ gCSimStartOverride = 1) => gConsole = 0
  /\ proc = "nullptr" => gCSimStartOverride = 1

IInv == TypeOK /\ ConsoleMatches /\ StateInv

\* names for tuples and for the place of a call, expanded everywhere below
USE DEF At, Editing, world, counts, markers, console, seen, history

-----------------------------------------------------------------------------
\* The stack stays a sequence of slot kinds when its top is popped or pushed on.
LEMMA FrontType ==
  ASSUME NEW S, NEW s \in Seq(S)
  PROVE  Front(s) \in Seq(S)
  <1>1. CASE s = <<>>
    <2>1. Front(s) = <<>>
      BY <1>1 DEF Front
    <2> QED BY <2>1
  <1>2. CASE s # <<>>
    <2>1. Len(s) - 1 \in Nat /\ \A n \in 1 .. Len(s) - 1 : s[n] \in S
      BY <1>2, SMT
    <2>2. Front(s) = [n \in 1 .. Len(s) - 1 |-> s[n]]
      BY <1>2, <2>1, SMT DEF Front
    <2> QED BY <2>1, <2>2, SMT
  <1> QED BY <1>1, <1>2

\* What a saved script's fields are.
LEMMA ScriptFields ==
  ASSUME NEW s \in Scripts
  PROVE  /\ s.leaves \in Seq(SlotKinds)
         /\ DollarInputs(s) \subseteq Pins /\ DollarOutputs(s) \subseteq Pins
         /\ s.nIn \in Nat \cup {NULL} /\ s.nOut \in Nat \cup {NULL}
         /\ s.good \in BOOLEAN
  <1>1. s \in ScriptType
    BY ScriptsAssumption
  <1>2. s.leaves \in Seq(SlotKinds)
    BY <1>1, SMT DEF ScriptType, SlotKinds
  <1> QED BY <1>1, <1>2 DEF ScriptType, DollarInputs, DollarOutputs

\* A count read from a script fits a uchar.
LEMMA PinCountType ==
  ASSUME NEW declared \in Nat \cup {NULL}, NEW old \in 0 .. UcharSize - 1
  PROVE  PinCount(declared, old) \in 0 .. UcharSize - 1
  <1>1. CASE declared = NULL
    BY <1>1 DEF PinCount
  <1>2. CASE declared # NULL
    <2>1. (declared % UcharSize) + 1 \in Nat
      BY <1>2, UcharAssumption, SMT
    <2>2. ((declared % UcharSize) + 1) % UcharSize \in 0 .. UcharSize - 1
      BY <2>1, UcharAssumption, SMT
    <2> QED BY <1>2, <2>2 DEF PinCount
  <1> QED BY <1>1, <1>2

\* Initially nothing is open and nobody has called.
LEMMA InitIInv == Init => IInv
  <1> SUFFICES ASSUME Init PROVE IInv
    OBVIOUS
  <1>1. <<>> \in Seq(SlotKinds) /\ Kept \in [0 .. NPUser - 1 -> {"kept", "saved", "zeroed"}]
    BY DEF Kept
  <1>2. TypeOK
    BY <1>1, UcharAssumption DEF Init, TypeOK, WorldType, LuaType, FlagsType, SeenType
  <1> QED BY <1>2 DEF Init, IInv, ConsoleMatches, StateInv

\* A call that ends the process changes nothing else.
LEMMA DiesIInv ==
  ASSUME IInv, NEW how \in {"panic", "nullptr", "undefined"}, Dies(how), proc = "up",
         how = "nullptr" => gCSimStartOverride = 1
  PROVE  IInv'
  <1>1. TypeOK'
    BY DEF Dies, IInv, TypeOK, WorldType, LuaType, FlagsType, SeenType
  <1> QED
    BY <1>1 DEF Dies, IInv, StateInv, ConsoleMatches, TypeOK, WorldType

\* A call of the script that raises, and a write past an array.
Ends == Dies("panic") \/ Dies("undefined")

\* A saved file does not touch the adapter.
LEMMA EditScriptIInv == IInv /\ EditScript => IInv'
  <1> SUFFICES ASSUME IInv, EditScript PROVE IInv'
    OBVIOUS
  <1>1. TypeOK'
    BY DEF EditScript, IInv, TypeOK, WorldType, LuaType, FlagsType, SeenType,
      ConsoleMatches
  <1>2. ConsoleMatches' /\ StateInv'
    BY DEF EditScript, IInv, TypeOK, WorldType, LuaType, FlagsType, ConsoleMatches,
      StateInv
  <1> QED BY <1>1, <1>2 DEF IInv

\* A new process is as the first one.
LEMMA RestartIInv == IInv /\ Restart => IInv'
  <1> SUFFICES ASSUME IInv, Restart PROVE IInv'
    OBVIOUS
  <1>1. <<>> \in Seq(SlotKinds) /\ Kept \in [0 .. NPUser - 1 -> {"kept", "saved", "zeroed"}]
    BY DEF Kept
  <1>2. TypeOK'
    BY <1>1, UcharAssumption DEF Restart, IInv, TypeOK, WorldType, LuaType,
      FlagsType, SeenType, ConsoleMatches
  <1>3. ConsoleMatches' /\ StateInv'
    BY <1>1, UcharAssumption DEF Restart, IInv, TypeOK, WorldType, LuaType,
      FlagsType, ConsoleMatches, StateInv
  <1> QED BY <1>2, <1>3 DEF IInv

\* The mark CSimStart leaves keeps the open-state rules silent.
LEMMA CSimStartIInv == IInv /\ CSimStart => IInv'
  <1> SUFFICES ASSUME IInv, CSimStart PROVE IInv'
    OBVIOUS
  <1>1. TypeOK'
    BY DEF CSimStart, IInv, TypeOK, WorldType, LuaType, FlagsType, SeenType,
      ConsoleMatches
  <1>2. ConsoleMatches' /\ StateInv'
    BY DEF CSimStart, IInv, TypeOK, WorldType, LuaType, FlagsType, ConsoleMatches,
      StateInv
  <1> QED BY <1>1, <1>2 DEF IInv

\* Counting opens and closes a state; a failed open sets gERROR.
LEMMA CNumInputsIInv == IInv /\ CNumInputsEx => IInv'
  <1> SUFFICES ASSUME IInv, CNumInputsEx PROVE IInv'
    OBVIOUS
  <1>1. file.nIn \in Nat \cup {NULL} /\ gNumInputs \in 0 .. UcharSize - 1
    BY ScriptFields DEF IInv, TypeOK, WorldType, LuaType
  <1>2. PinCount(file.nIn, gNumInputs) \in 0 .. UcharSize - 1
    BY <1>1, PinCountType
  <1>3. <<>> \in Seq(SlotKinds)
    OBVIOUS
  <1>4. WorldType'
    BY <1>2, <1>3 DEF CNumInputsEx, OpenMayFail, IInv, TypeOK, WorldType,
      ConsoleMatches
  <1>5. LuaType'
    BY <1>2, <1>3 DEF CNumInputsEx, OpenMayFail, IInv, TypeOK, LuaType,
      ConsoleMatches
  <1>6. FlagsType'
    BY <1>2, <1>3 DEF CNumInputsEx, OpenMayFail, IInv, TypeOK, FlagsType,
      ConsoleMatches
  <1>7. SeenType'
    BY <1>2, <1>3 DEF CNumInputsEx, OpenMayFail, IInv, TypeOK, SeenType, FlagsType,
      ConsoleMatches
  <1>8. ConsoleMatches' /\ StateInv'
    BY <1>2, <1>3 DEF CNumInputsEx, OpenMayFail, IInv, TypeOK, WorldType, LuaType,
      FlagsType, ConsoleMatches, StateInv
  <1> QED BY <1>4, <1>5, <1>6, <1>7, <1>8 DEF IInv, TypeOK

\* Counting opens and closes a state; a failed open sets gERROR.
LEMMA CNumOutputsIInv == IInv /\ CNumOutputsEx => IInv'
  <1> SUFFICES ASSUME IInv, CNumOutputsEx PROVE IInv'
    OBVIOUS
  <1>1. file.nOut \in Nat \cup {NULL} /\ gNumOutputs \in 0 .. UcharSize - 1
    BY ScriptFields DEF IInv, TypeOK, WorldType, LuaType
  <1>2. PinCount(file.nOut, gNumOutputs) \in 0 .. UcharSize - 1
    BY <1>1, PinCountType
  <1>3. <<>> \in Seq(SlotKinds)
    OBVIOUS
  <1>4. WorldType'
    BY <1>2, <1>3 DEF CNumOutputsEx, OpenMayFail, IInv, TypeOK, WorldType,
      ConsoleMatches
  <1>5. LuaType'
    BY <1>2, <1>3 DEF CNumOutputsEx, OpenMayFail, IInv, TypeOK, LuaType,
      ConsoleMatches
  <1>6. FlagsType'
    BY <1>2, <1>3 DEF CNumOutputsEx, OpenMayFail, IInv, TypeOK, FlagsType,
      ConsoleMatches
  <1>7. SeenType'
    BY <1>2, <1>3 DEF CNumOutputsEx, OpenMayFail, IInv, TypeOK, SeenType,
      FlagsType, ConsoleMatches
  <1>8. ConsoleMatches' /\ StateInv'
    BY <1>2, <1>3 DEF CNumOutputsEx, OpenMayFail, IInv, TypeOK, WorldType, LuaType,
      FlagsType, ConsoleMatches, StateInv
  <1> QED BY <1>4, <1>5, <1>6, <1>7, <1>8 DEF IInv, TypeOK

\* A mark that does not run over lies in its array.
LEMMA MarkTypes ==
  ASSUME IInv, NEW channel \in Nat
  PROVE  /\ ~InNameOverruns(channel) =>
              gInStrMarker \cup ({channel} \cap DollarInputs(file)) \subseteq Markable
         /\ ~OutNameOverruns(channel) =>
              gOutStrMarker \cup ({channel} \cap DollarOutputs(file)) \subseteq Markable
  <1>1. /\ DollarInputs(file) \subseteq Pins /\ DollarOutputs(file) \subseteq Pins
        /\ gInStrMarker \subseteq Markable /\ gOutStrMarker \subseteq Markable
    BY ScriptFields DEF IInv, TypeOK, WorldType, FlagsType
  <1>2. channel \in Pins /\ ~(channel >= NMarkers) => channel \in Markable
    BY NMarkersAssumption DEF Markable
  <1> QED BY <1>1, <1>2 DEF InNameOverruns, OutNameOverruns

\* A name query in edit mode: no state stays open.
LEMMA GetInputNameIInv ==
  ASSUME NEW channel \in 0 .. UcharSize - 1
  PROVE  IInv /\ GetInputName(channel) => IInv'
  <1> SUFFICES ASSUME IInv, GetInputName(channel) PROVE IInv'
    OBVIOUS
  <1>1. CASE Ends
    BY <1>1, DiesIInv DEF GetInputName, Ends
  <1>2. CASE ~Ends
    <2>1. <<>> \in Seq(SlotKinds)
      OBVIOUS
    <2>2. ~InNameOverruns(channel) =>
            gInStrMarker \cup ({channel} \cap DollarInputs(file)) \subseteq Markable
      BY MarkTypes, UcharAssumption DEF IInv, TypeOK, WorldType
    <2>3. WorldType'
      BY <1>2, <2>1, <2>2 DEF Ends, GetInputName, MarkInput, OpenMayFail, IInv, TypeOK,
        WorldType, ConsoleMatches
    <2>4. LuaType'
      BY <1>2, <2>1, <2>2 DEF Ends, GetInputName, MarkInput, OpenMayFail, IInv, TypeOK,
        LuaType, ConsoleMatches
    <2>5. FlagsType'
      BY <1>2, <2>1, <2>2 DEF Ends, GetInputName, MarkInput, OpenMayFail, IInv, TypeOK,
        FlagsType, ConsoleMatches
    <2>6. SeenType'
      BY <1>2, <2>1, <2>2 DEF Ends, GetInputName, MarkInput, OpenMayFail, IInv, TypeOK,
        SeenType, FlagsType, ConsoleMatches
    <2>7. ConsoleMatches' /\ StateInv'
      BY <1>2, <2>1, <2>2 DEF Ends, GetInputName, MarkInput, OpenMayFail, IInv, TypeOK,
        WorldType, LuaType, FlagsType, ConsoleMatches, StateInv
    <2> QED BY <2>3, <2>4, <2>5, <2>6, <2>7 DEF IInv, TypeOK
  <1> QED BY <1>1, <1>2

\* A name query of CSimStartFlaw: gERROR is still set.
LEMMA StartInNameIInv == IInv /\ StartInName => IInv'
  <1> SUFFICES ASSUME IInv, StartInName PROVE IInv'
    OBVIOUS
  <1>1. CASE Ends
    BY <1>1, DiesIInv DEF StartInName, Ends
  <1>2. CASE ~Ends
    <2>1. <<>> \in Seq(SlotKinds)
      OBVIOUS
    <2>2. ~InNameOverruns(i) =>
            gInStrMarker \cup ({i} \cap DollarInputs(file)) \subseteq Markable
      BY MarkTypes DEF IInv, TypeOK, WorldType
    <2>3. WorldType'
      BY <1>2, <2>1, <2>2 DEF Ends, StartInName, MarkInput, OpenMayFail, IInv, TypeOK,
        WorldType, ConsoleMatches
    <2>4. LuaType'
      BY <1>2, <2>1, <2>2 DEF Ends, StartInName, MarkInput, OpenMayFail, IInv, TypeOK,
        LuaType, ConsoleMatches
    <2>5. FlagsType'
      BY <1>2, <2>1, <2>2 DEF Ends, StartInName, MarkInput, OpenMayFail, IInv, TypeOK,
        FlagsType, ConsoleMatches
    <2>6. SeenType'
      BY <1>2, <2>1, <2>2 DEF Ends, StartInName, MarkInput, OpenMayFail, IInv, TypeOK,
        SeenType, FlagsType, ConsoleMatches
    <2>7. ConsoleMatches' /\ StateInv'
      BY <1>2, <2>1, <2>2 DEF Ends, StartInName, MarkInput, OpenMayFail, IInv, TypeOK,
        WorldType, LuaType, FlagsType, ConsoleMatches, StateInv
    <2> QED BY <2>3, <2>4, <2>5, <2>6, <2>7 DEF IInv, TypeOK
  <1> QED BY <1>1, <1>2

\* A name query in edit mode: no state stays open.
LEMMA GetOutputNameIInv ==
  ASSUME NEW channel \in 0 .. UcharSize - 1
  PROVE  IInv /\ GetOutputName(channel) => IInv'
  <1> SUFFICES ASSUME IInv, GetOutputName(channel) PROVE IInv'
    OBVIOUS
  <1>1. CASE Ends
    BY <1>1, DiesIInv DEF GetOutputName, Ends
  <1>2. CASE ~Ends
    <2>1. <<>> \in Seq(SlotKinds)
      OBVIOUS
    <2>2. ~OutNameOverruns(channel) =>
            gOutStrMarker \cup ({channel} \cap DollarOutputs(file)) \subseteq Markable
      BY MarkTypes, UcharAssumption DEF IInv, TypeOK, WorldType
    <2>3. WorldType'
      BY <1>2, <2>1, <2>2 DEF Ends, GetOutputName, MarkOutput, OpenMayFail, IInv, TypeOK,
        WorldType, ConsoleMatches
    <2>4. LuaType'
      BY <1>2, <2>1, <2>2 DEF Ends, GetOutputName, MarkOutput, OpenMayFail, IInv, TypeOK,
        LuaType, ConsoleMatches
    <2>5. FlagsType'
      BY <1>2, <2>1, <2>2 DEF Ends, GetOutputName, MarkOutput, OpenMayFail, IInv, TypeOK,
        FlagsType, ConsoleMatches
    <2>6. SeenType'
      BY <1>2, <2>1, <2>2 DEF Ends, GetOutputName, MarkOutput, OpenMayFail, IInv, TypeOK,
        SeenType, FlagsType, ConsoleMatches
    <2>7. ConsoleMatches' /\ StateInv'
      BY <1>2, <2>1, <2>2 DEF Ends, GetOutputName, MarkOutput, OpenMayFail, IInv, TypeOK,
        WorldType, LuaType, FlagsType, ConsoleMatches, StateInv
    <2> QED BY <2>3, <2>4, <2>5, <2>6, <2>7 DEF IInv, TypeOK
  <1> QED BY <1>1, <1>2

\* A name query of CSimStartFlaw: gERROR is still set.
LEMMA StartOutNameIInv == IInv /\ StartOutName => IInv'
  <1> SUFFICES ASSUME IInv, StartOutName PROVE IInv'
    OBVIOUS
  <1>1. CASE Ends
    BY <1>1, DiesIInv DEF StartOutName, Ends
  <1>2. CASE ~Ends
    <2>1. <<>> \in Seq(SlotKinds)
      OBVIOUS
    <2>2. ~OutNameOverruns(i) =>
            gOutStrMarker \cup ({i} \cap DollarOutputs(file)) \subseteq Markable
      BY MarkTypes DEF IInv, TypeOK, WorldType
    <2>3. WorldType'
      BY <1>2, <2>1, <2>2 DEF Ends, StartOutName, MarkOutput, OpenMayFail, IInv, TypeOK,
        WorldType, ConsoleMatches
    <2>4. LuaType'
      BY <1>2, <2>1, <2>2 DEF Ends, StartOutName, MarkOutput, OpenMayFail, IInv, TypeOK,
        LuaType, ConsoleMatches
    <2>5. FlagsType'
      BY <1>2, <2>1, <2>2 DEF Ends, StartOutName, MarkOutput, OpenMayFail, IInv, TypeOK,
        FlagsType, ConsoleMatches
    <2>6. SeenType'
      BY <1>2, <2>1, <2>2 DEF Ends, StartOutName, MarkOutput, OpenMayFail, IInv, TypeOK,
        SeenType, FlagsType, ConsoleMatches
    <2>7. ConsoleMatches' /\ StateInv'
      BY <1>2, <2>1, <2>2 DEF Ends, StartOutName, MarkOutput, OpenMayFail, IInv, TypeOK,
        WorldType, LuaType, FlagsType, ConsoleMatches, StateInv
    <2> QED BY <2>3, <2>4, <2>5, <2>6, <2>7 DEF IInv, TypeOK
  <1> QED BY <1>1, <1>2

\* The first call of a simulation sets gERROR before anything else.
LEMMA CCalculateExIInv ==
  ASSUME NEW on \in 0 .. 1
  PROVE  IInv /\ CCalculateEx(on) => IInv'
  <1> SUFFICES ASSUME IInv, CCalculateEx(on) PROVE IInv'
    OBVIOUS
  <1>1. WorldType'
    BY DEF CCalculateEx, ExpectWorst, ConsoleAtStart, ClearMarkers, IInv, TypeOK,
      WorldType, ConsoleMatches
  <1>2. LuaType'
    BY DEF CCalculateEx, ExpectWorst, ConsoleAtStart, ClearMarkers, IInv, TypeOK,
      LuaType, ConsoleMatches
  <1>3. FlagsType'
    BY DEF CCalculateEx, ExpectWorst, ConsoleAtStart, ClearMarkers, IInv, TypeOK,
      FlagsType, ConsoleMatches
  <1>4. SeenType'
    BY DEF CCalculateEx, ExpectWorst, ConsoleAtStart, ClearMarkers, IInv, TypeOK,
      SeenType, FlagsType, ConsoleMatches
  <1>5. ConsoleMatches' /\ StateInv'
    <2>1. pc = "host" /\ sim = "run" /\ proc = "up"
      BY DEF CCalculateEx
    <2>2. CASE gCSimStartOverride = 1
      <3>1. /\ gERROR' = 1 /\ pc' = "inNames" /\ con = 0 /\ gConsole = 0
            /\ (con' = 1 /\ gConsole' = 1) \/ (con' = 0 /\ gConsole' = 0)
            /\ UNCHANGED <<proc, sim, L, gCSimStartOverride>>
        BY <2>1, <2>2 DEF CCalculateEx, ExpectWorst, ConsoleAtStart, IInv, StateInv,
           ConsoleMatches
      <3> QED BY <2>1, <2>2, <3>1 DEF IInv, ConsoleMatches, StateInv
    <2>3. CASE gCSimStartOverride # 1
      <3>1. /\ pc' = "calc" /\ gCSimStartOverride = 0
            /\ UNCHANGED <<proc, sim, L, con, gERROR, gConsole, gCSimStartOverride>>
        BY <2>3 DEF CCalculateEx, console, IInv, TypeOK, FlagsType
      <3> QED BY <2>1, <2>3, <3>1 DEF IInv, ConsoleMatches, StateInv
    <2> QED BY <2>2, <2>3
  <1> QED BY <1>1, <1>2, <1>3, <1>4, <1>5 DEF IInv, TypeOK

\* OpenLuaScript gives CSimStartFlaw a state, or leaves gERROR set.
LEMMA StartOpenIInv == IInv /\ StartOpen => IInv'
  <1> SUFFICES ASSUME IInv, StartOpen PROVE IInv'
    OBVIOUS
  <1>1. file \in Scripts /\ file # NULL
    BY NullAssumption DEF IInv, TypeOK, WorldType
  <1>2. Opened \in Seq(SlotKinds) /\ Append(Opened, "nil") \in Seq(SlotKinds)
    <2>1. file.leaves \in Seq(SlotKinds) /\ stk \in Seq(SlotKinds)
      BY <1>1, ScriptFields DEF IInv, TypeOK, LuaType
    <2>2. EmptyStack \in Seq(SlotKinds) /\ "nil" \in SlotKinds
      BY DEF EmptyStack, SlotKinds, Kinds
    <2>3. Opened \in Seq(SlotKinds)
      BY <2>1, <2>2 DEF Opened
    <2> QED BY <2>2, <2>3
  <1>3. stk' \in Seq(SlotKinds) /\ Len(stk') \in Nat
    <2>1. stk' \in Seq(SlotKinds)
      BY <1>2 DEF StartOpen, IInv, TypeOK, LuaType
    <2> QED BY <2>1
  <1>4. TypeOK'
    BY <1>1, <1>3 DEF StartOpen, OpenMayFail, StartEnds, IInv, TypeOK, WorldType,
      LuaType, FlagsType, SeenType, ConsoleMatches
  <1>5. ConsoleMatches' /\ StateInv'
    BY <1>1, <1>3 DEF StartOpen, OpenMayFail, StartEnds, IInv, TypeOK, WorldType,
      LuaType, FlagsType, ConsoleMatches, StateInv
  <1> QED BY <1>4, <1>5 DEF IInv

\* What a call leaves on the stack is one slot.
LEMMA PushResult ==
  ASSUME IInv, NEW result \in Results \cup {"nil"}
  PROVE  Append(stk, result) \in Seq(SlotKinds) /\ Len(Append(stk, result)) \in Nat
  <1>1. stk \in Seq(SlotKinds) /\ result \in SlotKinds
    BY DEF IInv, TypeOK, LuaType, Results, SlotKinds, Kinds
  <1>2. Append(stk, result) \in Seq(SlotKinds)
    BY <1>1
  <1> QED BY <1>2

\* gSimStart is called with an open state.
LEMMA StartCallIInv == IInv /\ StartCall => IInv'
  <1> SUFFICES ASSUME IInv, StartCall PROVE IInv'
    OBVIOUS
  <1>1. CASE CallDies("gSimStart")
    BY <1>1, DiesIInv DEF StartCall, CallDies
  <1>2. CASE ~CallDies("gSimStart")
    <2>1. PICK result \in Results \cup {"nil"} : stk' = Append(stk, result)
      BY <1>2 DEF StartCall
    <2>2. stk' \in Seq(SlotKinds) /\ Len(stk') \in Nat
      BY <2>1, PushResult
    <2>3. WorldType'
      BY <1>2, <2>2 DEF StartCall, StartEnds, StartDeclaredGood, IInv, TypeOK,
        WorldType, ConsoleMatches
    <2>4. LuaType'
      BY <1>2, <2>2 DEF StartCall, StartEnds, StartDeclaredGood, IInv, TypeOK,
        LuaType, ConsoleMatches
    <2>5. FlagsType'
      BY <1>2, <2>2 DEF StartCall, StartEnds, StartDeclaredGood, IInv, TypeOK,
        FlagsType, ConsoleMatches
    <2>6. SeenType'
      BY <1>2, <2>2 DEF StartCall, StartEnds, StartDeclaredGood, IInv, TypeOK,
        SeenType, FlagsType, ConsoleMatches
    <2>7. ConsoleMatches' /\ StateInv'
      BY <1>2, <2>2 DEF StartCall, StartEnds, StartDeclaredGood, IInv, TypeOK,
        WorldType, LuaType, FlagsType, ConsoleMatches, StateInv
    <2> QED BY <2>3, <2>4, <2>5, <2>6, <2>7 DEF IInv, TypeOK
  <1> QED BY <1>1, <1>2

\* gCalculate is called without error, hence with an open state.
LEMMA CalcCallIInv == IInv /\ CalcCall => IInv'
  <1> SUFFICES ASSUME IInv, CalcCall PROVE IInv'
    OBVIOUS
  <1>1. CASE CallDies("gCalculate")
    BY <1>1, DiesIInv DEF CalcCall, CallDies
  <1>2. CASE ~CallDies("gCalculate")
    <2>1. PICK result \in Results \cup {"nil"} : stk' = Append(stk, result)
      BY <1>2 DEF CalcCall
    <2>2. stk' \in Seq(SlotKinds) /\ Len(stk') \in Nat
      BY <2>1, PushResult
    <2>3. WorldType'
      BY <1>2, <2>2 DEF CalcCall, Refused, SwitchConsole, Returns, IInv, TypeOK,
        WorldType, ConsoleMatches
    <2>4. LuaType'
      BY <1>2, <2>2 DEF CalcCall, Refused, SwitchConsole, Returns, IInv, TypeOK,
        LuaType, ConsoleMatches
    <2>5. FlagsType'
      BY <1>2, <2>2 DEF CalcCall, Refused, SwitchConsole, Returns, IInv, TypeOK,
        FlagsType, ConsoleMatches
    <2>6. SeenType'
      BY <1>2, <2>2 DEF CalcCall, Refused, SwitchConsole, Returns, IInv, TypeOK,
        SeenType, FlagsType, ConsoleMatches
    <2>7. ConsoleMatches' /\ StateInv'
      BY <1>2, <2>2 DEF CalcCall, Refused, SwitchConsole, Returns, IInv, TypeOK,
        WorldType, LuaType, FlagsType, ConsoleMatches, StateInv
    <2> QED BY <2>3, <2>4, <2>5, <2>6, <2>7 DEF IInv, TypeOK
  <1> QED BY <1>1, <1>2

\* A round of the read-back loop of CSimStartFlaw.
LEMMA StartBackIInv == IInv /\ StartBack => IInv'
  <1> SUFFICES ASSUME IInv, StartBack PROVE IInv'
    OBVIOUS
  <1>1. CASE LookupDies
    BY <1>1, DiesIInv DEF StartBack, LookupDies
  <1>2. CASE ~LookupDies
    <2>1. stk \in Seq(SlotKinds) /\ Front(stk) \in Seq(SlotKinds)
      BY FrontType DEF IInv, TypeOK, LuaType
    <2>2. stk' \in Seq(SlotKinds)
      BY <1>2, <2>1 DEF StartBack, AfterElement
    <2>3. /\ At("startBack") /\ i' = i + 1
          /\ gERROR' \in {gERROR, 1}
          /\ UNCHANGED <<proc, pc, sim, file, high, con, L, counts, console, markers>>
          /\ UNCHANGED <<gCSimStartOverride, errpin, puser, written, history>>
      BY <1>2 DEF StartBack, seen
    <2>4. TypeOK'
      BY <2>2, <2>3 DEF IInv, TypeOK, WorldType, LuaType, FlagsType, SeenType,
        ConsoleMatches
    <2>5. ConsoleMatches' /\ StateInv'
      BY <2>2, <2>3 DEF IInv, TypeOK, WorldType, LuaType, FlagsType,
        ConsoleMatches, StateInv
    <2> QED BY <2>4, <2>5 DEF IInv
  <1> QED BY <1>1, <1>2

\* A round of the read-back loop of CCalculateEx stores at a pin.
LEMMA CalcBackIInv == IInv /\ CalcBack => IInv'
  <1> SUFFICES ASSUME IInv, CalcBack PROVE IInv'
    OBVIOUS
  <1>1. CASE LookupDies
    BY <1>1, DiesIInv DEF CalcBack, LookupDies
  <1>2. CASE ~LookupDies
    <2>1. stk \in Seq(SlotKinds) /\ Front(stk) \in Seq(SlotKinds)
      BY FrontType DEF IInv, TypeOK, LuaType
    <2>2. stk' \in Seq(SlotKinds)
      BY <1>2, <2>1 DEF CalcBack, AfterElement
    <2>3. /\ At("calcBack") /\ i' = i + 1
          /\ gERROR' \in {gERROR, 1}
          /\ written' = written \cup {i}
          /\ UNCHANGED <<proc, pc, sim, file, high, con, L, counts, console, markers>>
          /\ UNCHANGED <<gCSimStartOverride, errpin, puser, history>>
      BY <1>2 DEF CalcBack, seen
    <2>4. i \in Pins
      BY <1>2, UcharAssumption
      DEF CalcBack, MorePins, IInv, TypeOK, WorldType, LuaType, StateInv, Pins
    <2>5. WorldType'
      BY <2>2, <2>3, <2>4 DEF IInv, TypeOK, WorldType, ConsoleMatches
    <2>6. LuaType'
      BY <2>2, <2>3, <2>4 DEF IInv, TypeOK, LuaType, ConsoleMatches
    <2>7. FlagsType'
      BY <2>2, <2>3, <2>4 DEF IInv, TypeOK, FlagsType, ConsoleMatches
    <2>8. SeenType'
      BY <2>2, <2>3, <2>4 DEF IInv, TypeOK, SeenType, FlagsType, ConsoleMatches
    <2>9. ConsoleMatches' /\ StateInv'
      BY <2>2, <2>3, <2>4 DEF IInv, TypeOK, WorldType, LuaType, FlagsType, ConsoleMatches,
        StateInv
    <2> QED BY <2>5, <2>6, <2>7, <2>8, <2>9 DEF IInv, TypeOK
  <1> QED BY <1>1, <1>2

\* A round of the read-back loop of CSimStop.
LEMMA StopBackIInv == IInv /\ StopBack => IInv'
  <1> SUFFICES ASSUME IInv, StopBack PROVE IInv'
    OBVIOUS
  <1>1. CASE LookupDies
    BY <1>1, DiesIInv DEF StopBack, LookupDies
  <1>2. CASE ~LookupDies
    <2>1. stk \in Seq(SlotKinds) /\ Front(stk) \in Seq(SlotKinds)
      BY FrontType DEF IInv, TypeOK, LuaType
    <2>2. stk' \in Seq(SlotKinds)
      BY <1>2, <2>1 DEF StopBack, AfterElement
    <2>3. /\ At("puserBack") /\ i' = i + 1
          /\ \E v \in {"saved", "zeroed"} : puser' = [puser EXCEPT ![i] = v]
          /\ UNCHANGED <<proc, pc, sim, file, high, con, L, counts, console, markers>>
          /\ UNCHANGED <<gCSimStartOverride, gERROR, errpin, written, history>>
      BY <1>2 DEF StopBack, seen
    <2>4. WorldType'
      BY <2>2, <2>3 DEF IInv, TypeOK, WorldType, ConsoleMatches
    <2>5. LuaType'
      BY <2>2, <2>3 DEF IInv, TypeOK, LuaType, ConsoleMatches
    <2>6. FlagsType'
      BY <2>2, <2>3 DEF IInv, TypeOK, FlagsType, ConsoleMatches
    <2>7. SeenType'
      BY <2>2, <2>3 DEF IInv, TypeOK, SeenType, FlagsType, ConsoleMatches
    <2>8. ConsoleMatches' /\ StateInv'
      BY <2>2, <2>3 DEF IInv, TypeOK, WorldType, LuaType, FlagsType, ConsoleMatches,
        StateInv
    <2> QED BY <2>4, <2>5, <2>6, <2>7, <2>8 DEF IInv, TypeOK
  <1> QED BY <1>1, <1>2

\* An adapter in error only shows it.
LEMMA CalcRefuseIInv == IInv /\ CalcRefuse => IInv'
  <1> SUFFICES ASSUME IInv, CalcRefuse PROVE IInv'
    OBVIOUS
  <1>1. TypeOK'
    BY DEF CalcRefuse, Refused, SwitchConsole, ShowError, Returns, IInv, TypeOK,
      WorldType, LuaType, FlagsType, SeenType, ConsoleMatches
  <1>2. ConsoleMatches' /\ StateInv'
    BY DEF CalcRefuse, Refused, SwitchConsole, ShowError, Returns, IInv, TypeOK,
      WorldType, LuaType, FlagsType, ConsoleMatches, StateInv
  <1> QED BY <1>1, <1>2 DEF IInv

\* gERROR is cleared with a state open.
LEMMA StartBackEndIInv == IInv /\ StartBackEnd => IInv'
  <1> SUFFICES ASSUME IInv, StartBackEnd PROVE IInv'
    OBVIOUS
  <1>1. Front(stk) \in Seq(SlotKinds)
    BY FrontType DEF IInv, TypeOK, LuaType
  <1>2. Len(Front(stk)) \in Nat
    BY <1>1
  <1>3. TypeOK'
    BY <1>1, <1>2 DEF StartBackEnd, DropTable, MorePins, StartEnds,
      StartDeclaredGood, IInv, TypeOK, WorldType, LuaType, FlagsType, SeenType,
      ConsoleMatches
  <1>4. ConsoleMatches' /\ StateInv'
    BY <1>1, <1>2 DEF StartBackEnd, DropTable, MorePins, StartEnds,
      StartDeclaredGood, IInv, TypeOK, WorldType, LuaType, FlagsType,
      ConsoleMatches, StateInv
  <1> QED BY <1>3, <1>4 DEF IInv

\* The table is dropped.
LEMMA CalcBackEndIInv == IInv /\ CalcBackEnd => IInv'
  <1> SUFFICES ASSUME IInv, CalcBackEnd PROVE IInv'
    OBVIOUS
  <1>1. Front(stk) \in Seq(SlotKinds)
    BY FrontType DEF IInv, TypeOK, LuaType
  <1>2. Len(Front(stk)) \in Nat
    BY <1>1
  <1>3. TypeOK'
    BY <1>1, <1>2 DEF CalcBackEnd, DropTable, MorePins, Returns, IInv, TypeOK,
      WorldType, LuaType, FlagsType, SeenType, ConsoleMatches
  <1>4. ConsoleMatches' /\ StateInv'
    BY <1>1, <1>2 DEF CalcBackEnd, DropTable, MorePins, Returns, IInv, TypeOK,
      WorldType, LuaType, FlagsType, ConsoleMatches, StateInv
  <1> QED BY <1>3, <1>4 DEF IInv

\* The table is dropped.
LEMMA StopBackEndIInv == IInv /\ StopBackEnd => IInv'
  <1> SUFFICES ASSUME IInv, StopBackEnd PROVE IInv'
    OBVIOUS
  <1>1. Front(stk) \in Seq(SlotKinds)
    BY FrontType DEF IInv, TypeOK, LuaType
  <1>2. Len(Front(stk)) \in Nat
    BY <1>1
  <1>3. TypeOK'
    BY <1>1, <1>2 DEF StopBackEnd, DropTable, MoreSlots, IInv, TypeOK, WorldType,
      LuaType, FlagsType, SeenType, ConsoleMatches
  <1>4. ConsoleMatches' /\ StateInv'
    BY <1>1, <1>2 DEF StopBackEnd, DropTable, MoreSlots, IInv, TypeOK, WorldType,
      LuaType, FlagsType, ConsoleMatches, StateInv
  <1> QED BY <1>3, <1>4 DEF IInv

\* The state and the console are given back.
LEMMA StopCloseIInv == IInv /\ StopClose => IInv'
  <1> SUFFICES ASSUME IInv, StopClose PROVE IInv'
    OBVIOUS
  <1>1. <<>> \in Seq(SlotKinds)
    OBVIOUS
  <1>2. TypeOK'
    BY <1>1 DEF StopClose, IInv, TypeOK, WorldType, LuaType, FlagsType, SeenType,
      ConsoleMatches
  <1>3. ConsoleMatches' /\ StateInv'
    BY <1>1 DEF StopClose, IInv, TypeOK, WorldType, LuaType, FlagsType,
      ConsoleMatches, StateInv
  <1> QED BY <1>2, <1>3 DEF IInv

\* CSimStop meets a NULL state only before the first CCalculateEx.
LEMMA CSimStopIInv == IInv /\ CSimStop => IInv'
  <1> SUFFICES ASSUME IInv, CSimStop PROVE IInv'
    OBVIOUS
  <1>1. Kept \in [0 .. NPUser - 1 -> {"kept", "saved", "zeroed"}]
    BY DEF Kept
  <1>2. CASE gERROR = 0 /\ L = NULL /\ Dies("nullptr")
    <2>1. gCSimStartOverride = 1
      BY <1>2 DEF CSimStop, At, IInv, TypeOK, FlagsType, StateInv
    <2> QED BY <1>2, <2>1, DiesIInv DEF CSimStop
  <1>3. CASE gERROR = 0 /\ L # NULL /\ CallDies("gSimStop")
    BY <1>3, DiesIInv DEF CSimStop, CallDies
  <1>4. CASE gERROR = 1
    <2>1. TypeOK'
      BY <1>1, <1>4 DEF CSimStop, IInv, TypeOK, WorldType, LuaType, FlagsType,
        SeenType, ConsoleMatches
    <2>2. ConsoleMatches' /\ StateInv'
      BY <1>1, <1>4 DEF CSimStop, IInv, TypeOK, WorldType, LuaType, FlagsType,
        ConsoleMatches, StateInv
    <2> QED BY <2>1, <2>2 DEF IInv
  <1>5. CASE gERROR = 0 /\ L # NULL /\ ~CallDies("gSimStop")
    <2> DEFINE left == IF "gSimStop" \in L.has THEN stk ELSE Append(stk, "nil")
    <2>1. PICK gPUser \in Results : /\ stk' = Append(left, gPUser)
                                  /\ pc' = IF gPUser = "tbl" THEN "puserBack" ELSE "close"
      BY <1>5 DEF CSimStop
    <2>2. stk' \in Seq(SlotKinds)
      <3>1. stk \in Seq(SlotKinds) /\ gPUser \in SlotKinds /\ "nil" \in SlotKinds
        BY DEF IInv, TypeOK, LuaType, Results, SlotKinds, Kinds
      <3>2. left \in Seq(SlotKinds)
        BY <3>1
      <3> HIDE DEF left
      <3> QED BY <2>1, <3>1, <3>2
    <2>3. pc' \in {"puserBack", "close"}
      BY <2>1
    <2> HIDE DEF left
    <2>4. WorldType'
      BY <1>1, <1>5, <2>2, <2>3 DEF CSimStop, IInv, TypeOK, WorldType,
        ConsoleMatches
    <2>5. LuaType'
      BY <1>1, <1>5, <2>2, <2>3 DEF CSimStop, IInv, TypeOK, LuaType,
        ConsoleMatches
    <2>6. FlagsType'
      BY <1>1, <1>5, <2>2, <2>3 DEF CSimStop, IInv, TypeOK, FlagsType,
        ConsoleMatches
    <2>7. SeenType'
      BY <1>1, <1>5, <2>2, <2>3 DEF CSimStop, IInv, TypeOK, SeenType, FlagsType,
        ConsoleMatches
    <2>8. ConsoleMatches' /\ StateInv'
      BY <1>1, <1>5, <2>2, <2>3 DEF CSimStop, IInv, TypeOK, WorldType, LuaType,
        FlagsType, ConsoleMatches, StateInv
    <2> QED BY <2>4, <2>5, <2>6, <2>7, <2>8 DEF IInv, TypeOK
  <1> QED BY <1>2, <1>3, <1>4, <1>5 DEF CSimStop

\* Every step keeps the inductive invariant.
LEMMA NextIInv == IInv /\ [Next]_vars => IInv'
  <1> SUFFICES ASSUME IInv, [Next]_vars PROVE IInv'
    OBVIOUS
  <1>1. CASE Step
    BY <1>1, StartInNameIInv, StartOutNameIInv, StartOpenIInv, StartCallIInv,
       StartBackIInv, StartBackEndIInv, CalcRefuseIInv, CalcCallIInv, CalcBackIInv,
       CalcBackEndIInv, StopBackIInv, StopBackEndIInv, StopCloseIInv DEF Step
  <1>2. CASE Host
    BY <1>2, RestartIInv, EditScriptIInv, CNumInputsIInv, CNumOutputsIInv,
       GetInputNameIInv, GetOutputNameIInv, CSimStartIInv, CSimStopIInv,
       CCalculateExIInv DEF Host
  <1>3. CASE UNCHANGED vars
    BY <1>3 DEF vars, IInv, TypeOK, WorldType, LuaType, FlagsType, SeenType,
       ConsoleMatches, StateInv
  <1> QED BY <1>1, <1>2, <1>3 DEF Next

-----------------------------------------------------------------------------
\* The adapter's globals keep their types: the counts fit a uchar, the stack is
\* a sequence of slots, whatever scripts are edited, counted, named and run.
THEOREM TypeCorrect == Spec => []TypeOK
  <1>1. IInv => TypeOK
    BY DEF IInv
  <1> QED BY <1>1, InitIInv, NextIInv, PTL DEF Spec

\* Every call into Lua finds an open state, except in a CSimStop that comes
\* before the first CCalculateEx: gERROR keeps the others away.
THEOREM StateSafe == Spec => []StateWhenNeeded
  <1>1. IInv => StateWhenNeeded
    BY DEF IInv, StateInv, StateWhenNeeded
  <1> QED BY <1>1, InitIInv, NextIInv, PTL DEF Spec

\* The number of consoles attached is the one gConsole remembers.
THEOREM ConsoleSafe == Spec => []ConsoleMatches
  <1>1. IInv => ConsoleMatches
    BY DEF IInv
  <1> QED BY <1>1, InitIInv, NextIInv, PTL DEF Spec

-----------------------------------------------------------------------------
\* What the ERROR pin shows while a call is under way and between two calls: it is
\* off as long as gERROR is, and stays off in the call that raises gERROR.
PinInv ==
  /\ pc = "calc" /\ gERROR = 0 => errpin = 0
  /\ pc = "calcBack" => errpin = 0
  /\ pc = "host" /\ sim = "run" /\ gCSimStartOverride = 0 /\ gERROR = 0 => errpin = 0
  /\ pc = "host" /\ sim = "run" /\ gCSimStartOverride = 0 =>
       (errpin = 1 <=> gERROR = 1 /\ erredNow = 0)

\* The steps that touch the pin, gERROR or the place of the call keep PinInv.
LEMMA NextPinInv == IInv /\ PinInv /\ [Next]_vars => PinInv'
  <1> SUFFICES ASSUME IInv, PinInv, [Next]_vars PROVE PinInv'
    OBVIOUS
  <1> USE DEF IInv, TypeOK, WorldType, FlagsType, SeenType, StateInv, PinInv
  <1>1. ASSUME NEW how, Dies(how) PROVE PinInv'
    BY <1>1 DEF Dies
  <1>2. CASE StartInName
    BY <1>1, <1>2 DEF StartInName, MarkInput
  <1>3. CASE StartOutName
    BY <1>1, <1>3 DEF StartOutName, MarkOutput
  <1>4. CASE StartOpen
    BY <1>4 DEF StartOpen, StartEnds
  <1>5. CASE StartCall
    BY <1>1, <1>5 DEF StartCall, CallDies, StartEnds, StartDeclaredGood
  <1>6. CASE StartBack \/ StopBack
    BY <1>1, <1>6 DEF StartBack, StopBack, LookupDies
  <1>7. CASE StartBackEnd \/ StopBackEnd \/ StopClose
    BY <1>7 DEF StartBackEnd, StopBackEnd, StopClose, StartEnds, StartDeclaredGood
  <1>8. CASE CalcRefuse
    BY <1>8 DEF CalcRefuse, Refused, ShowError, Returns
  <1>9. CASE CalcCall
    BY <1>1, <1>9 DEF CalcCall, CallDies, Refused, Returns
  <1>10. CASE CalcBack
    BY <1>1, <1>10 DEF CalcBack, LookupDies
  <1>11. CASE CalcBackEnd
    BY <1>11 DEF CalcBackEnd, Returns
  <1>12. CASE Restart \/ EditScript \/ CNumInputsEx \/ CNumOutputsEx \/ CSimStart
    BY <1>12 DEF Restart, EditScript, CNumInputsEx, CNumOutputsEx, CSimStart
  <1>13. ASSUME NEW channel \in 0 .. UcharSize - 1,
                GetInputName(channel) \/ GetOutputName(channel)
         PROVE  PinInv'
    BY <1>1, <1>13 DEF GetInputName, GetOutputName
  <1>14. CASE CSimStop
    BY <1>1, <1>14 DEF CSimStop, CallDies
  <1>15. ASSUME NEW on \in 0 .. 1, CCalculateEx(on) PROVE PinInv'
    BY <1>15 DEF CCalculateEx, ExpectWorst
  <1>16. CASE UNCHANGED vars
    BY <1>16 DEF vars
  <1> QED BY <1>2, <1>3, <1>4, <1>5, <1>6, <1>7, <1>8, <1>9, <1>10, <1>11, <1>12, <1>13,
             <1>14, <1>15, <1>16 DEF Next, Step, Host

\* gERROR is shown on the ERROR pin from the call after the one that raised it, and
\* the pin goes off only when gERROR is cleared.
THEOREM ErrorPinSafe == Spec => []ErrorPinFollows
  <1>1. Init => PinInv
    BY DEF Init, PinInv
  <1>2. PinInv => ErrorPinFollows
    BY DEF PinInv, ErrorPinFollows, Running
  <1> QED BY <1>1, <1>2, InitIInv, NextIInv, NextPinInv, PTL DEF Spec

-----------------------------------------------------------------------------
(***************************************************************************)
(* What a simulation of the host adapter promises its script: its pins are *)
(* passed as the script declared them, a script that keeps the contract is *)
(* never declared faulty, the Lua stack is given back call by call and the *)
(* user parameters are handed over whole.                                  *)
(***************************************************************************)

\* No state is open outside a simulation that has got to its own OpenLuaScript.
ClosedInv ==
  /\ pc = "host" /\ (sim = "edit" \/ gCSimStartOverride = 1) => L = NULL
  /\ pc \in {"inNames", "outNames"} => L = NULL
  /\ pc = "start" /\ i = 0 => L = NULL

\* The names of the script on disk are asked pin by pin: the markers are those of
\* the pins asked so far, then those of the state that was opened on that file.
MarkInv ==
  /\ pc = "inNames" => i <= gNumInputs
  /\ pc = "outNames" => i <= gNumOutputs
  /\ pc = "inNames" /\ disturbed = 0 =>
       /\ gInStrMarker = DollarInputs(file) \cap 1 .. i - 1
       /\ gOutStrMarker = {}
  /\ pc = "outNames" /\ disturbed = 0 =>
       /\ gInStrMarker = DollarInputs(file) \cap 1 .. gNumInputs - 1
       /\ gOutStrMarker = DollarOutputs(file) \cap 1 .. i - 1
  /\ pc = "start" /\ i = 0 /\ disturbed = 0 =>
       /\ gInStrMarker = DollarInputs(file) \cap 1 .. gNumInputs - 1
       /\ gOutStrMarker = DollarOutputs(file) \cap 1 .. gNumOutputs - 1
  /\ MarkersMatch

\* A call of the simulation is one slot, the table it reads back, above the height
\* its start left, and has stored a result for the pins before i.
RoundInv ==
  /\ pc = "calc" /\ gERROR = 0 => Len(stk) = startLen
  /\ pc = "calcBack" /\ gERROR = 0 => Len(stk) = startLen + 1
  /\ pc = "calcBack" => /\ written = 1 .. i - 1
                        /\ i <= gNumOutputs \/ i = 1
  /\ StackSteady
  /\ OutputsFresh

\* A good script has left gPUser as a table of numbers: every slot before i is
\* saved and the table is still at the top.
Saved == [n \in 0 .. NPUser - 1 |-> "saved"]

UserInv ==
  /\ pc = "puserBack" /\ L.good =>
       /\ i <= NPUser /\ stk # <<>> /\ Last(stk) = "tbl"
       /\ puser = [n \in 0 .. NPUser - 1 |-> IF n < i THEN "saved" ELSE "kept"]
  /\ pc = "close" /\ L # NULL /\ L.good => puser \in {Kept, Saved}
  /\ PUserAllOrNothing

\* The state holds a script that keeps the contract ProfiLab was told of.
Conforming == L # NULL /\ disturbed = 0 /\ Conforms(L)

\* A script that conforms keeps its table at the top and gERROR clear.
ConformInv ==
  /\ pc = "startBack" => i >= 1
  /\ Conforming =>
       /\ pc \in {"startBack", "calcBack"} => stk # <<>> /\ Last(stk) = "tbl"
       /\ pc \in {"calc", "calcBack"} => gERROR = 0
  /\ L # NULL /\ disturbed = 0 /\ Conforms(L) =>
       /\ proc = "up"
       /\ Running => gERROR = 0

\* No file that conforms ends the process before it is opened for good.
NamingInv == L = NULL /\ Conforms(file) => proc \in {"up", "nullptr"}

-----------------------------------------------------------------------------
\* Pushing puts the slot at the top, one higher.
LEMMA PushTop ==
  ASSUME NEW S, NEW s \in Seq(S), NEW e \in S
  PROVE  /\ Len(Append(s, e)) = Len(s) + 1
         /\ Append(s, e) # <<>> /\ Last(Append(s, e)) = e
  <1>1. Len(Append(s, e)) = Len(s) + 1 /\ Append(s, e)[Len(s) + 1] = e
    OBVIOUS
  <1>2. Append(s, e) # <<>>
    BY <1>1
  <1> QED BY <1>1, <1>2 DEF Last

\* Popping a slot of a stack that has one leaves one less.
LEMMA PopLen ==
  ASSUME NEW S, NEW s \in Seq(S), s # <<>>
  PROVE  Len(Front(s)) = Len(s) - 1
  <1>1. Len(s) \in Nat \ {0}
    BY SMT
  <1>2. Front(s) = [n \in 1 .. Len(s) - 1 |-> s[n]]
    BY <1>1, SMT DEF Front
  <1>3. Len(s) - 1 \in Nat /\ \A n \in 1 .. Len(s) - 1 : s[n] \in S
    BY <1>1, SMT
  <1> QED BY <1>2, <1>3, SMT

-----------------------------------------------------------------------------
\* A state is opened for good by CSimStartFlaw only, and closed by CSimStop.
LEMMA NextClosed == IInv /\ ClosedInv /\ [Next]_vars => ClosedInv'
  <1> SUFFICES ASSUME IInv, ClosedInv, [Next]_vars PROVE ClosedInv'
    OBVIOUS
  <1> USE DEF IInv, TypeOK, WorldType, FlagsType, StateInv, ClosedInv
  <1>1. ASSUME NEW how, Dies(how) PROVE ClosedInv'
    BY <1>1 DEF Dies
  <1>2. CASE StartInName
    BY <1>1, <1>2 DEF StartInName, MarkInput
  <1>3. CASE StartOutName
    BY <1>1, <1>3 DEF StartOutName, MarkOutput
  <1>4. CASE StartOpen
    BY <1>4 DEF StartOpen, StartEnds
  <1>5. CASE StartCall
    BY <1>1, <1>5 DEF StartCall, CallDies, StartEnds
  <1>6. CASE StartBack \/ CalcBack \/ StopBack
    BY <1>1, <1>6 DEF StartBack, CalcBack, StopBack, LookupDies
  <1>7. CASE StartBackEnd \/ StopBackEnd \/ StopClose \/ CalcBackEnd
    BY <1>7 DEF StartBackEnd, StopBackEnd, StopClose, CalcBackEnd, StartEnds, Returns
  <1>8. CASE CalcRefuse \/ CalcCall
    BY <1>1, <1>8 DEF CalcRefuse, CalcCall, CallDies, Returns
  <1>9. CASE Restart \/ EditScript \/ CNumInputsEx \/ CNumOutputsEx \/ CSimStart
    BY <1>9 DEF Restart, EditScript, CNumInputsEx, CNumOutputsEx, CSimStart
  <1>10. ASSUME NEW channel \in 0 .. UcharSize - 1,
                GetInputName(channel) \/ GetOutputName(channel)
         PROVE  ClosedInv'
    BY <1>1, <1>10 DEF GetInputName, GetOutputName, MarkInput, MarkOutput
  <1>11. CASE CSimStop
    BY <1>1, <1>11 DEF CSimStop, CallDies
  <1>12. ASSUME NEW on \in 0 .. 1, CCalculateEx(on) PROVE ClosedInv'
    BY <1>12 DEF CCalculateEx
  <1>13. CASE UNCHANGED vars
    BY <1>13 DEF vars
  <1> QED BY <1>2, <1>3, <1>4, <1>5, <1>6, <1>7, <1>8, <1>9, <1>10, <1>11, <1>12, <1>13
          DEF Next, Step, Host

\* Each round of the name loops adds the mark of one pin.
LEMMA MarkRound ==
  ASSUME NEW D, NEW n \in Nat
  PROVE  /\ n # 0 => (D \cap 1 .. n - 1) \cup ({n} \cap D) = D \cap 1 .. n
         /\ D \cap 1 .. 0 - 1 = {} /\ D \cap 1 .. 0 = {}
  OBVIOUS

\* The names are asked in the order of the pins, once each.
LEMMA NextMark == IInv /\ ClosedInv /\ MarkInv /\ [Next]_vars => MarkInv'
  <1> SUFFICES ASSUME IInv, ClosedInv, MarkInv, [Next]_vars PROVE MarkInv'
    OBVIOUS
  <1> USE DEF IInv, TypeOK, WorldType, LuaType, FlagsType, SeenType, StateInv, ClosedInv, MarkInv,
              MarkersMatch
  <1>1. ASSUME NEW how, Dies(how) PROVE MarkInv'
    BY <1>1 DEF Dies
  <1>2. CASE StartInName
    <2>1. CASE i < gNumInputs /\ i # 0 /\ ~Ends
      <3>1. /\ MarkInput(i) /\ i' = i + 1 /\ L = NULL
            /\ UNCHANGED <<proc, pc, file, counts, gOutStrMarker>>
        BY <1>2, <2>1 DEF StartInName, Ends
      <3>2. L' = NULL
        BY <3>1 DEF MarkInput
      <3>3. disturbed' = 0 =>
              disturbed = 0 /\ gInStrMarker' = gInStrMarker \cup ({i} \cap DollarInputs(file))
        BY <2>1, <3>1 DEF MarkInput
      <3>4. (i + 1) - 1 = i
        OBVIOUS
      <3>5. disturbed = 0 =>
              gInStrMarker \cup ({i} \cap DollarInputs(file)) = DollarInputs(file) \cap 1 .. (i + 1) - 1
        BY <1>2, <2>1, <3>4, MarkRound DEF StartInName
      <3> QED BY <1>2, <2>1, <3>1, <3>2, <3>3, <3>5 DEF StartInName
    <2>2. CASE i < gNumInputs /\ i = 0 /\ ~Ends
      <3>1. /\ i' = 1 /\ L' = L /\ L = NULL
            /\ UNCHANGED <<proc, pc, file, counts, markers, disturbed>>
        BY <1>2, <2>2 DEF StartInName, Ends, MarkInput
      <3>2. DollarInputs(file) \cap 1 .. 0 - 1 = {} /\ DollarInputs(file) \cap 1 .. 1 - 1 = {}
        OBVIOUS
      <3> QED BY <1>2, <2>2, <3>1, <3>2 DEF StartInName
    <2>3. CASE ~(i < gNumInputs) /\ ~Ends
      <3>1. /\ i' = 0 /\ L' = L /\ L = NULL /\ i = gNumInputs
            /\ pc' = "outNames"
            /\ UNCHANGED <<proc, file, counts, markers, disturbed>>
        BY <1>2, <2>3 DEF StartInName, Ends
      <3>2. DollarOutputs(file) \cap 1 .. 0 - 1 = {}
        OBVIOUS
      <3> QED BY <1>2, <2>3, <3>1, <3>2 DEF StartInName
    <2> QED BY <1>1, <2>1, <2>2, <2>3 DEF Ends
  <1>3. CASE StartOutName
    <2>1. CASE i < gNumOutputs /\ i # 0 /\ ~Ends
      <3>1. /\ MarkOutput(i) /\ i' = i + 1 /\ L = NULL
            /\ UNCHANGED <<proc, pc, file, counts, gInStrMarker>>
        BY <1>3, <2>1 DEF StartOutName, Ends
      <3>2. L' = NULL
        BY <3>1 DEF MarkOutput
      <3>3. disturbed' = 0 =>
              disturbed = 0 /\ gOutStrMarker' = gOutStrMarker \cup ({i} \cap DollarOutputs(file))
        BY <2>1, <3>1 DEF MarkOutput
      <3>4. (i + 1) - 1 = i
        OBVIOUS
      <3>5. disturbed = 0 =>
              gOutStrMarker \cup ({i} \cap DollarOutputs(file)) = DollarOutputs(file) \cap 1 .. (i + 1) - 1
        BY <1>3, <2>1, <3>4, MarkRound DEF StartOutName
      <3> QED BY <1>3, <2>1, <3>1, <3>2, <3>3, <3>5 DEF StartOutName
    <2>2. CASE i < gNumOutputs /\ i = 0 /\ ~Ends
      <3>1. /\ i' = 1 /\ L' = L /\ L = NULL
            /\ UNCHANGED <<proc, pc, file, counts, markers, disturbed>>
        BY <1>3, <2>2 DEF StartOutName, Ends, MarkOutput
      <3>2. DollarOutputs(file) \cap 1 .. 0 - 1 = {} /\ DollarOutputs(file) \cap 1 .. 1 - 1 = {}
        OBVIOUS
      <3> QED BY <1>3, <2>2, <3>1, <3>2 DEF StartOutName
    <2>3. CASE ~(i < gNumOutputs) /\ ~Ends
      <3>1. /\ i' = 0 /\ L' = L /\ L = NULL /\ i = gNumOutputs
            /\ pc' = "start"
            /\ UNCHANGED <<proc, file, counts, markers, disturbed>>
        BY <1>3, <2>3 DEF StartOutName, Ends
      <3>2. DollarOutputs(file) \cap 1 .. 0 - 1 = {}
        OBVIOUS
      <3> QED BY <1>3, <2>3, <3>1, <3>2 DEF StartOutName
    <2> QED BY <1>1, <2>1, <2>2, <2>3 DEF Ends
  <1>4. CASE StartOpen
    BY <1>4 DEF StartOpen, StartEnds
  <1>5. CASE StartCall
    BY <1>1, <1>5 DEF StartCall, CallDies, StartEnds
  <1>6. CASE StartBack \/ CalcBack \/ StopBack
    BY <1>1, <1>6 DEF StartBack, CalcBack, StopBack, LookupDies
  <1>7. CASE StartBackEnd \/ StopBackEnd \/ StopClose \/ CalcBackEnd
    BY <1>7 DEF StartBackEnd, StopBackEnd, StopClose, CalcBackEnd, StartEnds, Returns
  <1>8. CASE CalcRefuse \/ CalcCall
    BY <1>1, <1>8 DEF CalcRefuse, CalcCall, CallDies, Returns
  <1>9. CASE Restart \/ EditScript \/ CNumInputsEx \/ CNumOutputsEx \/ CSimStart
    <2>1. CASE EditScript
      <3>1. /\ disturbed' = 0 => pc = "host" /\ disturbed = 0
            /\ UNCHANGED <<pc, i, L, counts, markers>>
        BY <2>1 DEF EditScript, Reopening
      <3>2. CASE disturbed' # 0
        BY <3>1, <3>2
      <3>3. CASE disturbed' = 0
        BY <3>1, <3>3
      <3> QED BY <3>2, <3>3
    <2>2. CASE Restart \/ CNumInputsEx \/ CNumOutputsEx \/ CSimStart
      BY <2>2 DEF Restart, CNumInputsEx, CNumOutputsEx, CSimStart
    <2> QED BY <1>9, <2>1, <2>2
  <1>10. ASSUME NEW channel \in 0 .. UcharSize - 1,
                GetInputName(channel) \/ GetOutputName(channel)
         PROVE  MarkInv'
    BY <1>1, <1>10 DEF GetInputName, GetOutputName, MarkInput, MarkOutput
  <1>11. CASE CSimStop
    BY <1>1, <1>11 DEF CSimStop, CallDies
  <1>12. ASSUME NEW on \in 0 .. 1, CCalculateEx(on) PROVE MarkInv'
    BY <1>12, MarkRound DEF CCalculateEx, ClearMarkers
  <1>13. CASE UNCHANGED vars
    BY <1>13 DEF vars
  <1> QED BY <1>2, <1>3, <1>4, <1>5, <1>6, <1>7, <1>8, <1>9, <1>10, <1>11, <1>12, <1>13
          DEF Next, Step, Host

\* The markers the pins are passed by are those of the script that runs; its start
\* found room for each of them in the marker arrays.
THEOREM MarkersSafe == Spec => []MarkersMatch
  <1>1. Init => ClosedInv /\ MarkInv
    BY DEF Init, ClosedInv, MarkInv, MarkersMatch
  <1>2. MarkInv => MarkersMatch
    BY DEF MarkInv
  <1> QED BY <1>1, <1>2, InitIInv, NextIInv, NextClosed, NextMark, PTL DEF Spec

-----------------------------------------------------------------------------
\* What AfterElement and the calls do to the height of the stack.
LEMMA StackType == IInv => stk \in Seq(SlotKinds)
  BY DEF IInv, TypeOK, LuaType

\* A call of gCalculate pushes one slot and the end of its read-back pops it; a
\* round in between leaves the height alone, or sets gERROR.
LEMMA NextRound == IInv /\ RoundInv /\ [Next]_vars => RoundInv'
  <1> SUFFICES ASSUME IInv, RoundInv, [Next]_vars PROVE RoundInv'
    OBVIOUS
  <1> USE DEF IInv, TypeOK, WorldType, LuaType, FlagsType, SeenType, StateInv, RoundInv, StackSteady,
              OutputsFresh, Running
  <1>1. ASSUME NEW how, Dies(how), proc = "up" PROVE RoundInv'
    BY <1>1 DEF Dies
  <1>2. CASE StartInName \/ StartOutName
    BY <1>1, <1>2 DEF StartInName, StartOutName
  <1>3. CASE StartOpen
    BY <1>3 DEF StartOpen, StartEnds
  <1>4. CASE StartCall
    BY <1>1, <1>4 DEF StartCall, CallDies, StartEnds
  <1>5. CASE StartBack \/ StopBack
    BY <1>1, <1>5 DEF StartBack, StopBack, LookupDies
  <1>6. CASE StartBackEnd \/ StopBackEnd \/ StopClose
    BY <1>6 DEF StartBackEnd, StopBackEnd, StopClose, StartEnds
  <1>7. CASE CalcRefuse
    BY <1>7 DEF CalcRefuse, Refused, Returns
  <1>8. CASE CalcCall /\ ~CallDies("gCalculate")
    <2>1. PICK result \in Results \cup {"nil"} :
            /\ stk' = Append(stk, result)
            /\ IF result = "tbl"
               THEN pc' = "calcBack" /\ i' = 1 /\ UNCHANGED <<high, gERROR, erredNow>>
               ELSE gERROR' = 1 /\ Returns(1)
      BY <1>8 DEF CalcCall
    <2>2. Len(stk') = Len(stk) + 1
      <3>1. result \in SlotKinds
        BY DEF Results, SlotKinds, Kinds
      <3> QED BY <2>1, <3>1, StackType, PushTop
    <2>3. /\ pc = "calc" /\ gERROR = 0 /\ written' = {}
          /\ UNCHANGED <<sim, counts, gCSimStartOverride, startLen>>
      BY <1>8 DEF CalcCall, Refused
    <2>4. 1 .. 1 - 1 = {}
      OBVIOUS
    <2> QED BY <2>1, <2>2, <2>3, <2>4 DEF Returns
  <1>9. CASE CalcBack /\ ~LookupDies
    <2>1. /\ pc = "calcBack" /\ pc' = "calcBack" /\ i < gNumOutputs /\ i' = i + 1
          /\ written' = written \cup {i}
          /\ UNCHANGED <<sim, counts, gCSimStartOverride, startLen>>
          /\ (gERROR' = gERROR /\ stk' = stk) \/ gERROR' = 1
      BY <1>9 DEF CalcBack, MorePins, AfterElement
    <2>2. (1 .. i - 1) \cup {i} = 1 .. (i + 1) - 1
      BY <2>1
    <2> QED BY <2>1, <2>2
  <1>10. CASE CalcBackEnd
    <2>1. /\ pc = "calcBack" /\ pc' = "host" /\ ~(i < gNumOutputs)
          /\ stk' = Front(stk)
          /\ UNCHANGED <<sim, counts, gCSimStartOverride, gERROR, written, startLen>>
      BY <1>10 DEF CalcBackEnd, MorePins, DropTable, Returns
    <2>2. 1 .. i - 1 = 1 .. gNumOutputs - 1
      BY <2>1
    <2>3. gERROR = 0 => Len(stk') = startLen
      <3> SUFFICES ASSUME gERROR = 0 PROVE Len(stk') = startLen
        OBVIOUS
      <3>1. Len(stk) = startLen + 1 /\ stk # <<>>
        BY <2>1
      <3> QED BY <2>1, <3>1, PopLen, StackType
    <2> QED BY <2>1, <2>2, <2>3
  <1>11. CASE Restart \/ EditScript \/ CSimStart
    <2>1. CASE Restart
      BY <2>1 DEF Restart
    <2>2. CASE EditScript
      BY <2>2 DEF EditScript
    <2>3. CASE CSimStart
      BY <2>3 DEF CSimStart
    <2> QED BY <1>11, <2>1, <2>2, <2>3
  <1>12. ASSUME NEW channel \in 0 .. UcharSize - 1,
                GetInputName(channel) \/ GetOutputName(channel)
         PROVE  RoundInv'
    BY <1>1, <1>12 DEF GetInputName, GetOutputName
  <1>13. CASE CSimStop
    BY <1>1, <1>13 DEF CSimStop, CallDies
  <1>14. ASSUME NEW on \in 0 .. 1, CCalculateEx(on) PROVE RoundInv'
    BY <1>14 DEF CCalculateEx
  <1>15. CASE UNCHANGED vars
    BY <1>15 DEF vars
  <1>16. CASE CalcCall
    BY <1>1, <1>8, <1>16 DEF CallDies, CalcCall
  <1>17. CASE CNumInputsEx \/ CNumOutputsEx
    BY <1>17 DEF CNumInputsEx, CNumOutputsEx
  <1>18. CASE CalcBack
    BY <1>1, <1>9, <1>18 DEF LookupDies, CalcBack
  <1>19. CASE Step
    BY <1>2, <1>3, <1>4, <1>5, <1>6, <1>7, <1>10, <1>16, <1>18, <1>19 DEF Step
  <1>20. CASE Host
    BY <1>11, <1>12, <1>13, <1>14, <1>17, <1>20 DEF Host
  <1> QED BY <1>15, <1>19, <1>20 DEF Next

\* Without error a call gives back every slot it took from the Lua stack: a
\* simulation does not run out of it however long it runs.
THEOREM StackGivenBack == Spec => []StackSteady
  <1>1. Init => RoundInv
    BY DEF Init, RoundInv, StackSteady, OutputsFresh, Running
  <1>2. RoundInv => StackSteady
    BY DEF RoundInv
  <1> QED BY <1>1, <1>2, InitIInv, NextIInv, NextRound, PTL DEF Spec

\* A call that ends without error has stored a result for every output pin.
THEOREM OutputsStored == Spec => []OutputsFresh
  <1>1. Init => RoundInv
    BY DEF Init, RoundInv, StackSteady, OutputsFresh, Running
  <1>2. RoundInv => OutputsFresh
    BY DEF RoundInv
  <1> QED BY <1>1, <1>2, InitIInv, NextIInv, NextRound, PTL DEF Spec

-----------------------------------------------------------------------------
\* A round of CSimStop's loop saves the number a good script left in the slot.
LEMMA SaveRound ==
  ASSUME IInv, UserInv, StopBack, ~LookupDies, L.good
  PROVE  /\ stk' = stk /\ i' = i + 1 /\ i < NPUser
         /\ puser' = [n \in 0 .. NPUser - 1 |-> IF n < i + 1 THEN "saved" ELSE "kept"]
  <1>1. At("puserBack") /\ i < NPUser /\ stk # <<>> /\ Last(stk) = "tbl"
    BY DEF StopBack, MoreSlots, UserInv
  <1>2. PICK element \in Elements({"num"}) :
          /\ stk' = AfterElement(Accepted(element, FALSE))
          /\ puser' = [puser EXCEPT ![i] =
                         IF Accepted(element, FALSE) THEN "saved" ELSE "zeroed"]
          /\ i' = i + 1
    BY DEF StopBack
  <1>3. element = "num"
    BY <1>1, <1>2 DEF Elements
  <1>4. Accepted(element, FALSE)
    BY <1>3 DEF Accepted
  <1>5. puser' = [puser EXCEPT ![i] = "saved"] /\ stk' = stk
    BY <1>2, <1>4 DEF AfterElement
  <1>6. i \in 0 .. NPUser - 1
    BY <1>1, NPUserAssumption DEF IInv, TypeOK, WorldType
  <1>7. puser = [n \in 0 .. NPUser - 1 |-> IF n < i THEN "saved" ELSE "kept"]
    BY <1>1 DEF UserInv
  <1>8. puser' = [n \in 0 .. NPUser - 1 |-> IF n < i + 1 THEN "saved" ELSE "kept"]
    <2>1. i \in Nat /\ NPUser \in Nat
      BY NPUserAssumption DEF IInv, TypeOK, WorldType
    <2>2. \A n \in 0 .. NPUser - 1 : puser'[n] = IF n < i + 1 THEN "saved" ELSE "kept"
      BY <1>5, <1>6, <1>7, <2>1
    <2>3. puser' = [n \in 0 .. NPUser - 1 |-> puser'[n]]
      BY <1>5, <1>7
    <2> QED BY <2>2, <2>3
  <1> QED BY <1>1, <1>2, <1>5, <1>8

\* Where the calls of gSimStart and gCalculate go on.
LEMMA CallPlaces ==
  /\ StartCall => proc = "up" /\ (Dies("panic") \/ pc' \in {"startBack", "calc"})
  /\ CalcCall => /\ proc = "up"
                 /\ Dies("panic") \/ pc' = "calcBack" \/ (pc' = "host" /\ sim' = sim)
                 /\ pc = "calc"
  <1>1. StartCall => proc = "up" /\ (Dies("panic") \/ pc' \in {"startBack", "calc"})
    BY DEF StartCall, CallDies, StartEnds
  <1>2. ASSUME CalcCall
        PROVE  /\ proc = "up" /\ pc = "calc"
               /\ Dies("panic") \/ pc' = "calcBack" \/ (pc' = "host" /\ sim' = sim)
    BY <1>2 DEF CalcCall, CallDies, Returns
  <1> QED BY <1>1, <1>2

\* CSimStop starts with every slot kept and goes on while slots are left.
LEMMA NextUser == IInv /\ UserInv /\ [Next]_vars => UserInv'
  <1> SUFFICES ASSUME IInv, UserInv, [Next]_vars PROVE UserInv'
    OBVIOUS
  <1> USE DEF IInv, TypeOK, WorldType, LuaType, FlagsType, SeenType, StateInv, UserInv,
              PUserAllOrNothing, Saved
  <1>1. ASSUME NEW how, Dies(how), proc = "up" PROVE UserInv'
    BY <1>1 DEF Dies
  <1>2. CASE StartInName \/ StartOutName
    BY <1>1, <1>2 DEF StartInName, StartOutName
  <1>3. CASE StartOpen
    BY <1>3 DEF StartOpen, StartEnds
  <1>4. CASE StartCall
    BY <1>1, <1>4, CallPlaces
  <1>5. CASE StartBack
    BY <1>1, <1>5 DEF StartBack, LookupDies
  <1>6. CASE StartBackEnd
    BY <1>6 DEF StartBackEnd, StartEnds
  <1>7. CASE CalcRefuse
    BY <1>7 DEF CalcRefuse, Returns
  <1>8. CASE CalcCall
    BY <1>1, <1>8, CallPlaces
  <1>9. CASE CalcBack
    BY <1>1, <1>9 DEF CalcBack, LookupDies
  <1>10. CASE CalcBackEnd
    BY <1>10 DEF CalcBackEnd, Returns
  <1>11. CASE StopBack
    <2>1. CASE LookupDies
      BY <1>1, <1>11, <2>1 DEF StopBack, LookupDies
    <2>2. CASE ~LookupDies
      <3>1. pc = "puserBack" /\ pc' = "puserBack" /\ L' = L /\ proc' = proc
        BY <1>11, <2>2 DEF StopBack
      <3>2. L.good => /\ stk' = stk /\ i' = i + 1 /\ i < NPUser
                      /\ puser' = [n \in 0 .. NPUser - 1 |->
                                     IF n < i + 1 THEN "saved" ELSE "kept"]
        BY <1>11, <2>2, SaveRound
      <3> QED BY <3>1, <3>2, NPUserAssumption
    <2> QED BY <2>1, <2>2
  <1>12. CASE StopBackEnd
    <2>1. /\ pc = "puserBack" /\ pc' = "close" /\ ~(i < NPUser)
          /\ UNCHANGED <<L, puser, proc>>
      BY <1>12 DEF StopBackEnd, MoreSlots
    <2>2. L.good => puser = Saved
      <3> SUFFICES ASSUME L.good PROVE puser = Saved
        OBVIOUS
      <3>1. i = NPUser
        BY <2>1, NPUserAssumption
      <3>2. puser = [n \in 0 .. NPUser - 1 |-> IF n < NPUser THEN "saved" ELSE "kept"]
        BY <2>1, <3>1
      <3> QED BY <3>2, NPUserAssumption
    <2> QED BY <2>1, <2>2
  <1>13. CASE StopClose
    <2>1. /\ pc = "close" /\ pc' = "host" /\ puser' = puser
          /\ ranGood' = IF L # NULL /\ L.good THEN 1 ELSE 0
      BY <1>13 DEF StopClose
    <2> QED BY <2>1
  <1>14. CASE Restart \/ EditScript \/ CSimStart
    BY <1>14 DEF Restart, EditScript, CSimStart
  <1>15. CASE CNumInputsEx \/ CNumOutputsEx
    BY <1>15 DEF CNumInputsEx, CNumOutputsEx
  <1>16. ASSUME NEW channel \in 0 .. UcharSize - 1,
                GetInputName(channel) \/ GetOutputName(channel)
         PROVE  UserInv'
    BY <1>1, <1>16 DEF GetInputName, GetOutputName
  <1>17. CASE CSimStop
    <2>1. CASE \E how \in {"nullptr", "panic"} : Dies(how)
      BY <1>1, <1>17, <2>1 DEF CSimStop
    <2>2. CASE ~\E how \in {"nullptr", "panic"} : Dies(how)
      <3>1. puser' = Kept /\ L' = L
        BY <1>17, <2>2 DEF CSimStop, CallDies
      <3>2. CASE pc' = "close"
        BY <3>1, <3>2
      <3>3. CASE pc' = "puserBack"
        <4>1. PICK left, gPUser : stk' = Append(left, gPUser) /\ gPUser = "tbl"
                                  /\ left \in Seq(SlotKinds) /\ i' = 0
          <5>1. Append(stk, "nil") \in Seq(SlotKinds)
            BY PushResult DEF Results
          <5>2. pc' # "close"
            BY <3>3
          <5>3. PICK gPUser \in Results :
                  /\ stk' = Append(IF "gSimStop" \in L.has THEN stk ELSE Append(stk, "nil"),
                                   gPUser)
                  /\ pc' = IF gPUser = "tbl" THEN "puserBack" ELSE "close"
                  /\ i' = 0
            BY <1>17, <2>2, <5>2 DEF CSimStop, CallDies
          <5> QED BY <5>1, <5>2, <5>3
        <4>2. stk' # <<>> /\ Last(stk') = "tbl"
          BY <4>1, PushTop DEF SlotKinds, Kinds
        <4>3. Kept = [n \in 0 .. NPUser - 1 |-> IF n < 0 THEN "saved" ELSE "kept"]
          BY DEF Kept
        <4> QED BY <3>1, <3>3, <4>1, <4>2, <4>3, NPUserAssumption
      <3>4. pc' \in {"close", "puserBack"}
        BY <1>17, <2>2 DEF CSimStop, CallDies
      <3> QED BY <3>2, <3>3, <3>4
    <2> QED BY <2>1, <2>2
  <1>18. ASSUME NEW on \in 0 .. 1, CCalculateEx(on) PROVE UserInv'
    BY <1>18 DEF CCalculateEx
  <1>19. CASE UNCHANGED vars
    BY <1>19 DEF vars
  <1>20. CASE Step
    BY <1>2, <1>3, <1>4, <1>5, <1>6, <1>7, <1>8, <1>9, <1>10, <1>11, <1>12, <1>13, <1>20
    DEF Step
  <1>21. CASE Host
    BY <1>14, <1>15, <1>16, <1>17, <1>18, <1>21 DEF Host
  <1> QED BY <1>19, <1>20, <1>21 DEF Next

\* A good script gets all its user parameters saved, or, stopped in error, none.
THEOREM UserParametersWhole == Spec => []PUserAllOrNothing
  <1>1. Init => UserInv
    BY DEF Init, UserInv, PUserAllOrNothing
  <1>2. UserInv => PUserAllOrNothing
    BY DEF UserInv
  <1> QED BY <1>1, <1>2, InitIInv, NextIInv, NextUser, PTL DEF Spec

-----------------------------------------------------------------------------
\* Every element a conforming script returns is of the kind the pin's mark asks for,
\* and the loop looks it up in a table.
LEMMA ConformingReads ==
  ASSUME IInv, MarkInv, ConformInv, Conforming, pc \in {"startBack", "calcBack"},
         i < gNumOutputs
  PROVE  /\ ~LookupDies
         /\ \A element \in Elements(Promised(L, i)), isMarked \in MarkerReads(i) :
              /\ Accepted(element, isMarked)
              /\ isMarked \/ Accepted(element, FALSE)
  <1>1. /\ Last(stk) = "tbl" /\ i \in 1 .. gNumOutputs - 1 /\ L.good
        /\ L.nOut # NULL /\ gNumOutputs - 1 <= L.nOut
        /\ gOutStrMarker = DollarOutputs(L) \cap 1 .. gNumOutputs - 1
        /\ L \in Scripts
    BY UcharAssumption DEF Conforming, Conforms, ConformInv, MarkInv, MarkersMatch, IInv, TypeOK,
       WorldType, LuaType, StateInv
  <1>2. i <= L.nOut
    BY <1>1, ScriptFields, NullAssumption, UcharAssumption DEF IInv, TypeOK, LuaType
  <1>3. ~(i > L.nOut)
    BY <1>1, <1>2, ScriptFields
  <1>4. Promised(L, i) = IF i \in DollarOutputs(L) THEN {"str", "num"} ELSE {"num"}
    BY <1>1, <1>3 DEF Promised
  <1>5. Elements(Promised(L, i)) = Promised(L, i)
    BY <1>1 DEF Elements
  <1>6. MarkerReads(i) = {i \in DollarOutputs(L)}
    <2>1. gNumOutputs <= NMarkers /\ gNumOutputs \in Nat
      BY UcharAssumption DEF Conforming, Conforms, IInv, TypeOK, LuaType
    <2>2. i < NMarkers
      BY <1>1, <2>1, NMarkersAssumption
    <2>3. i \in gOutStrMarker <=> i \in DollarOutputs(L)
      BY <1>1
    <2> QED BY <2>2, <2>3 DEF MarkerReads
  <1>7. ~LookupDies
    BY <1>1 DEF LookupDies
  <1> QED BY <1>4, <1>5, <1>6, <1>7 DEF Accepted

\* What no step of the process but Restart, CSimStop and the start of a simulation
\* changes for a script that runs: its state, its counts and whether its start was
\* disturbed.
LEMMA ConformingStays ==
  ASSUME IInv, ClosedInv, [Next]_vars, Conforming'
  PROVE  (Conforming /\ UNCHANGED <<L, counts, disturbed>>) \/ StartOpen
  <1> USE DEF IInv, TypeOK, WorldType, StateInv, ClosedInv
  <1>1. L' # NULL /\ disturbed' = 0
    BY DEF Conforming
  <1>2. StartOpen \/ UNCHANGED <<L, counts, disturbed>>
    <2>1. CASE StartInName
      BY <1>1, <2>1 DEF StartInName, MarkInput, Dies
    <2>2. CASE StartOutName
      BY <1>1, <2>2 DEF StartOutName, MarkOutput, Dies
    <2>3. CASE StartCall \/ CalcRefuse \/ CalcCall
      BY <2>3 DEF StartCall, CalcRefuse, CalcCall, CallDies, Dies
    <2>4. CASE StartBack \/ CalcBack \/ StopBack
      BY <2>4 DEF StartBack, CalcBack, StopBack, LookupDies, Dies
    <2>5. CASE StartBackEnd \/ CalcBackEnd \/ StopBackEnd
      BY <2>5 DEF StartBackEnd, CalcBackEnd, StopBackEnd
    <2>6. CASE StopClose \/ Restart
      BY <1>1, <2>6 DEF StopClose, Restart
    <2>7. CASE EditScript \/ CSimStart
      BY <1>1, <2>7 DEF EditScript, CSimStart
    <2>8. CASE CNumInputsEx \/ CNumOutputsEx
      BY <1>1, <2>8 DEF CNumInputsEx, CNumOutputsEx
    <2>9. ASSUME NEW channel \in 0 .. UcharSize - 1,
                 GetInputName(channel) \/ GetOutputName(channel)
          PROVE  UNCHANGED <<L, counts, disturbed>>
      BY <1>1, <2>9 DEF GetInputName, GetOutputName, MarkInput, MarkOutput, Dies
    <2>10. CASE CSimStop
      BY <2>10 DEF CSimStop, CallDies, Dies
    <2>11. ASSUME NEW on \in 0 .. 1, CCalculateEx(on)
           PROVE  UNCHANGED <<L, counts, disturbed>>
      BY <1>1, <2>11 DEF CCalculateEx
    <2>12. CASE UNCHANGED vars
      BY <2>12 DEF vars
    <2>13. CASE Step
      BY <2>1, <2>2, <2>3, <2>4, <2>5, <2>6, <2>13 DEF Step
    <2>14. CASE Host
      BY <2>6, <2>7, <2>8, <2>9, <2>10, <2>11, <2>14 DEF Host
    <2> QED BY <2>12, <2>13, <2>14 DEF Next
  <1>3. UNCHANGED <<L, counts, disturbed>> => Conforming
    BY DEF Conforming, Conforms
  <1> QED BY <1>2, <1>3

\* No step takes a conforming script to a fault.
LEMMA NextConform ==
  IInv /\ ClosedInv /\ MarkInv /\ UserInv /\ ConformInv /\ [Next]_vars => ConformInv'
  <1> SUFFICES ASSUME IInv, ClosedInv, MarkInv, UserInv, ConformInv, [Next]_vars
               PROVE  ConformInv'
    OBVIOUS
  <1> DEFINE Rounds == pc = "startBack" => i >= 1
             Table  == pc \in {"startBack", "calcBack"} => stk # <<>> /\ Last(stk) = "tbl"
             Clear  == /\ pc \in {"calc", "calcBack"} => gERROR = 0
                       /\ Running => gERROR = 0
             Goal   == Table /\ Clear /\ proc = "up"
  <1>1. (Conforming => Goal) /\ Rounds
    BY DEF ConformInv, Conforming
  <1>2. SUFFICES (Conforming' => Goal') /\ Rounds'
    BY DEF ConformInv, Conforming
  <1> USE DEF IInv, TypeOK, WorldType, LuaType, FlagsType, StateInv
  <1>3. Rounds'
    <2>1. CASE StartCall
      BY <2>1 DEF StartCall, CallDies, StartEnds, Dies
    <2>2. CASE StartBack
      <3>1. pc = "startBack" /\ i' \in {i, i + 1}
        BY <2>2 DEF StartBack, LookupDies, Dies
      <3> QED BY <1>1, <3>1
    <2>3. CASE pc' # "startBack" \/ (pc' = pc /\ i' = i)
      BY <1>1, <2>3
    <2>4. CASE StartInName \/ StartOutName \/ StartOpen
      BY <2>3, <2>4 DEF StartInName, StartOutName, StartOpen, StartEnds, Dies
    <2>5. CASE CalcRefuse \/ CalcCall \/ CalcBackEnd \/ StopClose
      BY <2>3, <2>5 DEF CalcRefuse, CalcCall, CalcBackEnd, StopClose, CallDies, Dies, Returns
    <2>6. CASE StartBackEnd \/ CalcBack \/ StopBack \/ StopBackEnd
      BY <2>3, <2>6 DEF StartBackEnd, CalcBack, StopBack, StopBackEnd, LookupDies, Dies, StartEnds
    <2>7. CASE Restart \/ EditScript \/ CNumInputsEx \/ CNumOutputsEx \/ CSimStart
      BY <2>3, <2>7 DEF Restart, EditScript, CNumInputsEx, CNumOutputsEx, CSimStart
    <2>8. ASSUME NEW channel \in 0 .. UcharSize - 1,
                 GetInputName(channel) \/ GetOutputName(channel)
          PROVE  Rounds'
      BY <2>3, <2>8 DEF GetInputName, GetOutputName, Dies
    <2>9. CASE CSimStop
      BY <2>3, <2>9 DEF CSimStop, CallDies, Dies
    <2>10. ASSUME NEW on \in 0 .. 1, CCalculateEx(on) PROVE Rounds'
      BY <2>3, <2>10 DEF CCalculateEx
    <2>11. CASE UNCHANGED vars
      BY <2>3, <2>11 DEF vars
    <2> HIDE DEF Rounds
    <2>12. CASE Step
      BY <2>1, <2>2, <2>4, <2>5, <2>6, <2>12 DEF Step
    <2>13. CASE Host
      BY <2>7, <2>8, <2>9, <2>10, <2>13 DEF Host
    <2> QED BY <2>11, <2>12, <2>13 DEF Next
  <1>4. ASSUME Conforming' PROVE Goal'
    <2>1. (Conforming /\ UNCHANGED <<L, counts, disturbed>>) \/ StartOpen
      BY <1>4, ConformingStays
    <2>2. CASE StartOpen
      <3>1. proc' = "up" /\ pc' = "start"
        BY <1>4, <2>2 DEF Conforming, Conforms, StartOpen
      <3> QED BY <3>1 DEF Running
    <2> SUFFICES ASSUME Conforming, UNCHANGED <<L, counts, disturbed>> PROVE Goal'
      BY <2>1, <2>2
    <2>3. Goal /\ L # NULL /\ L.good /\ ~ArgsFail /\ Results = {"tbl"} /\ proc = "up"
          /\ {"gSimStart", "gCalculate", "gSimStop"} \subseteq L.has
      BY <1>1 DEF Conforming, Conforms, ArgsFail, Results
    <2>4. \A f : ~CallDies(f)
      BY <2>3 DEF CallDies
    <2>6. CASE StartCall
      <3>1. stk' = Append(stk, "tbl") /\ pc' = "startBack" /\ proc' = "up"
        BY <2>3, <2>4, <2>6 DEF StartCall
      <3> QED BY <3>1, StackType, PushTop DEF SlotKinds, Kinds, Running
    <2>7. CASE CalcCall
      <3>1. stk' = Append(stk, "tbl") /\ pc' = "calcBack" /\ proc' = "up" /\ gERROR' = gERROR
            /\ pc = "calc"
        BY <2>3, <2>4, <2>7 DEF CalcCall
      <3> QED BY <2>3, <3>1, StackType, PushTop DEF SlotKinds, Kinds, Running
    <2>8. CASE StartBack
      <3>1. i < gNumOutputs /\ pc = "startBack"
        BY <2>8 DEF StartBack, MorePins
      <3>2. ~LookupDies
            /\ \A element \in Elements(Promised(L, i)), isMarked \in MarkerReads(i) :
                 isMarked \/ Accepted(element, FALSE)
        BY <3>1, ConformingReads
      <3>3. stk' = stk /\ pc' = pc /\ proc' = proc
        BY <2>8, <3>2 DEF StartBack, AfterElement
      <3> QED BY <2>3, <3>1, <3>3 DEF Running
    <2>9. CASE CalcBack
      <3>1. i < gNumOutputs /\ pc = "calcBack"
        BY <2>9 DEF CalcBack, MorePins
      <3>2. ~LookupDies
            /\ \A element \in Elements(Promised(L, i)), isMarked \in MarkerReads(i) :
                 Accepted(element, isMarked)
        BY <3>1, ConformingReads
      <3>3. stk' = stk /\ pc' = pc /\ proc' = proc /\ gERROR' = gERROR
        BY <2>9, <3>2 DEF CalcBack, AfterElement
      <3> QED BY <2>3, <3>1, <3>3 DEF Running
    <2>10. CASE StartBackEnd \/ CalcBackEnd
      BY <2>3, <2>10 DEF StartBackEnd, CalcBackEnd, StartEnds, StartDeclaredGood, Returns, Running
    <2>11. CASE StopBack
      <3>1. pc = "puserBack" /\ Last(stk) = "tbl"
        BY <2>3, <2>11 DEF StopBack, UserInv
      <3>2. ~LookupDies
        BY <3>1 DEF LookupDies
      <3> QED BY <2>3, <2>11, <3>2 DEF StopBack, Running
    <2>12. CASE StopBackEnd \/ StopClose
      BY <2>3, <2>12 DEF StopBackEnd, StopClose, Running
    <2>13. CASE CSimStop
      <3>1. proc' = "up" /\ pc' \in {"close", "puserBack"}
        BY <2>3, <2>4, <2>13 DEF CSimStop
      <3> QED BY <3>1 DEF Running
    <2>14. CASE CalcRefuse
      BY <2>3, <2>14 DEF CalcRefuse, Refused
    <2>15. CASE EditScript \/ Restart \/ CSimStart \/ CNumInputsEx \/ CNumOutputsEx
      BY <2>3, <2>15 DEF EditScript, Restart, CSimStart, CNumInputsEx, CNumOutputsEx, Running,
         ClosedInv
    <2>16. ASSUME NEW on \in 0 .. 1, CCalculateEx(on) PROVE Goal'
      BY <2>3, <2>16 DEF CCalculateEx, ClosedInv, Running
    <2>17. ASSUME NEW channel \in 0 .. UcharSize - 1,
                  GetInputName(channel) \/ GetOutputName(channel)
           PROVE  FALSE
      BY <2>3, <2>17 DEF GetInputName, GetOutputName, ClosedInv
    <2>18. CASE StartInName \/ StartOutName
      BY <2>3, <2>18 DEF StartInName, StartOutName, ClosedInv
    <2>19. CASE UNCHANGED vars
      BY <2>3, <2>19 DEF vars, Running
    <2> HIDE DEF Goal
    <2>20. CASE Step
      BY <2>2, <2>6, <2>7, <2>8, <2>9, <2>10, <2>11, <2>12, <2>14, <2>18, <2>20 DEF Step
    <2>21. CASE Host
      BY <2>13, <2>15, <2>16, <2>17, <2>21 DEF Host
    <2> QED BY <2>19, <2>20, <2>21 DEF Next
  <1> QED BY <1>3, <1>4

\* A name query of a file that conforms neither raises nor writes past an array.
LEMMA NamingReturns ==
  ASSUME IInv, Conforms(file), NEW channel \in Nat
  PROVE  /\ ~InNameRaises /\ ~OutNameRaises
         /\ channel < gNumInputs => ~InNameOverruns(channel)
         /\ channel < gNumOutputs => ~OutNameOverruns(channel)
  <1>1. /\ gNumInputs \in Nat /\ gNumOutputs \in Nat
        /\ gNumInputs <= NMarkers /\ gNumOutputs <= NMarkers /\ file.good
    BY UcharAssumption DEF IInv, TypeOK, LuaType, Conforms
  <1>2. ~InNameRaises /\ ~OutNameRaises
    BY <1>1 DEF InNameRaises, OutNameRaises
  <1>3. /\ channel < gNumInputs => ~InNameOverruns(channel)
        /\ channel < gNumOutputs => ~OutNameOverruns(channel)
    BY <1>1, NMarkersAssumption DEF InNameOverruns, OutNameOverruns
  <1> QED BY <1>2, <1>3

\* Without an open state only the name queries can end the process, or a CSimStop
\* that comes too early.
LEMMA NextNaming == IInv /\ NamingInv /\ [Next]_vars => NamingInv'
  <1> SUFFICES ASSUME IInv, NamingInv, [Next]_vars, L' = NULL, Conforms(file)',
                      proc' \notin {"up", "nullptr"}
               PROVE  FALSE
    BY DEF NamingInv
  <1> USE DEF IInv, TypeOK, WorldType, LuaType, FlagsType, StateInv
  <1>1. proc = "up"
    <2>1. CASE proc # "up"
      <3>1. Restart \/ UNCHANGED vars
        BY <2>1 DEF Next, Step, Host, Restart, EditScript, CNumInputsEx, CNumOutputsEx,
           GetInputName, GetOutputName, CSimStart, CSimStop, CCalculateEx, StartInName,
           StartOutName, StartOpen, StartCall, StartBack, StartBackEnd, CalcRefuse, CalcCall,
           CalcBack, CalcBackEnd, StopBack, StopBackEnd, StopClose
      <3>2. CASE Restart
        BY <3>2 DEF Restart
      <3>3. CASE UNCHANGED vars
        BY <3>3 DEF vars, NamingInv, Conforms
      <3> QED BY <3>1, <3>2, <3>3
    <2> QED BY <2>1
  <1>2. ASSUME NEW how, Dies(how), how # "nullptr" PROVE L = NULL /\ Conforms(file)
    BY <1>2 DEF Dies, Conforms
  <1>3. CASE StartInName
    <2>1. pc = "inNames" /\ proc' # proc
      BY <1>1, <1>3 DEF StartInName
    <2>2. Ends /\ i < gNumInputs /\ (InNameRaises \/ InNameOverruns(i))
      BY <1>3, <2>1 DEF StartInName, Ends
    <2> QED BY <1>2, <2>2, NamingReturns DEF Ends
  <1>4. CASE StartOutName
    <2>1. pc = "outNames" /\ proc' # proc
      BY <1>1, <1>4 DEF StartOutName
    <2>2. Ends /\ i < gNumOutputs /\ (OutNameRaises \/ OutNameOverruns(i))
      BY <1>4, <2>1 DEF StartOutName, Ends
    <2> QED BY <1>2, <2>2, NamingReturns DEF Ends
  <1>5. ASSUME NEW channel \in 0 .. UcharSize - 1, GetInputName(channel) PROVE FALSE
    <2>1. Ends /\ channel < gNumInputs /\ (InNameRaises \/ InNameOverruns(channel))
      BY <1>1, <1>5 DEF GetInputName, Ends
    <2>2. channel \in Nat
      BY UcharAssumption
    <2> QED BY <1>2, <2>1, <2>2, NamingReturns DEF Ends
  <1>6. ASSUME NEW channel \in 0 .. UcharSize - 1, GetOutputName(channel) PROVE FALSE
    <2>1. Ends /\ channel < gNumOutputs /\ (OutNameRaises \/ OutNameOverruns(channel))
      BY <1>1, <1>6 DEF GetOutputName, Ends
    <2>2. channel \in Nat
      BY UcharAssumption
    <2> QED BY <1>2, <2>1, <2>2, NamingReturns DEF Ends
  <1>7. CASE StartCall \/ CalcCall \/ CSimStop
    <2>1. L # NULL \/ CSimStop
      BY <1>7 DEF StartCall, CalcCall, Refused
    <2>2. (\E how : Dies(how) /\ how # "nullptr") => L = NULL
      BY <1>2
    <2>3. CASE StartCall
      BY <1>1, <2>1, <2>2, <2>3 DEF StartCall, CallDies, CSimStop
    <2>4. CASE CalcCall
      BY <1>1, <2>1, <2>2, <2>4 DEF CalcCall, CallDies, CSimStop
    <2>5. CASE CSimStop
      <3>1. (gERROR = 0 /\ L = NULL /\ Dies("nullptr")) \/ (L # NULL /\ Dies("panic"))
        BY <1>1, <2>5 DEF CSimStop, CallDies
      <3> QED BY <2>2, <3>1 DEF Dies
    <2> QED BY <1>7, <2>3, <2>4, <2>5
  <1>8. CASE StartBack \/ CalcBack \/ StopBack
    BY <1>1, <1>2, <1>8 DEF StartBack, CalcBack, StopBack, LookupDies
  <1>9. CASE StartOpen \/ StartBackEnd \/ CalcRefuse \/ CalcBackEnd \/ StopBackEnd \/ StopClose
    BY <1>1, <1>9 DEF StartOpen, StartBackEnd, CalcRefuse, CalcBackEnd, StopBackEnd, StopClose
  <1>10. CASE Restart \/ EditScript \/ CNumInputsEx \/ CNumOutputsEx \/ CSimStart
    BY <1>1, <1>10 DEF Restart, EditScript, CNumInputsEx, CNumOutputsEx, CSimStart
  <1>11. ASSUME NEW on \in 0 .. 1, CCalculateEx(on) PROVE FALSE
    BY <1>1, <1>11 DEF CCalculateEx
  <1>12. CASE UNCHANGED vars
    BY <1>1, <1>12 DEF vars
  <1> QED BY <1>3, <1>4, <1>5, <1>6, <1>7, <1>8, <1>9, <1>10, <1>11, <1>12 DEF Next, Step, Host

\* A script that keeps its contract, has the pins ProfiLab was told of and fits the
\* marker arrays is never declared faulty and never ends the process, neither asked
\* for its names nor run, whatever was edited, counted, named and run before it.
THEOREM ConformingSafe == Spec => []ConformingRuns
  <1>1. Init => ClosedInv /\ MarkInv /\ UserInv /\ ConformInv /\ NamingInv
    BY DEF Init, ClosedInv, MarkInv, MarkersMatch, UserInv, PUserAllOrNothing, ConformInv,
       NamingInv, Conforming, Running
  <1>2. ConformInv /\ NamingInv => ConformingRuns
    BY DEF ConformInv, NamingInv, ConformingRuns
  <1> QED BY <1>1, <1>2, InitIInv, NextIInv, NextClosed, NextMark, NextUser, NextConform,
             NextNaming, PTL DEF Spec

-----------------------------------------------------------------------------
\* What an error may have left below the base of the Lua stack is not used again:
\* no call of a simulation in error changes the stack but the one that closes it.
THEOREM ErrorFreezes == Spec => ErrorFreezesState
  <1> DEFINE Frozen == sim = "run" /\ gCSimStartOverride = 0 /\ gERROR = 1
                         /\ pc \in {"host", "calc", "close"}
                       => UNCHANGED <<L, stk>> \/ L' = NULL
  <1>1. IInv /\ [Next]_vars => [Frozen]_vars
    <2> SUFFICES ASSUME IInv, Next, sim = "run", gCSimStartOverride = 0, gERROR = 1,
                        pc \in {"host", "calc", "close"}
                 PROVE  UNCHANGED <<L, stk>> \/ L' = NULL
      BY DEF vars
    <2>1. CASE CalcRefuse \/ StopClose
      BY <2>1 DEF CalcRefuse, StopClose
    <2>2. CASE CSimStop
      BY <2>2 DEF CSimStop
    <2>3. CASE Restart \/ EditScript
      BY <2>3 DEF Restart, EditScript
    <2>4. ASSUME NEW on \in 0 .. 1, CCalculateEx(on) PROVE UNCHANGED <<L, stk>>
      BY <2>4 DEF CCalculateEx
    <2>5. ~CalcCall
      BY DEF CalcCall, Refused
    <2>6. ~(StartInName \/ StartOutName \/ StartOpen \/ StartCall \/ StartBack \/ StartBackEnd)
      BY DEF StartInName, StartOutName, StartOpen, StartCall, StartBack, StartBackEnd
    <2>7. ~(CalcBack \/ CalcBackEnd \/ StopBack \/ StopBackEnd)
      BY DEF CalcBack, CalcBackEnd, StopBack, StopBackEnd
    <2>8. ~(CNumInputsEx \/ CNumOutputsEx \/ CSimStart)
          /\ \A channel \in 0 .. UcharSize - 1 :
               ~(GetInputName(channel) \/ GetOutputName(channel))
      BY DEF CNumInputsEx, CNumOutputsEx, CSimStart, GetInputName, GetOutputName
    <2> QED BY <2>1, <2>2, <2>3, <2>4, <2>5, <2>6, <2>7, <2>8 DEF Next, Step, Host
  <1> QED BY <1>1, InitIInv, NextIInv, PTL DEF Spec, ErrorFreezesState
=============================================================================
