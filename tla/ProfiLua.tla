------------------------------ MODULE ProfiLua ------------------------------
(***************************************************************************)
(* The host adapter of ProfiLua (src/src/profilua.c, the console switch of *)
(* src/src/proficonsole.c): the functions ProfiLab Expert calls in its DLL,*)
(* the lua_State they share, and the C stack discipline they keep on it.   *)
(*                                                                         *)
(* ProfiLab is sequential: it makes one call at a time.  A call is cut into *)
(* steps at every call into Lua and at every round of a loop; "pc" is where *)
(* the call stands, "host" between two calls.                               *)
(***************************************************************************)
EXTENDS Integers, Sequences, SequencesExt, FiniteSets

CONSTANTS
  Scripts,    \* the Lua files the user may save, see ScriptType
  UcharSize,  \* number of values of an unsigned char (256)
  NPUser,     \* number of PUser slots saved by CSimStop (100)
  NMarkers,   \* entries of gInStrMarker and of gOutStrMarker (100)
  NULL        \* no lua_State, a nil global, an unset count

\* What lua_type tells of a stack slot, as far as the adapter asks.  A numeric
\* string passes lua_isnumber and lua_isstring alike: it counts as "num".
Kinds == {"nil", "num", "str", "tbl"}

\* Slots under the first one a C function owns: the function entry of the base
\* CallInfo (nil), and the memory in front of the stack array.
SlotKinds == Kinds \cup {"wild"}

Functions5 == {"gInputName", "gOutputName", "gSimStart", "gCalculate", "gSimStop"}

Pins == 1 .. UcharSize - 1

\* The pins the marker arrays have an entry for.
Markable == Pins \cap 0 .. NMarkers - 1

(***************************************************************************)
(* A script, as the adapter sees it: the values its chunk leaves on the    *)
(* stack (a syntax or runtime error leaves its message: <<"str">>), the    *)
(* counts it declares, the functions it defines, the pins whose name       *)
(* starts with '$', and whether it keeps the contract: "good" functions    *)
(* never raise, whatever they are passed, return tables with an element of *)
(* the right kind for each declared output, and leave numbers in gPUser.   *)
(***************************************************************************)
ScriptType ==
  [leaves : Seq(Kinds), nIn : Nat \cup {NULL}, nOut : Nat \cup {NULL},
   has : SUBSET Functions5, inStr : SUBSET Pins, outStr : SUBSET Pins,
   good : BOOLEAN]

ASSUME ScriptsAssumption == Scripts \subseteq ScriptType
ASSUME UcharAssumption   == UcharSize \in Nat \ {0}
ASSUME NPUserAssumption  == NPUser \in Nat
ASSUME NMarkersAssumption == NMarkers \in Nat
ASSUME NullAssumption    == NULL \notin Scripts /\ NULL \notin Nat

VARIABLES
  \* the world
  proc,       \* "up", or how the ProfiLab process died
  pc,         \* where the current call stands
  i,          \* the loop variable of the call
  sim,        \* ProfiLab's mode
  file,       \* the script on disk
  high,       \* PInput[0] of the call is above LOGIC_HIGH_THRES
  con,        \* number of consoles attached (AllocConsole minus FreeConsole)
  \* the globals of profilua.c
  L, gNumInputs, gNumOutputs, gERROR, gConsole, gConsoleTop,
  gInStrMarker, gOutStrMarker,    \* as the sets of marked pins
  gCSimStartOverride,
  stk,        \* the Lua stack of L, as a sequence of SlotKinds
  \* what ProfiLab sees
  errpin,     \* POutput[0] is PL_ERROR
  written,    \* pins whose output the last gCalculate round stored
  puser,      \* per PUser slot: "kept", "saved" or "zeroed" by the last stop
  \* history
  ranGood,    \* the script CSimStop closed last was a good one
  erredNow,   \* gERROR was raised by the CCalculateEx call that returned last
  disturbed,  \* an OpenLuaScript of this simulation returned 0, or the file was
              \* saved between two of those its start makes
  startLen    \* height of the stack when CSimStartFlaw ended

world   == <<proc, pc, i, sim, file, high, con>>
counts  == <<gNumInputs, gNumOutputs>>
markers == <<gInStrMarker, gOutStrMarker>>
console == <<gConsole, gConsoleTop>>
seen    == <<errpin, written, puser>>
history == <<ranGood, erredNow, disturbed, startLen>>
vars    == <<world, L, counts, gERROR, console, markers, gCSimStartOverride,
             stk, seen, history>>

WorldType ==
  /\ proc \in {"up", "panic", "nullptr", "undefined"}
  /\ pc \in {"host", "inNames", "outNames", "start", "startBack", "calc",
             "calcBack", "puserBack", "close"}
  /\ i \in Nat
  /\ sim \in {"edit", "run"}
  /\ file \in Scripts
  /\ high \in 0 .. 1
  /\ con \in Nat

LuaType ==
  /\ L \in Scripts \cup {NULL}
  /\ stk \in Seq(SlotKinds)
  /\ gNumInputs \in 0 .. UcharSize - 1
  /\ gNumOutputs \in 0 .. UcharSize - 1

FlagsType ==
  /\ gERROR \in 0 .. 1
  /\ gConsole \in 0 .. 1
  /\ gConsoleTop \in 0 .. 1
  /\ gInStrMarker \in SUBSET Markable
  /\ gOutStrMarker \in SUBSET Markable
  /\ gCSimStartOverride \in 0 .. 1

SeenType ==
  /\ errpin \in 0 .. 1
  /\ written \in SUBSET Pins
  /\ puser \in [0 .. NPUser - 1 -> {"kept", "saved", "zeroed"}]
  /\ ranGood \in 0 .. 1
  /\ erredNow \in 0 .. 1
  /\ disturbed \in 0 .. 1
  /\ startLen \in Nat

TypeOK == WorldType /\ LuaType /\ FlagsType /\ SeenType

-----------------------------------------------------------------------------
(* The values the C initialisers give, and a process that loads the DLL anew *)

EmptyStack == <<"wild", "nil">>

Kept == [n \in 0 .. NPUser - 1 |-> "kept"]

Init ==
  /\ file \in Scripts
  /\ proc = "up" /\ pc = "host" /\ i = 0 /\ sim = "edit" /\ high = 0
  /\ con = 0 /\ L = NULL /\ stk = <<>>
  /\ gNumInputs = 0 /\ gNumOutputs = 0
  /\ gERROR = 0 /\ gConsole = 0 /\ gConsoleTop = 0
  /\ gInStrMarker = {} /\ gOutStrMarker = {}
  /\ gCSimStartOverride = 0
  /\ errpin = 0 /\ written = {} /\ puser = Kept
  /\ ranGood = 0 /\ erredNow = 0 /\ disturbed = 0 /\ startLen = 0

At(where) == proc = "up" /\ pc = where

Editing == At("host") /\ sim = "edit"

\* The user may start ProfiLab again after it died.
Restart ==
  /\ proc # "up" /\ UNCHANGED file
  /\ proc' = "up" /\ pc' = "host" /\ i' = 0 /\ sim' = "edit" /\ high' = 0
  /\ con' = 0 /\ L' = NULL /\ stk' = <<>>
  /\ gNumInputs' = 0 /\ gNumOutputs' = 0
  /\ gERROR' = 0 /\ gConsole' = 0 /\ gConsoleTop' = 0
  /\ gInStrMarker' = {} /\ gOutStrMarker' = {}
  /\ gCSimStartOverride' = 0
  /\ errpin' = 0 /\ written' = {} /\ puser' = Kept
  /\ ranGood' = 0 /\ erredNow' = 0 /\ disturbed' = 0 /\ startLen' = 0

\* CSimStartFlaw opens the file anew for every pin and once for good.
Reopening == pc \in {"inNames", "outNames"} \/ (pc = "start" /\ i = 0)

\* The user saves another version of the script: between two calls or inside a
\* start.  The other calls read the file once or not at all: to them a version
\* saved meanwhile is one saved after them.
EditScript ==
  /\ proc = "up" /\ (pc = "host" \/ Reopening)
  /\ file' \in Scripts \ {file}
  /\ disturbed' = IF Reopening THEN 1 ELSE disturbed
  /\ UNCHANGED <<proc, pc, i, sim, high, con, L, counts, gERROR, console,
                 markers, gCSimStartOverride, stk, seen, ranGood, erredNow,
                 startLen>>

\* lua_call outside any pcall: an error reaches luaD_throw, which calls the
\* panic function and exit(EXIT_FAILURE).  A NULL or wild L and a write past an
\* array are C's business: nothing is said of what follows.
Dies(how) ==
  /\ proc' = how
  /\ UNCHANGED <<pc, i, sim, file, high, con, L, counts, gERROR, console,
                 markers, gCSimStartOverride, stk, seen, history>>

-----------------------------------------------------------------------------
(* OpenLuaScript, CloseLuaScript and what they are used for in edit mode   *)

\* The stack after OpenLuaScript.  An open state is used again; the results of
\* luaL_loadfile and lua_pcall are not looked at.
Opened == (IF L = NULL THEN EmptyStack ELSE stk) \o file.leaves

\* luaL_newstate may find no memory; an open state needs none.
OpenMayFail == L = NULL

\* PinCount if the count were an int
PinCountNoWrap(declared, old) ==
  IF declared = NULL THEN old ELSE (declared % UcharSize) + 1

\* (uchar)lua_tonumber(L, -1) + 1, assigned to a uchar, unless the global is nil
PinCount(declared, old) ==
  IF declared = NULL THEN old ELSE ((declared % UcharSize) + 1) % UcharSize

CNumInputsEx ==
  /\ Editing
  /\ \/ OpenMayFail /\ gERROR' = 1 /\ UNCHANGED <<gNumInputs, L, stk>>
     \/ /\ gNumInputs' = PinCount(file.nIn, gNumInputs)
        /\ L' = NULL /\ stk' = <<>>
        /\ UNCHANGED gERROR
  /\ UNCHANGED <<world, gNumOutputs, console, markers, gCSimStartOverride,
                 seen, history>>

CNumOutputsEx ==
  /\ Editing
  /\ \/ OpenMayFail /\ gERROR' = 1 /\ UNCHANGED <<gNumOutputs, L, stk>>
     \/ /\ gNumOutputs' = PinCount(file.nOut, gNumOutputs)
        /\ L' = NULL /\ stk' = <<>>
        /\ UNCHANGED gERROR
  /\ UNCHANGED <<world, gNumInputs, console, markers, gCSimStartOverride,
                 seen, history>>

\* The pins GetInputName and GetOutputName mark for this script.
DollarInputs(s)  == IF "gInputName"  \in s.has THEN s.inStr  ELSE {}
DollarOutputs(s) == IF "gOutputName" \in s.has THEN s.outStr ELSE {}

\* A bad script's name function may raise: the call is not protected.
InNameRaises  == "gInputName"  \in file.has /\ ~file.good
OutNameRaises == "gOutputName" \in file.has /\ ~file.good

\* gInStrMarker[Channel] = 1 and its twin ask for no bound.
InNameOverruns(channel)  == channel \in DollarInputs(file)  /\ channel >= NMarkers
OutNameOverruns(channel) == channel \in DollarOutputs(file) /\ channel >= NMarkers

\* The effect of Get...Name(channel) that returns: it ends in CloseLuaScript.
\* Channel 0 is the adapter's own pin and opens nothing.
MarkInput(channel) ==
  IF channel = 0 THEN UNCHANGED <<gInStrMarker, L, stk, disturbed>>
  ELSE \/ /\ OpenMayFail /\ disturbed' = 1
          /\ UNCHANGED <<gInStrMarker, L, stk>>
       \/ /\ ~InNameOverruns(channel)
          /\ gInStrMarker' = gInStrMarker \cup ({channel} \cap DollarInputs(file))
          /\ L' = NULL /\ stk' = <<>>
          /\ UNCHANGED disturbed

MarkOutput(channel) ==
  IF channel = 0 THEN UNCHANGED <<gOutStrMarker, L, stk, disturbed>>
  ELSE \/ /\ OpenMayFail /\ disturbed' = 1
          /\ UNCHANGED <<gOutStrMarker, L, stk>>
       \/ /\ ~OutNameOverruns(channel)
          /\ gOutStrMarker' = gOutStrMarker \cup ({channel} \cap DollarOutputs(file))
          /\ L' = NULL /\ stk' = <<>>
          /\ UNCHANGED disturbed

\* ProfiLab asks for the names of the pins it draws.
GetInputName(channel) ==
  /\ Editing /\ channel < gNumInputs
  /\ \/ channel # 0 /\ InNameRaises /\ Dies("panic")
     \/ InNameOverruns(channel) /\ Dies("undefined")
     \/ /\ MarkInput(channel)
        /\ UNCHANGED <<world, counts, gERROR, console, gOutStrMarker,
                       gCSimStartOverride, seen, ranGood, erredNow, startLen>>

GetOutputName(channel) ==
  /\ Editing /\ channel < gNumOutputs
  /\ \/ channel # 0 /\ OutNameRaises /\ Dies("panic")
     \/ OutNameOverruns(channel) /\ Dies("undefined")
     \/ /\ MarkOutput(channel)
        /\ UNCHANGED <<world, counts, gERROR, console, gInStrMarker,
                       gCSimStartOverride, seen, ranGood, erredNow, startLen>>

-----------------------------------------------------------------------------
(* Reading results back: lua_pushnumber(i), lua_gettable(L, -2) looks into *)
(* whatever the slot at the top is.                                        *)

\* What a good script's result table holds at a pin.
Promised(s, pin) ==
  IF s.nOut = NULL \/ pin > s.nOut THEN {"nil"}
  ELSE IF pin \in DollarOutputs(s) THEN {"str", "num"} ELSE {"num"}

\* A string is indexed through the string metatable: no method has a number for
\* a name.  nil and numbers cannot be indexed.
Elements(promise) ==
  CASE Last(stk) = "tbl" -> IF L.good THEN promise ELSE Kinds
    [] Last(stk) = "str" -> {"nil"}
    [] OTHER             -> {}

LookupDies ==
  \/ Last(stk) \in {"nil", "num"} /\ Dies("panic")
  \/ Last(stk) = "wild" /\ Dies("undefined")

\* Accepted if every pin were read as a number
AcceptedNumbers(element, isMarked) == element = "num"

\* gOutStrMarker[pin]; past the array, whatever the memory there holds.
MarkerReads(pin) ==
  IF pin < NMarkers THEN {pin \in gOutStrMarker} ELSE BOOLEAN

\* lua_isstring accepts numbers, lua_isnumber accepts numeric strings.
Accepted(element, isMarked) ==
  element \in (IF isMarked THEN {"str", "num"} ELSE {"num"})

\* The element is popped; on a bad one a second lua_pop takes the slot below.
AfterElement(accepted) == IF accepted THEN stk ELSE Front(stk)

\* The pins still to be read back, and a loop that ends one pin early
MorePinsShort == i < gNumOutputs - 1
MorePins == i < gNumOutputs

\* The final lua_pop(L, 1) takes the table, and a version that forgets it
DropTableNot == stk' = stk
DropTable == stk' = Front(stk)

\* lua_createtable(L, gNumInputs - 1, 0) with gNumInputs = 0 asks for (size_t)-1
\* slots: the allocation fails outside any pcall.
ArgsFail == gNumInputs = 0

\* Calling global f of the running script raises, or cannot get its arguments.
CallDies(f) == f \in L.has /\ (ArgsFail \/ ~L.good) /\ Dies("panic")

\* What the call leaves in the one slot asked for.
Results == IF L.good THEN {"tbl"} ELSE Kinds

-----------------------------------------------------------------------------
(* CSimStart only leaves a mark; CSimStartFlaw does the work in the first  *)
(* CCalculateEx.                                                           *)

CSimStart ==
  /\ Editing
  /\ sim' = "run" /\ gCSimStartOverride' = 1
  /\ UNCHANGED <<proc, pc, i, file, high, con, L, counts, gERROR, console,
                 markers, stk, seen, history>>

\* for(i=0;i<100;i++): the markers of the version before are taken off, all the
\* arrays hold, or stay.
ClearMarkersNot == UNCHANGED markers
ClearMarkers == gInStrMarker' = {} /\ gOutStrMarker' = {}

\* DebugConsoleOn allocates another console, whether or not there is one.
ConsoleAtStart(on) ==
  /\ con' = IF on = 1 THEN con + 1 ELSE con
  /\ gConsole' = IF on = 1 THEN 1 ELSE gConsole
  /\ gConsoleTop' = IF on = 1 THEN 0 ELSE gConsoleTop

\* In error until proved good; a version that starts as it stopped
ExpectWorstNot == errpin' = 1 /\ UNCHANGED gERROR
ExpectWorst == errpin' = 1 /\ gERROR' = 1

\* ProfiLab calls with PInput[0] high or low.
CCalculateEx(on) ==
  /\ At("host") /\ sim = "run"
  /\ high' = on
  /\ IF gCSimStartOverride = 1
     THEN /\ pc' = "inNames" /\ i' = 0
          /\ ExpectWorst
          /\ ConsoleAtStart(on)
          /\ ClearMarkers
          /\ disturbed' = 0
     ELSE /\ pc' = "calc"
          /\ UNCHANGED <<i, gERROR, errpin, con, console, markers, disturbed>>
  /\ UNCHANGED <<proc, sim, file, L, counts, gCSimStartOverride, stk, written,
                 puser, ranGood, erredNow, startLen>>

StartInName ==
  /\ At("inNames")
  /\ \/ i # 0 /\ i < gNumInputs /\ InNameRaises /\ Dies("panic")
     \/ i < gNumInputs /\ InNameOverruns(i) /\ Dies("undefined")
     \/ /\ IF i < gNumInputs
           THEN MarkInput(i) /\ i' = i + 1 /\ UNCHANGED pc
           ELSE pc' = "outNames" /\ i' = 0
                /\ UNCHANGED <<gInStrMarker, L, stk, disturbed>>
        /\ UNCHANGED <<proc, sim, file, high, con, counts, gERROR, console,
                       gOutStrMarker, gCSimStartOverride, seen, ranGood, erredNow,
                       startLen>>

StartOutName ==
  /\ At("outNames")
  /\ \/ i # 0 /\ i < gNumOutputs /\ OutNameRaises /\ Dies("panic")
     \/ i < gNumOutputs /\ OutNameOverruns(i) /\ Dies("undefined")
     \/ /\ IF i < gNumOutputs
           THEN MarkOutput(i) /\ i' = i + 1 /\ UNCHANGED pc
           ELSE pc' = "start" /\ i' = 0
                /\ UNCHANGED <<gOutStrMarker, L, stk, disturbed>>
        /\ UNCHANGED <<proc, sim, file, high, con, counts, gERROR, console,
                       gInStrMarker, gCSimStartOverride, seen, ranGood, erredNow,
                       startLen>>

\* Back in CCalculateEx: the mark is taken off, the calculation follows.
StartEnds == pc' = "calc" /\ gCSimStartOverride' = 0 /\ startLen' = Len(stk')

\* The same without POutput[0] = PL_OK
StartDeclaredGoodMute == UNCHANGED errpin /\ gERROR' = 0

\* POutput[0] = PL_OK; gERROR = 0, whatever the results were
StartDeclaredGood == errpin' = 0 /\ gERROR' = 0

\* OpenLuaScript for good, gPUser, and the look at gSimStart
StartOpen ==
  /\ At("start") /\ i = 0
  /\ \/ /\ OpenMayFail /\ disturbed' = 1
        /\ UNCHANGED <<i, L, stk>>
        /\ StartEnds
     \/ /\ L' = file
        /\ stk' = IF "gSimStart" \in file.has THEN Opened ELSE Append(Opened, "nil")
        /\ IF "gSimStart" \in file.has
           THEN i' = 1 /\ UNCHANGED <<pc, gCSimStartOverride, startLen>>
           ELSE StartEnds /\ UNCHANGED i
        /\ UNCHANGED disturbed
  /\ UNCHANGED <<proc, sim, file, high, con, counts, gERROR, console, markers,
                 seen, ranGood, erredNow>>

\* lua_call(L, 1, 1) of gSimStart and the lua_istable after it
StartCall ==
  /\ At("start") /\ i = 1
  /\ \/ CallDies("gSimStart")
     \/ /\ ~ArgsFail
        /\ \E result \in Results :
             /\ stk' = Append(stk, result)
             /\ IF result = "tbl"
                THEN pc' = "startBack"
                     /\ UNCHANGED <<gERROR, gCSimStartOverride, errpin, startLen>>
                ELSE StartEnds /\ StartDeclaredGood
        /\ UNCHANGED <<proc, i, sim, file, high, con, L, counts, console,
                       markers, written, puser, ranGood, erredNow, disturbed>>

\* Elements of marked pins are popped unseen.
StartBack ==
  /\ At("startBack") /\ MorePins
  /\ \/ LookupDies
     \/ \E element \in Elements(Promised(L, i)), isMarked \in MarkerReads(i) :
          LET ok == isMarked \/ Accepted(element, FALSE) IN
          /\ stk' = AfterElement(ok)
          /\ gERROR' = IF ok THEN gERROR ELSE 1
          /\ i' = i + 1
          /\ UNCHANGED <<proc, pc, sim, file, high, con, L, counts, console,
                         markers, gCSimStartOverride, seen, history>>

StartBackEnd ==
  /\ At("startBack") /\ ~MorePins
  /\ DropTable
  /\ StartEnds /\ StartDeclaredGood
  /\ UNCHANGED <<proc, i, sim, file, high, con, L, counts, console, markers,
                 written, puser, ranGood, erredNow, disturbed>>

-----------------------------------------------------------------------------
(* The body of CCalculateEx                                                *)

\* SwitchConsole without a look at gConsole
SwitchConsoleAlways ==
  /\ con' = IF high = 1 THEN con + 1 ELSE con
  /\ gConsole' = IF high = 1 THEN 1 ELSE gConsole
  /\ gConsoleTop' = IF high = 1 \/ gConsole = 1 THEN 1 ELSE gConsoleTop

\* An ON pin opens the console once; the window comes to the top once.
SwitchConsole ==
  /\ con' = IF high = 1 /\ gConsole = 0 THEN con + 1 ELSE con
  /\ gConsole' = IF high = 1 THEN 1 ELSE gConsole
  /\ gConsoleTop' = IF high = 1 \/ gConsole = 1 THEN 1 ELSE gConsoleTop

\* CCalculateEx returns and its locals are gone; did this call raise gERROR?
Returns(raised) ==
  pc' = "host" /\ erredNow' = raised /\ i' = 0 /\ high' = 0

\* if( gERROR ), and a test for a state instead
RefusedNoState == gERROR = 1 /\ L = NULL
Refused == gERROR = 1

\* POutput[0] = PL_ERROR, and a return without it
ShowErrorNot == UNCHANGED errpin
ShowError == errpin' = 1

CalcRefuse ==
  /\ At("calc") /\ Refused
  /\ SwitchConsole
  /\ ShowError
  /\ Returns(0)
  /\ UNCHANGED <<proc, sim, file, L, counts, gERROR, markers,
                 gCSimStartOverride, stk, written, puser, ranGood, disturbed,
                 startLen>>

\* The code does not ask whether there is a state: StateWhenNeeded says it may
\* rely on it.
CalcCall ==
  /\ At("calc") /\ ~Refused
  /\ \/ CallDies("gCalculate")
     \/ /\ "gCalculate" \in L.has => ~ArgsFail
        /\ \E result \in IF "gCalculate" \in L.has THEN Results ELSE {"nil"} :
             /\ stk' = Append(stk, result)
             /\ IF result = "tbl"
                THEN pc' = "calcBack" /\ i' = 1 /\ UNCHANGED <<high, gERROR, erredNow>>
                ELSE gERROR' = 1 /\ Returns(1)
        /\ SwitchConsole
        /\ written' = {}
        /\ UNCHANGED <<proc, sim, file, L, counts, markers,
                       gCSimStartOverride, errpin, puser, ranGood, disturbed,
                       startLen>>

CalcBack ==
  /\ At("calcBack") /\ MorePins
  /\ \/ LookupDies
     \/ \E element \in Elements(Promised(L, i)), isMarked \in MarkerReads(i) :
          LET ok == Accepted(element, isMarked) IN
          /\ stk' = AfterElement(ok)
          /\ gERROR' = IF ok THEN gERROR ELSE 1
          /\ written' = written \cup {i}
          /\ i' = i + 1
          /\ UNCHANGED <<proc, pc, sim, file, high, con, L, counts, console,
                         markers, gCSimStartOverride, errpin, puser, history>>

CalcBackEnd ==
  /\ At("calcBack") /\ ~MorePins
  /\ DropTable
  /\ Returns(gERROR)
  /\ UNCHANGED <<proc, sim, file, con, L, counts, gERROR, console,
                 markers, gCSimStartOverride, seen, ranGood, disturbed, startLen>>

-----------------------------------------------------------------------------
(* CSimStop                                                                *)

\* In error there is nothing to say goodbye to; otherwise gSimStop is called and
\* gPUser pushed.  A missing gSimStop is an error but not the end.
CSimStop ==
  /\ At("host") /\ sim = "run"
  /\ \/ /\ gERROR = 1
        /\ pc' = "close" /\ UNCHANGED <<i, gERROR, stk>>
        /\ puser' = Kept
        /\ UNCHANGED <<proc, sim, file, high, con, L, counts, console, markers,
                       gCSimStartOverride, errpin, written, history>>
     \/ gERROR = 0 /\ L = NULL /\ Dies("nullptr")
     \/ gERROR = 0 /\ L # NULL /\ CallDies("gSimStop")
     \/ /\ gERROR = 0 /\ L # NULL
        /\ "gSimStop" \in L.has => ~ArgsFail
        /\ gERROR' = IF "gSimStop" \in L.has THEN 0 ELSE 1
        /\ LET left == IF "gSimStop" \in L.has THEN stk ELSE Append(stk, "nil")
           IN \E gPUser \in Results :
                /\ stk' = Append(left, gPUser)
                /\ pc' = IF gPUser = "tbl" THEN "puserBack" ELSE "close"
        /\ i' = 0
        /\ puser' = Kept
        /\ UNCHANGED <<proc, sim, file, high, con, L, counts, console, markers,
                       gCSimStartOverride, errpin, written, history>>

MoreSlotsShort == i + 1 < NPUser
MoreSlots == i < NPUser

StopBack ==
  /\ At("puserBack") /\ MoreSlots
  /\ \/ LookupDies
     \/ \E element \in Elements({"num"}) :
          LET ok == Accepted(element, FALSE) IN
          /\ stk' = AfterElement(ok)
          /\ puser' = [puser EXCEPT ![i] = IF ok THEN "saved" ELSE "zeroed"]
          /\ i' = i + 1
          /\ UNCHANGED <<proc, pc, sim, file, high, con, L, counts, gERROR,
                         console, markers, gCSimStartOverride, errpin, written,
                         history>>

StopBackEnd ==
  /\ At("puserBack") /\ ~MoreSlots
  /\ DropTable
  /\ pc' = "close"
  /\ UNCHANGED <<proc, i, sim, file, high, con, L, counts, gERROR, console,
                 markers, gCSimStartOverride, seen, history>>

\* CloseLuaScript and DebugConsoleOff; ProfiLab is back in edit mode.
StopClose ==
  /\ At("close")
  /\ pc' = "host" /\ sim' = "edit"
  /\ L' = NULL /\ stk' = <<>>
  /\ ranGood' = IF L # NULL /\ L.good THEN 1 ELSE 0
  /\ i' = 0 /\ written' = {}
  /\ erredNow' = 0 /\ disturbed' = 0 /\ startLen' = 0
  /\ con' = IF gConsole = 1 THEN con - 1 ELSE con
  /\ gConsole' = 0
  /\ gConsoleTop' = IF gConsole = 1 THEN 0 ELSE gConsoleTop
  /\ UNCHANGED <<proc, file, high, counts, gERROR, markers,
                 gCSimStartOverride, errpin, puser>>

-----------------------------------------------------------------------------
\* The steps of a call under way
Step ==
  \/ StartInName \/ StartOutName \/ StartOpen \/ StartCall \/ StartBack
  \/ StartBackEnd \/ CalcRefuse \/ CalcCall \/ CalcBack \/ CalcBackEnd
  \/ StopBack \/ StopBackEnd \/ StopClose

\* ProfiLab and its user between two calls
Host ==
  \/ Restart \/ EditScript \/ CNumInputsEx \/ CNumOutputsEx
  \/ \E channel \in 0 .. UcharSize - 1 :
       GetInputName(channel) \/ GetOutputName(channel)
  \/ CSimStart \/ CSimStop
  \/ \E on \in 0 .. 1 : CCalculateEx(on)

Next == Host \/ Step

Spec == Init /\ [][Next]_vars

\* Inside a call the CPU goes on; a running ProfiLab calculates again and again.
Fairness == WF_vars(Step) /\ WF_vars(\E on \in 0 .. 1 : CCalculateEx(on))

FairSpec == Spec /\ Fairness

-----------------------------------------------------------------------------
(* Properties                                                              *)

\* Between two calls of a simulation whose start has been carried out.
Running == At("host") /\ sim = "run" /\ gCSimStartOverride = 0

\* The calls into Lua need an open state, and no line of CCalculateEx or CSimStop
\* checks for one: gERROR alone has to keep them away from a NULL one.  The only
\* way to fail is a CSimStop that comes before the first CCalculateEx.
StateWhenNeeded ==
  /\ At("calc") /\ gERROR = 0 => L # NULL
  /\ pc \in {"startBack", "calcBack", "puserBack"} => L # NULL
  /\ proc = "nullptr" => gCSimStartOverride = 1

\* A script that keeps the contract, has the number of pins ProfiLab was told and
\* no more of them than the marker arrays have room for is never declared faulty
\* and never takes ProfiLab down, neither while it is asked for its names nor
\* while it runs, whatever versions of the script were edited, counted, named and
\* run before it.  (proc is "nullptr" when CSimStop precedes CCalculateEx.)
Conforms(s) ==
  /\ s.good /\ {"gSimStart", "gCalculate", "gSimStop"} \subseteq s.has
  /\ gNumInputs # 0
  /\ s.nOut # NULL /\ gNumOutputs - 1 <= s.nOut
  /\ gNumInputs <= NMarkers /\ gNumOutputs <= NMarkers

ConformingRuns ==
  /\ L = NULL /\ Conforms(file) => proc \in {"up", "nullptr"}
  /\ L # NULL /\ disturbed = 0 /\ Conforms(L) =>
       /\ proc = "up"
       /\ Running => gERROR = 0

\* A '$' pin is passed and read as a string and any other pin the marker arrays
\* have room for as a number: the markers are those of the script that runs, not
\* those of a version before it.  A start that returns found room for every '$'
\* pin; how the other pins past the arrays are read is not said.
MarkersMatch ==
  L # NULL /\ disturbed = 0 =>
    /\ gInStrMarker  = DollarInputs(L)  \cap 1 .. gNumInputs - 1
    /\ gOutStrMarker = DollarOutputs(L) \cap 1 .. gNumOutputs - 1

\* While no error is set every CCalculateEx gives back what it took from the Lua
\* stack: a simulation may run for ever.
StackSteady == Running /\ gERROR = 0 => Len(stk) = startLen

\* A call that ends without error stored a result of gCalculate for every pin, as
\* a number or as a string.
OutputsFresh ==
  Running /\ gERROR = 0 => written = 1 .. gNumOutputs - 1

\* The ERROR pin follows gERROR one call late, and goes off only with it.
ErrorPinFollows == Running => (errpin = 1 <=> gERROR = 1 /\ erredNow = 0)

\* There is one console when gConsole says so and none otherwise.
ConsoleMatches == proc = "up" => con = gConsole

\* CSimStop hands back all of gPUser, or none of it when it was in error: a good
\* script does not lose a user parameter.
PUserAllOrNothing ==
  At("host") /\ sim = "edit" /\ ranGood = 1 =>
    puser \in {Kept, [n \in 0 .. NPUser - 1 |-> "saved"]}

\* Once a simulation is in error the Lua stack, which a bad element may have left
\* below its base, is not used again before it is closed.
ErrorFreezesState ==
  [][sim = "run" /\ gCSimStartOverride = 0 /\ gERROR = 1
     /\ pc \in {"host", "calc", "close"}
     => UNCHANGED <<L, stk>> \/ L' = NULL]_vars

\* An error is shown on the ERROR pin, or the simulation ends.
ErrorReported ==
  (Running /\ gERROR = 1) ~> (errpin = 1 \/ sim = "edit" \/ proc # "up")

\* profilua.c:181-182: "Reads input names from Lua environment ... If anything
\* goes wrong, input names are set to '!ERROR!'."  No query for names
\* ends the process.
NamesComeBack ==
  proc = "panic" =>
    pc \notin {"inNames", "outNames"} /\ ~(pc = "host" /\ sim = "edit")

\* profilua.c:329, 448, 545: "read back results from table".  Every round of a
\* read-back loop looks into the table at the top of the stack.
ReadsFromTable ==
  \/ At("startBack") /\ i < gNumOutputs
  \/ At("calcBack") /\ i < gNumOutputs
  \/ At("puserBack") /\ i < NPUser
  => Last(stk) = "tbl"

=============================================================================
