------------------------------- MODULE MidiIn -------------------------------
(***************************************************************************)
(* The MIDI input side of src/src/profimidi.c.  Two threads work on the    *)
(* same two lists without a lock: the Lua thread (OpenMidiIn, CloseMidiIn, *)
(* GetMessage) and the multimedia thread of Windows, which calls           *)
(* MidiReceive for each message of a started device.                       *)
(*                                                                         *)
(* A step is what a thread does between two accesses to memory the other   *)
(* one writes.  Pointers are model values of two small heaps; a freed      *)
(* block may be handed out again.                                          *)
(***************************************************************************)
EXTENDS Naturals, Sequences, SequencesExt, FiniteSets

CONSTANTS
  Numbers,   \* device numbers
  Msgs,      \* messages
  Kept,      \* those whose status byte is exactly 0x90, 0x80, 0xB0 or 0xE0
  Voice,     \* those that are a note, control change or pitch bend message
  DevBlocks, \* blocks malloc has for a tMidiInDev
  EvBlocks,  \* blocks malloc has for a tMidiInEvent
  NULL,      \* the null pointer
  NoEvent    \* nil

ASSUME KeptAssumption == Kept \subseteq Voice /\ Voice \subseteq Msgs
ASSUME NullAssumption == NULL \notin DevBlocks \cup EvBlocks \cup Numbers
ASSUME NoEventAssumption == NoEvent \notin Msgs
ASSUME BlocksAssumption == IsFiniteSet(DevBlocks) /\ IsFiniteSet(EvBlocks)

VARIABLES
  pMidiInDevList,  \* the list of open devices
  dev,             \* heap of device blocks: allocated ones are in DOMAIN dev
  ev,              \* heap of event blocks
  started,         \* devices whose messages Windows delivers
  \* the Lua thread
  lpc, ln, ldev, p, pprev,
  got,             \* what plGetEvent returned last
  \* the multimedia thread in MidiReceive
  cpc, cn, cdev, cev,
  \* history
  arrived,         \* per device, events added and not yet returned, oldest first
  ignored,         \* the last message MidiReceive threw away for its status byte
  raced,           \* a write of one thread crossed what the other one had read
  wild             \* a thread touched a block that was free

heap == <<pMidiInDevList, dev, ev>>
lua  == <<lpc, ln, ldev, p, pprev>>
cb   == <<cpc, cn, cdev, cev>>
vars == <<heap, started, lua, got, cb, arrived, ignored, raced, wild>>

DevBlock == [Number : Numbers, list : EvBlocks \cup {NULL}, next : DevBlocks \cup {NULL}]
EvBlock  == [msg : Msgs, next : EvBlocks \cup {NULL}]

TypeOK ==
  /\ pMidiInDevList \in DevBlocks \cup {NULL}
  /\ DOMAIN dev \subseteq DevBlocks /\ \A d \in DOMAIN dev : dev[d] \in DevBlock
  /\ DOMAIN ev \subseteq EvBlocks /\ \A e \in DOMAIN ev : ev[e] \in EvBlock
  /\ started \subseteq Numbers
  /\ lpc \in {"idle", "walk", "unchain", "free", "close", "unlink", "freeDev"}
  /\ ln \in Numbers \cup {NULL}
  /\ ldev \in DevBlocks \cup {NULL}
  /\ p \in EvBlocks \cup {NULL} /\ pprev \in EvBlocks \cup {NULL}
  /\ got \in Msgs \cup {NoEvent}
  /\ cpc \in {"idle", "find", "load", "store"}
  /\ cn \in Numbers \cup {NULL}
  /\ cdev \in DevBlocks \cup {NULL} /\ cev \in EvBlocks \cup {NULL}
  /\ arrived \in [Numbers -> Seq(Msgs)]
  /\ ignored \in Msgs \cup {NoEvent}
  /\ raced \in BOOLEAN /\ wild \in BOOLEAN

Init ==
  /\ pMidiInDevList = NULL /\ dev = <<>> /\ ev = <<>> /\ started = {}
  /\ lpc = "idle" /\ ln = NULL /\ ldev = NULL /\ p = NULL /\ pprev = NULL
  /\ got = NoEvent
  /\ cpc = "idle" /\ cn = NULL /\ cdev = NULL /\ cev = NULL
  /\ arrived = [n \in Numbers |-> <<>>] /\ ignored = NoEvent
  /\ raced = FALSE /\ wild = FALSE

-----------------------------------------------------------------------------
(* Lists in memory                                                         *)

\* Where a list that begins at block b goes on after these blocks of heap h
After(h, b, list) == IF list = <<>> THEN b ELSE h[Last(list)].next

\* The blocks of heap h on the list that begins at block b; it is cut where it
\* comes back to a block or leads to a free one.
ListFrom(h, b) ==
  LET longer[list \in Seq(DOMAIN h)] ==
        LET x == After(h, b, list)
        IN IF x \in DOMAIN h /\ ~Contains(list, x) THEN Append(list, x) ELSE list
      first[k \in 0 .. Cardinality(DOMAIN h)] ==
        IF k = 0 THEN <<>> ELSE longer[first[k - 1]]
  IN first[Cardinality(DOMAIN h)]

\* The pointer that ends it: NULL, unless it was cut.
EndOf(h, b) == After(h, b, ListFrom(h, b))

\* GetMidiInEntry on the Lua thread: only this thread changes the device list.
GetMidiInEntry(n) ==
  LET entry[list \in Seq(DOMAIN dev)] ==
        LET k == SelectInSeq(list, LAMBDA d : dev[d].Number = n)
        IN IF k = 0 THEN NULL ELSE list[k]
  IN entry[ListFrom(dev, pMidiInDevList)]

\* free() and malloc() on a heap
Without(h, blocks) == [b \in DOMAIN h \ blocks |-> h[b]]
With(h, b, content) == [x \in DOMAIN h \cup {b} |-> IF x = b THEN content ELSE h[x]]

\* Where the next access of a thread is to a block that is free.  What follows is
\* undefined.
LuaAstray ==
  \/ lpc = "walk" /\ p \notin DOMAIN ev
  \/ lpc = "freeDev" /\ EndOf(ev, dev[ldev].list) \notin DOMAIN ev \cup {NULL}

CbAstray ==
  \/ cpc = "find" /\ cdev \notin DOMAIN dev \cup {NULL}
  \/ cpc \in {"load", "store"} /\ (cdev \notin DOMAIN dev \/ cev \notin DOMAIN ev)

Strays ==
  /\ ~wild /\ (LuaAstray \/ CbAstray)
  /\ wild' = TRUE
  /\ UNCHANGED <<heap, started, lua, got, cb, arrived, ignored, raced>>

LuaAt(where) == ~wild /\ lpc = where /\ ~LuaAstray
CbAt(where)  == ~wild /\ cpc = where /\ ~CbAstray

-----------------------------------------------------------------------------
(* OpenMidiIn                                                              *)

\* -2: open already.  -3: midiInOpen refuses.  -4: no memory, midiInClose.
\* AddMidiIn publishes the block with one write, midiInStart comes after it.
plOpenMidiIn(n) ==
  /\ LuaAt("idle")
  /\ GetMidiInEntry(n) = NULL
  /\ \E d \in DevBlocks \ DOMAIN dev :
       /\ dev' = With(dev, d, [Number |-> n, list |-> NULL, next |-> pMidiInDevList])
       /\ pMidiInDevList' = d
  /\ started' = started \cup {n}
  /\ UNCHANGED <<ev, lua, got, cb, arrived, ignored, raced, wild>>

-----------------------------------------------------------------------------
(* GetMessage: RemoveMidiInEvent of the device's entry                     *)

\* The device's entry; its number, passed where the entry is meant
BeginNumber(n) == ln' = n /\ ldev' = n
Begin(n) == ln' = n /\ ldev' = GetMidiInEntry(n)

\* A wrong number of arguments, a device that is not open and an empty list all
\* give nil.  Otherwise p is the first event.
plGetEvent(n) ==
  /\ LuaAt("idle")
  /\ LET entry == GetMidiInEntry(n)
         first == IF entry = NULL THEN NULL ELSE dev[entry].list
     IN IF first = NULL
        THEN got' = NoEvent /\ UNCHANGED lua
        ELSE /\ lpc' = "walk" /\ Begin(n)
             /\ p' = first /\ pprev' = NULL
             /\ UNCHANGED got
  /\ UNCHANGED <<heap, started, cb, arrived, ignored, raced, wild>>

\* One round of while( p->next != NULL )
WalkOn == pprev' = p /\ p' = ev[p].next

LuaWalk ==
  /\ LuaAt("walk")
  /\ IF ev[p].next # NULL
     THEN WalkOn /\ UNCHANGED <<lpc, ln, ldev>>
     ELSE lpc' = "unchain" /\ UNCHANGED <<ln, ldev, p, pprev>>
  /\ UNCHANGED <<heap, started, got, cb, arrived, ignored, raced, wild>>

\* Has the other thread pushed an event on this list since p was read as its head,
\* or read the head it will chain its event to?
Crossed ==
  /\ pprev = NULL
  /\ \/ dev[ldev].list # p
     \/ cpc = "store" /\ cdev = ldev

\* p leaves the list and its bytes are copied for the caller.
LuaUnchain ==
  /\ LuaAt("unchain")
  /\ IF pprev = NULL
     THEN dev' = [dev EXCEPT ![ldev].list = NULL] /\ UNCHANGED ev
     ELSE ev' = [ev EXCEPT ![pprev].next = NULL] /\ UNCHANGED dev
  /\ got' = ev[p].msg
  /\ arrived' = [arrived EXCEPT ![ln] = IF @ = <<>> THEN @ ELSE Tail(@)]
  /\ raced' = (raced \/ Crossed)
  /\ lpc' = "free"
  /\ UNCHANGED <<pMidiInDevList, started, ln, ldev, p, pprev, cb, ignored, wild>>

\* The call returns: its locals are gone.
LuaReturns ==
  lpc' = "idle" /\ ln' = NULL /\ ldev' = NULL /\ p' = NULL /\ pprev' = NULL

LuaFree ==
  /\ LuaAt("free")
  /\ ev' = Without(ev, {p})
  /\ LuaReturns
  /\ UNCHANGED <<pMidiInDevList, dev, started, got, cb, arrived, ignored, raced, wild>>

-----------------------------------------------------------------------------
(* CloseMidiIn                                                             *)

\* midiInReset: Windows delivers nothing more for this device; left out.
StopInputNot(n) == UNCHANGED started
StopInput(n) == started' = started \ {n}

plCloseMidiIn(n) ==
  /\ LuaAt("idle")
  /\ GetMidiInEntry(n) # NULL
  /\ StopInput(n)
  /\ lpc' = "close" /\ Begin(n)
  /\ UNCHANGED <<heap, p, pprev, got, cb, arrived, ignored, raced, wild>>

\* midiInClose returns when no MidiReceive of this device is under way.
LuaClosed ==
  /\ LuaAt("close")
  /\ ~(cpc # "idle" /\ cn = ln)
  /\ lpc' = "unlink"
  /\ UNCHANGED <<heap, started, ln, ldev, p, pprev, got, cb, arrived, ignored, raced, wild>>

\* RemoveMidiIn: the entry leaves the list with one write.
LuaUnlink ==
  /\ LuaAt("unlink")
  /\ LET next == dev[ldev].next IN
     IF pMidiInDevList = ldev
     THEN pMidiInDevList' = next /\ UNCHANGED dev
     ELSE /\ dev' = [d \in DOMAIN dev |->
                       IF dev[d].next = ldev THEN [dev[d] EXCEPT !.next = next] ELSE dev[d]]
          /\ UNCHANGED pMidiInDevList
  /\ arrived' = [arrived EXCEPT ![ln] = <<>>]
  /\ lpc' = "freeDev"
  /\ UNCHANGED <<ev, started, ln, ldev, p, pprev, got, cb, ignored, raced, wild>>

\* The events RemoveMidiInEvent frees before the entry is freed; none, without the loop
ClearedEventsNone == {}
ClearedEvents == ToSet(ListFrom(ev, dev[ldev].list))

\* while( RemoveMidiInEvent(tmp,NULL) >= 0 ); free(tmp).  The loop does not end on a
\* list that comes back to itself.
LuaFreeDev ==
  /\ LuaAt("freeDev")
  /\ EndOf(ev, dev[ldev].list) = NULL
  /\ ev' = Without(ev, ClearedEvents)
  /\ dev' = Without(dev, {ldev})
  /\ raced' = (raced \/ (cpc = "find" /\ cdev = ldev))
  /\ LuaReturns
  /\ UNCHANGED <<pMidiInDevList, started, got, cb, arrived, ignored, wild>>

-----------------------------------------------------------------------------
(* MidiReceive, on the thread of Windows                                   *)

\* if( cval[0] == NOTEON || ... ) and the malloc; no memory, no event.
MidiReceive(n, m) ==
  /\ CbAt("idle") /\ n \in started
  /\ \/ /\ m \notin Kept
        /\ ignored' = m
        /\ UNCHANGED <<ev, cb>>
     \/ /\ m \in Kept
        /\ \E e \in EvBlocks \ DOMAIN ev :
             /\ ev' = With(ev, e, [msg |-> m, next |-> NULL])
             /\ cev' = e
        /\ cpc' = "find" /\ cn' = n /\ cdev' = pMidiInDevList
        /\ UNCHANGED ignored
  /\ UNCHANGED <<pMidiInDevList, dev, started, lua, got, arrived, raced, wild>>

CbReturns == cpc' = "idle" /\ cn' = NULL /\ cdev' = NULL /\ cev' = NULL

\* One round of GetMidiInEntry.  Without an entry AddMidiInEvent does nothing.
CbFind ==
  /\ CbAt("find")
  /\ IF cdev = NULL THEN CbReturns
     ELSE IF dev[cdev].Number = cn THEN cpc' = "load" /\ UNCHANGED <<cn, cdev, cev>>
     ELSE cdev' = dev[cdev].next /\ UNCHANGED <<cpc, cn, cev>>
  /\ UNCHANGED <<heap, started, lua, got, arrived, ignored, raced, wild>>

\* event->next = dev->pMidiInEventList; forgotten
ChainNot == UNCHANGED ev
Chain == ev' = [ev EXCEPT ![cev].next = dev[cdev].list]

CbLoad ==
  /\ CbAt("load")
  /\ Chain
  /\ cpc' = "store"
  /\ UNCHANGED <<pMidiInDevList, dev, started, lua, got, cn, cdev, cev, arrived, ignored,
                 raced, wild>>

\* dev->pMidiInEventList = event; the event at the list's other end
PublishLast ==
  LET list == ListFrom(ev, dev[cdev].list) IN
  IF list = <<>>
  THEN dev' = [dev EXCEPT ![cdev].list = cev] /\ UNCHANGED ev
  ELSE ev' = [ev EXCEPT ![Last(list)].next = cev, ![cev].next = NULL] /\ UNCHANGED dev
Publish == dev' = [dev EXCEPT ![cdev].list = cev] /\ UNCHANGED ev

CbStore ==
  /\ CbAt("store")
  /\ Publish
  /\ arrived' = [arrived EXCEPT ![cn] = Append(@, ev[cev].msg)]
  /\ CbReturns
  /\ UNCHANGED <<pMidiInDevList, started, lua, got, ignored, raced, wild>>

-----------------------------------------------------------------------------
LuaStep == LuaWalk \/ LuaUnchain \/ LuaFree \/ LuaClosed \/ LuaUnlink \/ LuaFreeDev
CbStep  == CbFind \/ CbLoad \/ CbStore

Next ==
  \/ \E n \in Numbers : plOpenMidiIn(n) \/ plCloseMidiIn(n) \/ plGetEvent(n)
  \/ \E n \in Numbers, m \in Msgs : MidiReceive(n, m)
  \/ LuaStep \/ CbStep \/ Strays

Spec == Init /\ [][Next]_vars

\* What follows a crossing is of no interest where the properties exempt it, except
\* that a thread goes astray at once.
Followed == raced => ~wild /\ (LuaAstray \/ CbAstray)

-----------------------------------------------------------------------------
(* Properties                                                              *)

\* Neither thread touches a freed block unless one of the two windows was hit: the
\* one around the removal of a list's only event, or a search that stands on the
\* device just freed.
StrayNeedsRace == wild => raced

\* No event is lost in memory, and none is freed twice: between calls the blocks in
\* use are those on the lists of the open devices.
MemoryAccounted ==
  lpc = "idle" /\ cpc = "idle" /\ ~raced =>
    /\ DOMAIN dev = ToSet(ListFrom(dev, pMidiInDevList))
    /\ DOMAIN ev = UNION {ToSet(ListFrom(ev, dev[d].list)) : d \in DOMAIN dev}
    /\ \A d1, d2 \in DOMAIN dev :
         d1 # d2 => /\ dev[d1].Number # dev[d2].Number
                    /\ ToSet(ListFrom(ev, dev[d1].list))
                         \cap ToSet(ListFrom(ev, dev[d2].list)) = {}

\* The lists, read from the far end, are the queues of MidiQueue.
OpenDevices == {n \in Numbers : GetMidiInEntry(n) # NULL}

QueueOf(n) ==
  LET entry == GetMidiInEntry(n)
      list  == IF entry = NULL THEN <<>> ELSE Reverse(ListFrom(ev, dev[entry].list))
  IN [k \in DOMAIN list |-> ev[list[k]].msg]

Queues == [n \in Numbers |-> QueueOf(n)]

Q == INSTANCE MidiQueue WITH opened <- OpenDevices, queue <- Queues

\* Whatever the two threads interleave outside those windows, every step opens or
\* closes a device, adds one event at the end of its queue, takes the oldest one
\* out, or changes nothing a script can see.
ImplementsQueue == Q!Init /\ [][raced' \/ wild' \/ Q!Next]_<<OpenDevices, Queues, got>>

\* The rounds that the walk of RemoveMidiInEvent has before it
Ahead == Len(ListFrom(ev, p))

\* However fast events come in, they come in behind the walk: until a crossing no step
\* lengthens what it has before it, and each of its rounds shortens it.  After one, a
\* freed block that is handed out again may close the list to a circle without end.
WalkShortens ==
  [][~raced /\ lpc = "walk" /\ lpc' = "walk" =>
       Ahead' <= Ahead /\ (LuaWalk => Ahead' < Ahead)]_vars

\* profimidi.c:709: "Returns the oldest MIDI event of a device".
OldestReturned ==
  [][lpc = "unchain" /\ lpc' = "free" =>
       arrived[ln] # <<>> /\ got' = Head(arrived[ln])]_vars

\* profimidi.c:355: "Saves any NOTEON/OFF, CONTROL CHANGE or PITCH BEND in the
\* device buffer event list."
SavesVoice == ignored \notin Voice
=============================================================================
