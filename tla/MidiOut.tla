------------------------------ MODULE MidiOut ------------------------------
(***************************************************************************)
(* The MIDI output side of src/src/profimidi.c: the list of open devices   *)
(* against the handles Windows has given out.  Only the Lua thread works   *)
(* on it, so a step is a whole call of the script.  The list is a global   *)
(* of the DLL: it outlives the Lua state of a simulation run.              *)
(***************************************************************************)
EXTENDS Integers, Sequences, SequencesExt

CONSTANTS
  OutDevices,  \* device numbers a script passes
  Shared,      \* those whose driver serves several clients
  OutHandles,  \* handles midiOutOpen may give
  Channels,    \* what a script passes as a channel, and
  DataBytes,       \* as key, velocity and message
  NoMessage

VARIABLES
  pMidiOutDevList,
  given,  \* the open handles, each with its device
  lost,   \* those no entry of the list was made or is left for
  result, \* what the last call returned
  asked,  \* the arguments of the last call if it has sent a message,
  sent    \* and what midiOutShortMsg was given

vars == <<pMidiOutDevList, given, lost, result, asked, sent>>

\* In place of a number: luaL_checkinteger has raised, or -1 was taken for a yield
Raised == 1
Yields == 2

TypeOK ==
  /\ pMidiOutDevList \in Seq([Number : OutDevices, Handle : OutHandles])
  /\ DOMAIN given \subseteq OutHandles /\ Range(given) \subseteq OutDevices
  /\ lost \subseteq DOMAIN given
  /\ result \in -4 .. 2

Init ==
  /\ pMidiOutDevList = <<>> /\ given = <<>> /\ lost = {}
  /\ result = 0 /\ asked = NoMessage /\ sent = NoMessage

\* The first entry whatever its number
GetMidiOutEntryFirst(num) == IF pMidiOutDevList = <<>> THEN 0 ELSE 1

\* The place in the list of the entry of a device, 0 for none
GetMidiOutEntry(num) == SelectInSeq(pMidiOutDevList, LAMBDA e : e.Number = num)

AddMidiOut(tmp) == pMidiOutDevList' = <<tmp>> \o pMidiOutDevList

\* The head is unchained whichever was meant
RemoveMidiOutHead(k) == pMidiOutDevList' = Tail(pMidiOutDevList)
RemoveMidiOut(k)     == pMidiOutDevList' = RemoveAt(pMidiOutDevList, k)

Answers(n) == result' = n
Quietly == asked' = NoMessage /\ sent' = NoMessage
Nothing == Quietly /\ UNCHANGED <<pMidiOutDevList, given, lost>>

\* lua_gettop(L) != 1, or no number
WrongArguments == Answers(-1) \/ Answers(Raised)

midiOutOpen(num, handle) ==
  /\ handle \in OutHandles \ DOMAIN given
  /\ num \in Shared \/ num \notin Range(given)
  /\ given' = [h \in DOMAIN given \cup {handle} |-> IF h = handle THEN num ELSE given[h]]

plOpenMidiOut(num) ==
  \/ WrongArguments /\ Nothing
  \/ GetMidiOutEntry(num) # 0 /\ Answers(-2) /\ Nothing
  \/ GetMidiOutEntry(num) = 0 /\ Answers(-3) /\ Nothing
  \/ /\ GetMidiOutEntry(num) = 0
     /\ \E handle \in OutHandles :
          /\ midiOutOpen(num, handle)
          /\ \/ AddMidiOut([Number |-> num, Handle |-> handle]) /\ Answers(0) /\ UNCHANGED lost
             \* no memory: nothing closes the handle
             \/ Answers(-4) /\ lost' = lost \cup {handle} /\ UNCHANGED pMidiOutDevList
     /\ Quietly

\* Whether midiOutClose has closed the device is not asked.
midiOutClose(handle) ==
  \/ given' = [h \in DOMAIN given \ {handle} |-> given[h]] /\ UNCHANGED lost
  \/ lost' = lost \cup {handle} /\ UNCHANGED given

plCloseMidiOut(num) ==
  \/ WrongArguments /\ Nothing
  \/ GetMidiOutEntry(num) = 0 /\ Answers(-2) /\ Nothing
  \/ /\ GetMidiOutEntry(num) # 0
     /\ midiOutClose(pMidiOutDevList[GetMidiOutEntry(num)].Handle)
     /\ RemoveMidiOut(GetMidiOutEntry(num))
     /\ Answers(0) /\ Quietly

\* & 0xf0 and & 0x7f of a byte
HighBits(n) == (n % 256) - (n % 16)
SevenBits(n) == n % 128

MidiSend(k, msg, channel, key, vel) ==
  sent' = [handle |-> pMidiOutDevList[k].Handle, status |-> HighBits(msg) + channel,
           key |-> SevenBits(key), vel |-> SevenBits(vel)]

\* SendMessage; a wrong number of arguments returns -1, which is not a number of
\* results.  The last three arguments are looked at when all else is in order.
plPlayNote(num, channel, key, vel, msg) ==
  \/ (Answers(Yields) \/ Answers(Raised)) /\ Nothing
  \/ GetMidiOutEntry(num) = 0 /\ Answers(-2) /\ Nothing
  \/ channel \notin 1 .. 16 /\ Answers(-2) /\ Nothing
  \/ /\ GetMidiOutEntry(num) # 0 /\ channel \in 1 .. 16
     /\ MidiSend(GetMidiOutEntry(num), msg, channel - 1, key, vel)
     /\ asked' = [num |-> num, channel |-> channel, key |-> key, vel |-> vel, msg |-> msg]
     /\ Answers(0)
     /\ UNCHANGED <<pMidiOutDevList, given, lost>>

Next ==
  \/ \E num \in OutDevices : plOpenMidiOut(num) \/ plCloseMidiOut(num)
  \/ \E num \in OutDevices, channel \in Channels, key, vel, msg \in DataBytes :
       plPlayNote(num, channel, key, vel, msg)

Spec == Init /\ [][Next]_vars

-----------------------------------------------------------------------------
(* Properties                                                              *)

\* The list and the driver agree (plOpenMidiOut, plCloseMidiOut, RemoveMidiOut): each
\* open handle is that of one entry, with the device it was opened for, but for the
\* handles that a failing malloc or a failing midiOutClose has left behind; and no
\* device has two entries, so that each can be reached and closed by its number.
HandlesAccounted ==
  LET entries == {<<e.Handle, e.Number>> : e \in Range(pMidiOutDevList)}
  IN /\ entries = {<<h, given[h]>> : h \in DOMAIN given \ lost}
     /\ \A j, k \in DOMAIN pMidiOutDevList :
          j # k => pMidiOutDevList[j].Number # pMidiOutDevList[k].Number

\* A message goes to an open handle of the device the script has named, on the
\* channel it has named, with data bytes that no receiver takes for a status byte
\* (plPlayNote, MidiSend), in whatever order devices were opened and closed.
SentAsAsked ==
  sent # NoMessage =>
    /\ sent.handle \in DOMAIN given \ lost /\ given[sent.handle] = asked.num
    /\ sent.status % 16 = asked.channel - 1 /\ sent.status \div 16 = (asked.msg \div 16) % 16
    /\ sent.key \in 0 .. 127 /\ sent.vel \in 0 .. 127
=============================================================================
