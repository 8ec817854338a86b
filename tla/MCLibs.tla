------------------------------- MODULE MCLibs -------------------------------
(* The libraries of the scripts for TLC: probit, proserial and the output  *)
(* half of promidi.  They share no state, so a script that uses one of     *)
(* them stands for all scripts.  (The input half is MCMidiIn.)             *)
EXTENDS MCSerial, BitOps, TLC

VARIABLE lib

CONSTANTS OutDevices, Shared, OutHandles, Channels, DataBytes, NoMessage
VARIABLES pMidiOutDevList, given, lost, result, asked, sent
Out == INSTANCE MidiOut

\* luaL_checkinteger gives plPlayNote an int.
ASSUME OutAssumption == DataBytes \subseteq Int

VARIABLES op, x, y, res
Bit == INSTANCE BitCalls

outVars == <<pMidiOutDevList, given, lost, result, asked, sent>>
bitVars == <<op, x, y, res>>
LibVars == <<lib, vars, outVars, bitVars>>

LibInit ==
  /\ lib \in {"probit", "proserial", "output"}
  /\ Init /\ Out!Init /\ Bit!Init

Probit    == lib = "probit" /\ Bit!Next /\ UNCHANGED <<lib, vars, outVars>>
Proserial == lib = "proserial" /\ Next /\ UNCHANGED <<lib, outVars, bitVars>>
Output    == lib = "output" /\ Out!Next /\ UNCHANGED <<lib, vars, bitVars>>

LibNext == Probit \/ Proserial \/ Output

LibSpec == LibInit /\ [][LibNext]_LibVars

-----------------------------------------------------------------------------
(* words of eight bits: every word is tried, under its signed and its      *)
(* unsigned number; then numbers around 2^11, the bound of what barg takes *)
(* for what it is with 12 bits behind the point, where the sum with        *)
(* 2^12 + 2^11 is rounded, zero or negative, and the largest               *)
MCNumbers == -128 .. 256
               \cup {-2049, -2048, 2047, 2048, 2049, 2051, -6144, -6145, -8190, 16380}
MCCounts  == -3 .. 9 \cup {-128, 127, 200} \cup {-2048, 2047, 2049, 2051, -6145}

\* the first and the last channel and their neighbours; a status byte, and a number
\* that is no byte
MCChannels == {0, 1, 16, 17}
MCDataBytes == {-1, 144}

-----------------------------------------------------------------------------
\* The types of the three libraries
LibsTypeOK == TypeOK /\ Out!TypeOK /\ Bit!TypeOK

\* probit: see BitCalls
OperatorsArithmetic == Bit!OperatorsArithmetic
RotationsUndo       == Bit!RotationsUndo
DigitsReadBack      == Bit!DigitsReadBack

\* promidi: see MidiOut
HandlesAccounted == Out!HandlesAccounted
SentAsAsked      == Out!SentAsAsked
=============================================================================
