----------------------------- MODULE MCMidiIn -----------------------------
(* MidiIn for TLC: the blocks of the two heaps are interchangeable, which  *)
(* the safety runs use.                                                    *)
EXTENDS MidiIn, TLC

Blocks == Permutations(EvBlocks) \cup Permutations(DevBlocks)

===========================================================================
