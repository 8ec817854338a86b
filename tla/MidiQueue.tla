----------------------------- MODULE MidiQueue -----------------------------
(***************************************************************************)
(* What promidi promises about MIDI input (the comments of RemoveMidiInEvent*)
(* and plGetEvent in src/src/profimidi.c): every open device has a queue;   *)
(* what arrives goes in at one end, GetMessage takes the oldest one out.    *)
(***************************************************************************)
EXTENDS Sequences, Naturals

CONSTANTS Numbers,  \* the device numbers a script may use
          Msgs,     \* the messages a device sends
          NoEvent   \* GetMessage's nil

VARIABLES opened,   \* devices open
          queue,    \* per device, oldest event first
          got       \* what GetMessage returned last

TypeOK ==
  /\ opened \subseteq Numbers
  /\ queue \in [Numbers -> Seq(Msgs)]
  /\ got \in Msgs \cup {NoEvent}

Init ==
  /\ opened = {}
  /\ queue = [n \in Numbers |-> <<>>]
  /\ got = NoEvent

Open(n) ==
  /\ n \notin opened
  /\ opened' = opened \cup {n}
  /\ UNCHANGED <<queue, got>>

Close(n) ==
  /\ n \in opened
  /\ opened' = opened \ {n}
  /\ queue' = [queue EXCEPT ![n] = <<>>]
  /\ UNCHANGED got

Arrive(n, m) ==
  /\ n \in opened
  /\ queue' = [queue EXCEPT ![n] = Append(@, m)]
  /\ UNCHANGED <<opened, got>>

Get(n) ==
  /\ queue[n] # <<>>
  /\ got' = Head(queue[n])
  /\ queue' = [queue EXCEPT ![n] = Tail(@)]
  /\ UNCHANGED opened

GetNothing(n) ==
  /\ queue[n] = <<>>
  /\ got' = NoEvent
  /\ UNCHANGED <<opened, queue>>

Next ==
  \E n \in Numbers :
    \/ Open(n) \/ Close(n) \/ Get(n) \/ GetNothing(n)
    \/ \E m \in Msgs : Arrive(n, m)

Spec == Init /\ [][Next]_<<opened, queue, got>>
=============================================================================
