----------------------------- MODULE LibsProofs -----------------------------
(***************************************************************************)
(* Proofs about the libraries of the scripts: the output half of promidi,  *)
(* for any number of devices and handles and every sharing of a device,    *)
(* and probit, for words and doubles of any size.                     *)
(***************************************************************************)
EXTENDS MCLibs, SerialProofs, BitOpsProofs

Entries == [Number : OutDevices, Handle : OutHandles]

\* GetMidiOutEntry finds an entry of the device, and finds it whenever there is one.
LEMMA EntryFound ==
  ASSUME pMidiOutDevList \in Seq(Entries), NEW num, NEW k, k = Out!GetMidiOutEntry(num)
  PROVE  /\ k # 0 => k \in 1 .. Len(pMidiOutDevList) /\ pMidiOutDevList[k].Number = num
         /\ k = 0 => \A m \in 1 .. Len(pMidiOutDevList) : pMidiOutDevList[m].Number # num
  <1> DEFINE I == {m \in 1 .. Len(pMidiOutDevList) : pMidiOutDevList[m].Number = num}
  <1>1. k = IF I # {} THEN Out!Min(I) ELSE 0
    BY DEF Out!GetMidiOutEntry, Out!SelectInSeq
  <1>2. I # {} => Out!Min(I) \in I
    <2>1. I \in SUBSET Nat
      OBVIOUS
    <2> HIDE DEF I
    <2> QED BY LeastElement, <2>1 DEF Out!Min
  <1>3. 0 \notin I
    OBVIOUS
  <1> QED BY <1>1, <1>2, <1>3

\* A list with an entry more at its head,
LEMMA Chained ==
  ASSUME NEW S, NEW list \in Seq(S), NEW e \in S, NEW longer, longer = <<e>> \o list
  PROVE  /\ longer \in Seq(S) /\ Len(longer) = Len(list) + 1 /\ longer[1] = e
         /\ \A k \in 1 .. Len(list) : longer[k + 1] = list[k]
         /\ \A k \in 2 .. Len(longer) : k - 1 \in 1 .. Len(list) /\ longer[k] = list[k - 1]
  OBVIOUS

\* two lists one after the other,
LEMMA Joined ==
  ASSUME NEW S, NEW s \in Seq(S), NEW t \in Seq(S)
  PROVE  /\ s \o t \in Seq(S) /\ Len(s \o t) = Len(s) + Len(t)
         /\ \A m \in 1 .. Len(s) + Len(t) :
              (s \o t)[m] = IF m <= Len(s) THEN s[m] ELSE t[m - Len(s)]
  OBVIOUS

\* and a list without one of its entries.
LEMMA Unchained ==
  ASSUME NEW list \in Seq(Entries), NEW k \in 1 .. Len(list),
         NEW shorter, shorter = Out!RemoveAt(list, k)
  PROVE  /\ shorter \in Seq(Entries) /\ Len(shorter) = Len(list) - 1
         /\ \A m \in 1 .. Len(shorter) : shorter[m] = IF m < k THEN list[m] ELSE list[m + 1]
  <1> DEFINE before == SubSeq(list, 1, k - 1)
             after  == SubSeq(list, k + 1, Len(list))
  <1>1. /\ before \in Seq(Entries) /\ Len(before) = k - 1
        /\ \A m \in 1 .. k - 1 : before[m] = list[m]
    OBVIOUS
  <1>2. /\ after \in Seq(Entries) /\ Len(after) = Len(list) - k
        /\ \A m \in 1 .. Len(list) - k : after[m] = list[k + m]
    OBVIOUS
  <1>3. shorter = before \o after
    BY DEF Out!RemoveAt
  <1> HIDE DEF before, after
  <1>4. /\ shorter \in Seq(Entries) /\ Len(shorter) = (k - 1) + (Len(list) - k)
        /\ \A m \in 1 .. (k - 1) + (Len(list) - k) :
             shorter[m] = IF m <= k - 1 THEN before[m] ELSE after[m - (k - 1)]
    <2>1. /\ before \in Seq(Entries) /\ Len(before) = k - 1
          /\ after \in Seq(Entries) /\ Len(after) = Len(list) - k
      BY <1>1, <1>2
    <2>2. /\ before \o after \in Seq(Entries) /\ Len(before \o after) = Len(before) + Len(after)
          /\ \A m \in 1 .. Len(before) + Len(after) :
               (before \o after)[m] = IF m <= Len(before) THEN before[m] ELSE after[m - Len(before)]
      BY <2>1, Joined
    <2> QED BY <1>3, <2>1, <2>2
  <1>5. Len(list) \in Nat /\ k \in Nat /\ Len(shorter) = Len(list) - 1
    BY <1>4
  <1>6. ASSUME NEW m \in 1 .. Len(shorter)
        PROVE  shorter[m] = IF m < k THEN list[m] ELSE list[m + 1]
    <2>1. CASE m < k
      BY <1>1, <1>4, <1>5, <2>1
    <2>2. CASE m >= k
      <3>1. PICK q \in 1 .. Len(list) - k : q = m - (k - 1) /\ k + q = m + 1
        BY <1>5, <2>2
      <3>2. m \in 1 .. (k - 1) + (Len(list) - k) /\ ~(m <= k - 1) /\ m - (k - 1) = q
        BY <1>4, <1>5, <2>2, <3>1
      <3>3. shorter[m] = after[q]
        BY <1>4, <3>2
      <3>4. after[q] = list[m + 1]
        BY <1>2, <3>1
      <3> QED BY <1>5, <2>2, <3>3, <3>4
    <2> QED BY <1>5, <2>1, <2>2
  <1> QED BY <1>4, <1>5, <1>6

-----------------------------------------------------------------------------
\* HandlesAccounted entry by entry and handle by handle.
Paired(list, open, left) ==
  /\ \A k \in 1 .. Len(list) : list[k].Handle \in DOMAIN open \ left
                               /\ open[list[k].Handle] = list[k].Number
  /\ \A h \in DOMAIN open \ left : \E k \in 1 .. Len(list) :
       list[k].Handle = h /\ list[k].Number = open[h]
  /\ \A m, k \in 1 .. Len(list) : m # k => list[m].Number # list[k].Number

LEMMA PairedAccounts ==
  ASSUME pMidiOutDevList \in Seq(Entries), Paired(pMidiOutDevList, given, lost)
  PROVE  HandlesAccounted
  <1> DEFINE entries == {<<e.Handle, e.Number>> : e \in Out!Range(pMidiOutDevList)}
             handles == {<<h, given[h]>> : h \in DOMAIN given \ lost}
  <1>1. DOMAIN pMidiOutDevList = 1 .. Len(pMidiOutDevList)
    OBVIOUS
  <1>2. ASSUME NEW e \in Out!Range(pMidiOutDevList) PROVE <<e.Handle, e.Number>> \in handles
    BY <1>1 DEF Paired, Out!Range
  <1>3. ASSUME NEW h \in DOMAIN given \ lost PROVE <<h, given[h]>> \in entries
    BY <1>1 DEF Paired, Out!Range
  <1>4. entries = handles
    BY <1>2, <1>3
  <1> QED BY <1>1, <1>4 DEF HandlesAccounted, Out!HandlesAccounted, Paired

\* plOpenMidiOut pairs the new entry with the new handle,
LEMMA OpenPairs ==
  ASSUME NEW list \in Seq(Entries), NEW open, NEW left, left \subseteq DOMAIN open,
         Paired(list, open, left),
         NEW num \in OutDevices, \A k \in 1 .. Len(list) : list[k].Number # num,
         NEW handle \in OutHandles \ DOMAIN open,
         NEW longer, longer = <<[Number |-> num, Handle |-> handle]>> \o list,
         NEW more, DOMAIN more = DOMAIN open \cup {handle}, more[handle] = num,
         \A h \in DOMAIN open : more[h] = open[h]
  PROVE  Paired(longer, more, left)
  <1> DEFINE e == [Number |-> num, Handle |-> handle]
  <1>1. e \in Entries /\ e.Number = num /\ e.Handle = handle
    BY DEF Entries
  <1>2. /\ DOMAIN more = DOMAIN open \cup {handle} /\ more[handle] = num
        /\ \A h \in DOMAIN open : more[h] = open[h]
    OBVIOUS
  <1> HIDE DEF e
  <1>3. /\ Len(longer) = Len(list) + 1 /\ longer[1] = e
        /\ \A k \in 1 .. Len(list) : longer[k + 1] = list[k]
        /\ \A k \in 2 .. Len(longer) : k - 1 \in 1 .. Len(list) /\ longer[k] = list[k - 1]
    BY <1>1, Chained DEF e
  <1>4. Len(list) \in Nat
    OBVIOUS
  <1>5. ASSUME NEW k \in 1 .. Len(longer)
        PROVE  longer[k].Handle \in DOMAIN more \ left /\ more[longer[k].Handle] = longer[k].Number
    <2>1. CASE k = 1
      BY <1>1, <1>2, <1>3, <2>1
    <2>2. CASE k # 1
      BY <1>2, <1>3, <1>4, <2>2 DEF Paired
    <2> QED BY <2>1, <2>2
  <1>6. ASSUME NEW h \in DOMAIN more \ left
        PROVE  \E k \in 1 .. Len(longer) : longer[k].Handle = h /\ longer[k].Number = more[h]
    <2>1. CASE h = handle
      <3>1. 1 \in 1 .. Len(longer)
        BY <1>3, <1>4
      <3> QED BY <1>1, <1>2, <1>3, <2>1, <3>1
    <2>2. CASE h # handle
      <3>1. PICK k \in 1 .. Len(list) : list[k].Handle = h /\ list[k].Number = open[h]
        BY <1>2, <2>2 DEF Paired
      <3>2. k + 1 \in 1 .. Len(longer) /\ longer[k + 1] = list[k]
        BY <1>3, <1>4
      <3> QED BY <1>2, <2>2, <3>1, <3>2
    <2> QED BY <2>1, <2>2
  <1>7. \A m, k \in 1 .. Len(list) : m # k => list[m].Number # list[k].Number
    BY DEF Paired
  <1>8. ASSUME NEW m \in 1 .. Len(longer), NEW k \in 1 .. Len(longer), m # k
        PROVE  longer[m].Number # longer[k].Number
    <2>1. CASE m = 1
      BY <1>1, <1>3, <1>4, <1>8, <2>1
    <2>2. CASE k = 1
      BY <1>1, <1>3, <1>4, <1>8, <2>2
    <2>3. CASE m # 1 /\ k # 1
      <3>1. m - 1 # k - 1
        BY <1>3, <1>4, <1>8
      <3>2. /\ m - 1 \in 1 .. Len(list) /\ longer[m] = list[m - 1]
            /\ k - 1 \in 1 .. Len(list) /\ longer[k] = list[k - 1]
        BY <1>3, <1>4, <2>3
      <3>3. list[m - 1].Number # list[k - 1].Number
        BY <1>7, <3>1, <3>2
      <3> QED BY <3>2, <3>3
    <2> QED BY <2>1, <2>2, <2>3
  <1> QED BY <1>5, <1>6, <1>8 DEF Paired

\* and a handle that is given up for lost was none of the list's.
LEMMA LossPairs ==
  ASSUME NEW list \in Seq(Entries), NEW open, NEW left, left \subseteq DOMAIN open,
         Paired(list, open, left), NEW num, NEW handle \in OutHandles \ DOMAIN open,
         NEW more, DOMAIN more = DOMAIN open \cup {handle}, more[handle] = num,
         \A h \in DOMAIN open : more[h] = open[h]
  PROVE  Paired(list, more, left \cup {handle})
  <1>1. DOMAIN more \ (left \cup {handle}) = DOMAIN open \ left
    OBVIOUS
  <1>2. \A h \in DOMAIN open \ left : more[h] = open[h]
    OBVIOUS
  <1> QED BY <1>1, <1>2, SMTT(30) DEF Paired

\* plCloseMidiOut takes the entry away with its handle, whether the driver closes it
LEMMA ClosePairs ==
  ASSUME NEW list \in Seq(Entries), NEW open, NEW left, left \subseteq DOMAIN open,
         Paired(list, open, left), NEW k \in 1 .. Len(list), NEW handle, handle = list[k].Handle
  PROVE  /\ Paired(Out!RemoveAt(list, k), [h \in DOMAIN open \ {handle} |-> open[h]], left)
         /\ Paired(Out!RemoveAt(list, k), open, left \cup {handle})
  <1> DEFINE less == [h \in DOMAIN open \ {handle} |-> open[h]]
  <1>0. PICK shorter : shorter = Out!RemoveAt(list, k)
    OBVIOUS
  <1>1. /\ Len(shorter) = Len(list) - 1
        /\ \A m \in 1 .. Len(shorter) : shorter[m] = IF m < k THEN list[m] ELSE list[m + 1]
    BY <1>0, Unchained
  <1>2. /\ DOMAIN less = DOMAIN open \ {handle}
        /\ \A h \in DOMAIN less : less[h] = open[h]
    OBVIOUS
  <1> HIDE DEF less
  <1>3. Len(list) \in Nat
    OBVIOUS
  <1>4. \A n, m \in 1 .. Len(list) : n # m => list[n].Handle # list[m].Handle
    BY DEF Paired
  <1>5. ASSUME NEW m \in 1 .. Len(shorter)
        PROVE  \E n \in 1 .. Len(list) : n # k /\ shorter[m] = list[n] /\ n = (IF m < k THEN m ELSE m + 1)
    BY <1>1, <1>3
  <1>6. ASSUME NEW n \in 1 .. Len(list), n # k
        PROVE  \E m \in 1 .. Len(shorter) : shorter[m] = list[n]
    <2>1. CASE n < k
      <3>1. n \in 1 .. Len(shorter) /\ shorter[n] = list[n]
        BY <1>1, <1>3, <2>1
      <3> QED BY <3>1
    <2>2. CASE n > k
      <3>1. n - 1 \in 1 .. Len(shorter) /\ ~(n - 1 < k) /\ (n - 1) + 1 = n
        BY <1>1, <1>3, <2>2
      <3>2. shorter[n - 1] = list[n]
        BY <1>1, <3>1
      <3> QED BY <3>1, <3>2
    <2> QED BY <1>6, <2>1, <2>2
  <1>7. \A m \in 1 .. Len(shorter) :
          /\ shorter[m].Handle \in DOMAIN open \ (left \cup {handle})
          /\ open[shorter[m].Handle] = shorter[m].Number
    BY <1>4, <1>5 DEF Paired
  <1>8. \A h \in DOMAIN open \ (left \cup {handle}) : \E m \in 1 .. Len(shorter) :
          shorter[m].Handle = h /\ shorter[m].Number = open[h]
    BY <1>6 DEF Paired
  <1>9. ASSUME NEW n \in 1 .. Len(shorter), NEW m \in 1 .. Len(shorter), n # m
        PROVE  shorter[n].Number # shorter[m].Number
    <2>1. PICK i1 \in 1 .. Len(list) : shorter[n] = list[i1] /\ i1 = (IF n < k THEN n ELSE n + 1)
      BY <1>5
    <2>2. PICK j1 \in 1 .. Len(list) : shorter[m] = list[j1] /\ j1 = (IF m < k THEN m ELSE m + 1)
      BY <1>5
    <2>3. i1 # j1
      BY <1>1, <1>3, <1>9, <2>1, <2>2
    <2>4. list[i1].Number # list[j1].Number
      BY <2>3 DEF Paired
    <2> QED BY <2>1, <2>2, <2>4
  <1>10. Paired(shorter, open, left \cup {handle})
    BY <1>7, <1>8, <1>9 DEF Paired
  <1>11. Paired(shorter, less, left)
    <2>1. DOMAIN less \ left = DOMAIN open \ (left \cup {handle})
      BY <1>2
    <2>2. \A h \in DOMAIN open \ (left \cup {handle}) : less[h] = open[h]
      BY <1>2
    <2>3. \A m \in 1 .. Len(shorter) : /\ shorter[m].Handle \in DOMAIN less \ left
                                      /\ less[shorter[m].Handle] = shorter[m].Number
      BY <1>7, <2>1, <2>2
    <2>4. \A h \in DOMAIN less \ left : \E m \in 1 .. Len(shorter) :
            shorter[m].Handle = h /\ shorter[m].Number = less[h]
      BY <1>8, <2>1, <2>2
    <2> QED BY <1>9, <2>3, <2>4 DEF Paired
  <1> QED BY <1>0, <1>10, <1>11 DEF less

-----------------------------------------------------------------------------
\* What the output calls keep.
OutInv ==
  /\ pMidiOutDevList \in Seq(Entries)
  /\ DOMAIN given \subseteq OutHandles /\ lost \subseteq DOMAIN given
  /\ Paired(pMidiOutDevList, given, lost)

LEMMA InitOut == Out!Init => OutInv
  <1> SUFFICES ASSUME Out!Init PROVE OutInv
    OBVIOUS
  <1>1. DOMAIN given = {} /\ Len(pMidiOutDevList) = 0
    BY DEF Out!Init
  <1>2. pMidiOutDevList \in Seq(Entries)
    BY DEF Out!Init
  <1> QED BY <1>1, <1>2 DEF OutInv, Paired, Out!Init

LEMMA NextOut == OutInv /\ [Out!Next]_outVars => OutInv'
  <1> SUFFICES ASSUME OutInv, [Out!Next]_outVars PROVE OutInv'
    OBVIOUS
  <1> USE DEF OutInv
  <1>1. ASSUME UNCHANGED <<pMidiOutDevList, given, lost>> PROVE OutInv'
    BY <1>1 DEF Paired
  <1>2. ASSUME NEW num \in OutDevices, Out!plOpenMidiOut(num) PROVE OutInv'
    <2>1. CASE UNCHANGED <<pMidiOutDevList, given, lost>>
      BY <1>1, <2>1
    <2>2. CASE /\ Out!GetMidiOutEntry(num) = 0
               /\ \E handle \in OutHandles :
                    /\ Out!midiOutOpen(num, handle)
                    /\ \/ /\ Out!AddMidiOut([Number |-> num, Handle |-> handle])
                          /\ UNCHANGED lost
                       \/ lost' = lost \cup {handle} /\ UNCHANGED pMidiOutDevList
      <3>1. PICK handle \in OutHandles :
               /\ Out!midiOutOpen(num, handle)
               /\ \/ /\ Out!AddMidiOut([Number |-> num, Handle |-> handle])
                     /\ UNCHANGED lost
                  \/ lost' = lost \cup {handle} /\ UNCHANGED pMidiOutDevList
        BY <2>2
      <3>2. /\ handle \in OutHandles \ DOMAIN given
            /\ given' = [h \in DOMAIN given \cup {handle} |-> IF h = handle THEN num ELSE given[h]]
        BY <3>1 DEF Out!midiOutOpen
      <3>3. /\ DOMAIN given' = DOMAIN given \cup {handle} /\ given'[handle] = num
            /\ \A h \in DOMAIN given : given'[h] = given[h]
        BY <3>2
      <3>4. \A k \in 1 .. Len(pMidiOutDevList) : pMidiOutDevList[k].Number # num
        BY <2>2, EntryFound
      <3>5. CASE Out!AddMidiOut([Number |-> num, Handle |-> handle]) /\ UNCHANGED lost
        <4>1. pMidiOutDevList' = <<[Number |-> num, Handle |-> handle]>> \o pMidiOutDevList
          BY <3>5 DEF Out!AddMidiOut
        <4>2. [Number |-> num, Handle |-> handle] \in Entries
          BY DEF Entries
        <4>3. pMidiOutDevList' \in Seq(Entries)
          BY <4>1, <4>2, Chained
        <4>4. Paired(pMidiOutDevList', given', lost)
          BY <3>2, <3>4, <3>3, <4>1, OpenPairs
        <4> QED BY <3>2, <3>5, <4>3, <4>4
      <3>6. CASE lost' = lost \cup {handle} /\ UNCHANGED pMidiOutDevList
        <4>1. Paired(pMidiOutDevList, given', lost')
          BY <3>2, <3>6, <3>3, LossPairs
        <4> QED BY <3>2, <3>6, <4>1
      <3> QED BY <3>1, <3>5, <3>6
    <2> QED BY <1>2, <2>1, <2>2 DEF Out!plOpenMidiOut, Out!Nothing
  <1>3. ASSUME NEW num \in OutDevices, Out!plCloseMidiOut(num) PROVE OutInv'
    <2>1. CASE UNCHANGED <<pMidiOutDevList, given, lost>>
      BY <1>1, <2>1
    <2> DEFINE k == Out!GetMidiOutEntry(num)
    <2>2. CASE /\ k # 0
               /\ Out!midiOutClose(pMidiOutDevList[k].Handle)
               /\ Out!RemoveMidiOut(k)
      <3>1. k \in 1 .. Len(pMidiOutDevList)
        BY <2>2, EntryFound
      <3>2. pMidiOutDevList' = Out!RemoveAt(pMidiOutDevList, k)
        BY <2>2 DEF Out!RemoveMidiOut
      <3> HIDE DEF k
      <3>3. pMidiOutDevList' \in Seq(Entries)
        BY <3>1, <3>2, Unchained
      <3> DEFINE handle == pMidiOutDevList[k].Handle
      <3>4. handle \in DOMAIN given
        BY <3>1 DEF Paired
      <3>5. /\ Paired(pMidiOutDevList', [h \in DOMAIN given \ {handle} |-> given[h]], lost)
            /\ Paired(pMidiOutDevList', given, lost \cup {handle})
        BY <3>1, <3>2, ClosePairs
      <3>6. handle \notin lost
        BY <3>1 DEF Paired
      <3>7. \/ given' = [h \in DOMAIN given \ {handle} |-> given[h]] /\ UNCHANGED lost
            \/ lost' = lost \cup {handle} /\ UNCHANGED given
        BY <2>2 DEF Out!midiOutClose
      <3> HIDE DEF handle
      <3> QED BY <3>3, <3>4, <3>5, <3>6, <3>7
    <2> QED BY <1>3, <2>1, <2>2 DEF Out!plCloseMidiOut, Out!Nothing
  <1>4. ASSUME NEW num \in OutDevices, NEW channel \in Channels,
               NEW key \in DataBytes, NEW vel \in DataBytes, NEW msg \in DataBytes,
               Out!plPlayNote(num, channel, key, vel, msg)
        PROVE  OutInv'
    BY <1>1, <1>4 DEF Out!plPlayNote, Out!Nothing
  <1>5. CASE UNCHANGED outVars
    BY <1>1, <1>5 DEF outVars
  <1> QED BY <1>2, <1>3, <1>4, <1>5 DEF Out!Next

\* What the status byte is made of.
LEMMA StatusByte ==
  ASSUME NEW msg \in Int, NEW channel \in 1 .. 16, NEW status,
         status = Out!HighBits(msg) + (channel - 1)
  PROVE  status % 16 = channel - 1 /\ status \div 16 = (msg \div 16) % 16
  BY DEF Out!HighBits

\* The bytes of the last message, whatever is done after it.
LEMMA NextSent ==
  OutInv /\ Out!Next => SentAsAsked'
  <1> SUFFICES ASSUME OutInv, Out!Next PROVE SentAsAsked'
    OBVIOUS
  <1> USE DEF SentAsAsked, Out!SentAsAsked
  <1>1. ASSUME Out!Quietly PROVE SentAsAsked'
    BY <1>1 DEF Out!Quietly
  <1>2. ASSUME NEW num \in OutDevices, NEW channel \in Channels,
               NEW key \in DataBytes, NEW vel \in DataBytes, NEW msg \in DataBytes,
               Out!plPlayNote(num, channel, key, vel, msg)
        PROVE  SentAsAsked'
    <2> DEFINE k == Out!GetMidiOutEntry(num)
               message == [handle |-> pMidiOutDevList[k].Handle,
                           status |-> Out!HighBits(msg) + (channel - 1),
                           key |-> Out!SevenBits(key), vel |-> Out!SevenBits(vel)]
               call == [num |-> num, channel |-> channel, key |-> key, vel |-> vel, msg |-> msg]
    <2>1. CASE Out!Nothing
      BY <1>1, <2>1 DEF Out!Nothing
    <2>2. CASE /\ k # 0 /\ channel \in 1 .. 16
               /\ sent' = message /\ asked' = call
               /\ UNCHANGED <<pMidiOutDevList, given, lost>>
      <3>1. k \in 1 .. Len(pMidiOutDevList) /\ pMidiOutDevList[k].Number = num
        BY <2>2, EntryFound DEF OutInv
      <3>2. message.handle \in DOMAIN given \ lost /\ given[message.handle] = num
        BY <3>1 DEF OutInv, Paired
      <3>3. key \in Int /\ vel \in Int /\ msg \in Int
        BY OutAssumption
      <3>4. message.key \in 0 .. 127 /\ message.vel \in 0 .. 127
        BY <3>3 DEF Out!SevenBits
      <3>5. message.status % 16 = channel - 1 /\ message.status \div 16 = (msg \div 16) % 16
        BY <2>2, <3>3, StatusByte
      <3> QED BY <2>2, <3>2, <3>4, <3>5
    <2> QED BY <1>2, <2>1, <2>2 DEF Out!plPlayNote, Out!MidiSend
  <1>3. ASSUME NEW num \in OutDevices, Out!plOpenMidiOut(num) \/ Out!plCloseMidiOut(num)
        PROVE  SentAsAsked'
    BY <1>1, <1>3 DEF Out!plOpenMidiOut, Out!plCloseMidiOut, Out!Nothing
  <1> QED BY <1>2, <1>3 DEF Out!Next

\* The handles given out are those of devices, and what a call answers.
OutTyped == Out!Range(given) \subseteq OutDevices /\ result \in -4 .. 2

LEMMA NextOutTyped == OutTyped /\ [Out!Next]_outVars => OutTyped'
  <1> SUFFICES ASSUME OutTyped, [Out!Next]_outVars PROVE OutTyped'
    OBVIOUS
  <1>1. (\A h \in DOMAIN given : given[h] \in OutDevices) /\ result \in -4 .. 2
    BY DEF OutTyped, Out!Range
  <1>2. (\A h \in DOMAIN given' : given'[h] \in OutDevices) /\ result' \in -4 .. 2 => OutTyped'
    BY DEF OutTyped, Out!Range
  <1>3. ASSUME NEW num \in OutDevices, Out!plOpenMidiOut(num) PROVE OutTyped'
    <2>1. result' \in -4 .. 2
      <3>1. \/ result' = -1 \/ result' = Out!Raised \/ result' = -2 \/ result' = -3
            \/ result' = 0 \/ result' = -4
        BY <1>3, Zenon DEF Out!plOpenMidiOut, Out!WrongArguments, Out!Answers
      <3> QED BY <3>1 DEF Out!Raised
    <2>2. UNCHANGED given \/ \E handle \in OutHandles : Out!midiOutOpen(num, handle)
      BY <1>3 DEF Out!plOpenMidiOut, Out!Nothing
    <2>3. \A h \in DOMAIN given' : given'[h] \in OutDevices
      <3>1. CASE UNCHANGED given
        BY <1>1, <3>1
      <3>2. ASSUME NEW handle \in OutHandles, Out!midiOutOpen(num, handle)
            PROVE  \A h \in DOMAIN given' : given'[h] \in OutDevices
        <4>1. given' = [h \in DOMAIN given \cup {handle} |-> IF h = handle THEN num ELSE given[h]]
          BY <3>2 DEF Out!midiOutOpen
        <4> QED BY <1>1, <4>1
      <3> QED BY <2>2, <3>1, <3>2
    <2> QED BY <1>2, <2>1, <2>3
  <1>4. ASSUME NEW num \in OutDevices, Out!plCloseMidiOut(num) PROVE OutTyped'
    <2>1. result' \in -4 .. 2
      BY <1>4 DEF Out!plCloseMidiOut, Out!WrongArguments, Out!Answers, Out!Raised
    <2>2. UNCHANGED given \/ \E handle : given' = [h \in DOMAIN given \ {handle} |-> given[h]]
      BY <1>4 DEF Out!plCloseMidiOut, Out!Nothing, Out!midiOutClose
    <2>3. \A h \in DOMAIN given' : given'[h] \in OutDevices
      BY <1>1, <2>2
    <2> QED BY <1>2, <2>1, <2>3
  <1>5. ASSUME NEW num \in OutDevices, NEW channel \in Channels,
               NEW key \in DataBytes, NEW vel \in DataBytes, NEW msg \in DataBytes,
               Out!plPlayNote(num, channel, key, vel, msg)
        PROVE  OutTyped'
    <2>1. result' \in -4 .. 2 /\ UNCHANGED given
      BY <1>5 DEF Out!plPlayNote, Out!Nothing, Out!Answers, Out!Raised, Out!Yields
    <2> QED BY <1>1, <1>2, <2>1
  <1>6. CASE UNCHANGED outVars
    BY <1>1, <1>2, <1>6 DEF outVars
  <1> QED BY <1>3, <1>4, <1>5, <1>6 DEF Out!Next

-----------------------------------------------------------------------------
(* probit                                                                  *)

\* The operators of the calls are those of the words.
LEMMA SameWords ==
  /\ Bit!Pow2 = Pow2 /\ Bit!Zero = Zero /\ Bit!Byte1 = Byte1 /\ Bit!NoDigits = NoDigits
  /\ Bit!Exact = Exact
  /\ \A a : Bit!barg(a) = barg(a)
  /\ \A b : Bit!Unsigned(b) = Unsigned(b) /\ Bit!Signed(b) = Signed(b) /\ Bit!BRET(b) = BRET(b)
            /\ Bit!ShiftCount(b) = ShiftCount(b)
  /\ \A n : Bit!SignOf(n) = WithSign(n)
  <1>1. Bit!Pow2 = Pow2 /\ Bit!Positions = Positions
    BY Zenon DEF Bit!Pow2, Pow2, Bit!Positions, Positions
  <1>2. Bit!Zero = Zero /\ Bit!Byte1 = Byte1 /\ Bit!NoDigits = NoDigits /\ Bit!Exact = Exact
    BY <1>1 DEF Bit!Zero, Zero, Bit!Byte1, Byte1, Bit!NoDigits, NoDigits, Bit!Exact, Exact
  <1>3. \A a : Bit!barg(a) = barg(a)
    <2>1. Bit!Added = Added
      BY <1>1 DEF Bit!Added, Added
    <2>2. \A n : Bit!Exponent(n) = Exponent(n)
      BY <1>1, Zenon DEF Bit!Exponent, Exponent
    <2>3. \A n, d : Bit!Nearest(n, d) = Nearest(n, d)
      BY Zenon DEF Bit!Nearest, Nearest
    <2>4. \A n : Bit!Significand(n) = Significand(n)
      BY <1>1, <2>2, <2>3, Zenon DEF Bit!Significand, Significand
    <2> QED BY <1>1, <2>1, <2>4, Zenon DEF Bit!barg, barg
  <1>4. \A b : Bit!Low(b) = Low(b)
    BY <1>1 DEF Bit!Low, Low
  <1>5. \A b : Bit!Unsigned(b) = Unsigned(b)
    BY <1>4 DEF Bit!Unsigned, Unsigned
  <1>6. \A b : Bit!Signed(b) = Signed(b)
    BY <1>1, <1>5 DEF Bit!Signed, Signed
  <1>7. \A b : Bit!BRET(b) = BRET(b) /\ Bit!ShiftCount(b) = ShiftCount(b)
    BY <1>5, <1>6 DEF Bit!BRET, BRET, Bit!ShiftCount, ShiftCount
  <1>8. \A n : Bit!SignOf(n) = WithSign(n)
    BY <1>1 DEF Bit!SignOf, WithSign
  <1> QED BY <1>1, <1>2, <1>3, <1>5, <1>6, <1>7, <1>8

LEMMA SameLogic ==
  /\ \A b : Bit!Not(b) = Not(b)
  /\ \A a, b : Bit!And(a, b) = And(a, b) /\ Bit!Or(a, b) = Or(a, b) /\ Bit!Xor(a, b) = Xor(a, b)
  <1>1. Bit!Positions = Positions
    BY DEF Bit!Positions, Positions
  <1> QED BY <1>1 DEF Bit!Not, Not, Bit!And, And, Bit!Or, Or, Bit!Xor, Xor

LEMMA SameShifts ==
  /\ \A b, n : Bit!bshl(b, n) = bshl(b, n) /\ Bit!bshr(b, n) = bshr(b, n)
               /\ Bit!bsar(b, n) = bsar(b, n)
  /\ \A b, n : Bit!brol(b, n) = brol(b, n) /\ Bit!bror(b, n) = bror(b, n)
  /\ \A b : Bit!bit_bswap(b) = bit_bswap(b)
  <1>1. Bit!Positions = Positions
    BY DEF Bit!Positions, Positions
  <1>2. \A b, n : Bit!bshl(b, n) = bshl(b, n) /\ Bit!bshr(b, n) = bshr(b, n)
                  /\ Bit!bsar(b, n) = bsar(b, n)
    BY <1>1 DEF Bit!bshl, bshl, Bit!bshr, bshr, Bit!bsar, bsar
  <1>3. \A c, b, n : Bit!ByTheRest(c, b, n) = ByTheRest(c, b, n)
    BY SameWords DEF Bit!ByTheRest, ByTheRest
  <1>4. \A b, n : Bit!brol(b, n) = brol(b, n) /\ Bit!bror(b, n) = bror(b, n)
    BY <1>2, <1>3, SameLogic, Zenon DEF Bit!brol, brol, Bit!bror, bror
  <1>5. \A b : Bit!bit_bswap(b) = bit_bswap(b)
    BY <1>2, SameLogic, SameWords, Zenon DEF Bit!bit_bswap, bit_bswap
  <1> QED BY <1>2, <1>4, <1>5

LEMMA SameDigits ==
  \A b, n : Bit!bit_tohex(b, n) = bit_tohex(b, n) /\ Bit!bit_tobin(b, n) = bit_tobin(b, n)
  <1>1. Bit!Positions = Positions
    BY DEF Bit!Positions, Positions
  <1>2. \A b, d, bits : Bit!Digit(b, d, bits) = Digit(b, d, bits)
    BY <1>1, SameWords DEF Bit!Digit, Digit
  <1>3. \A b, n, bits : Bit!Digits(b, n, bits) = Digits(b, n, bits)
    BY <1>2, SameWords DEF Bit!Digits, Digits
  <1>4. \A n, most : Bit!AtMost(n, most) = AtMost(n, most) /\ Bit!Negated(n) = Negated(n)
    BY SameWords DEF Bit!AtMost, AtMost, Bit!Negated, Negated
  <1> QED BY <1>3, <1>4 DEF Bit!bit_tohex, bit_tohex, Bit!bit_tobin, bit_tobin

\* What a function has returned is made of the words of its arguments.
UnaryReturned ==
  /\ op = "tobit" => res = BRET(barg(x))
  /\ op = "bnot"  => res = BRET(Not(barg(x)))
  /\ op = "bswap" => res = BRET(bit_bswap(barg(x)))

LogicReturned ==
  /\ op = "band" => res = BRET(And(barg(x), barg(y)))
  /\ op = "bor"  => res = BRET(Or(barg(x), barg(y)))
  /\ op = "bxor" => res = BRET(Xor(barg(x), barg(y)))

ShiftReturned ==
  /\ op = "lshift"  => res = BRET(bshl(barg(x), ShiftCount(barg(y))))
  /\ op = "rshift"  => res = BRET(bshr(barg(x), ShiftCount(barg(y))))
  /\ op = "arshift" => res = BRET(bsar(barg(x), ShiftCount(barg(y))))
  /\ op = "rol"     => \E r \in brol(barg(x), ShiftCount(barg(y))) : res = BRET(r)
  /\ op = "ror"     => \E r \in bror(barg(x), ShiftCount(barg(y))) : res = BRET(r)

DigitsReturned ==
  /\ op = "tohex" => res = bit_tohex(barg(x), Signed(barg(y)))
  /\ op = "tobin" => res = bit_tobin(barg(x), Signed(barg(y)))

Functions ==
  {"tobit", "bnot", "bswap"} \cup {"band", "bor", "bxor"}
    \cup {"lshift", "rshift", "arshift", "rol", "ror"} \cup {"tohex", "tobin"}

SBits == -Pow2[W - 1] .. Pow2[W - 1] - 1

Returned ==
  /\ x \in Numbers \cup {0} \cup SBits /\ y \in Counts \cup {0}
  /\ op \in Functions \/ (op \in {"none", "typerror"} /\ res = 0)
  /\ UnaryReturned /\ LogicReturned /\ ShiftReturned /\ DigitsReturned

LEMMA InitBit == Bit!Init => Returned
  BY DEF Bit!Init, Returned, UnaryReturned, LogicReturned, ShiftReturned, DigitsReturned

\* The arguments are whole numbers of a double's size, their words words and their counts
\* below the width; below 2^51 they are taken for what they are.
LEMMA Arguments ==
  ASSUME Returned
  PROVE  /\ x \in Whole /\ y \in Whole /\ barg(x) \in Word /\ barg(y) \in Word
         /\ ShiftCount(barg(y)) \in Positions
         /\ Bit!Faithful => /\ x \in Exact /\ y \in Exact
                            /\ Unsigned(barg(x)) = Bit!u /\ ShiftCount(barg(y)) = y % W
                            /\ Signed(barg(y)) = WithSign(y % Pow2[W])
  <1>1. SBits \subseteq Whole
    <2>1. W - 1 \in Nat /\ W - 1 <= MaxExponent /\ MaxExponent <= MaxExponent + 1
          /\ MaxExponent \in Nat /\ W - 1 \in 0 .. MaxExponent + 1
          /\ MaxExponent \in 0 .. MaxExponent + 1
      BY Widths
    <2>2. PICK k \in Nat : k = MaxExponent - 1 /\ k + 1 = MaxExponent /\ W - 1 <= k
                           /\ k \in 0 .. MaxExponent /\ k \in 0 .. MaxExponent + 1
      BY Widths
    <2>3. Pow2[W - 1] <= Pow2[k]
      BY <2>1, <2>2, PowersGrow
    <2>4. Pow2[MaxExponent] = 2 * Pow2[k] /\ Pow2[W - 1] \in Int /\ Pow2[k] \in Int /\ Pow2[k] > 0
      BY <2>1, <2>2, AllPowers
    <2> QED BY <2>3, <2>4 DEF SBits, Whole
  <1>2. 0 \in Whole
    BY AddedFacts, AllPowers, Widths DEF Whole
  <1>3. x \in Whole /\ y \in Whole
    BY <1>1, <1>2, InputsAssumption DEF Returned
  <1>4. barg(x) \in Word /\ barg(y) \in Word
    BY <1>3, BargWord
  <1>5. ShiftCount(barg(y)) \in Positions
    <2>1. W \in 0 .. W /\ W \in Int /\ W > 0
      BY Widths
    <2>2. Unsigned(barg(y)) \in Int
      BY <1>4, <2>1, Halves
    <2> HIDE DEF Positions
    <2>3. Unsigned(barg(y)) % W \in 0 .. W - 1
      BY <2>1, <2>2, Divided
    <2> QED BY <2>3 DEF ShiftCount, Positions
  <1>6. ASSUME Bit!Faithful
        PROVE  /\ x \in Exact /\ y \in Exact
               /\ Unsigned(barg(x)) = Bit!u /\ ShiftCount(barg(y)) = y % W
               /\ Signed(barg(y)) = WithSign(y % Pow2[W])
    <2>1. x \in Exact /\ y \in Exact
      BY <1>6, SameWords DEF Bit!Faithful
    <2>2. Unsigned(barg(x)) = Bit!u
      BY <2>1, UnsignedOfBarg, SameWords DEF Bit!u
    <2>3. Signed(barg(y)) = WithSign(y % Pow2[W])
      BY <1>4, <2>1, UnsignedOfBarg, SignedFacts
    <2> QED BY <2>1, <2>2, <2>3, CountOfBarg
  <1> QED BY <1>3, <1>4, <1>5, <1>6

LEMMA NextBit == Returned /\ [Bit!Next]_bitVars => Returned'
  <1> SUFFICES ASSUME Returned, [Bit!Next]_bitVars PROVE Returned'
    OBVIOUS
  <1>1. ASSUME NEW a \in Numbers, Bit!Unary(a) PROVE Returned'
    <2>1. x' = a /\ y' = 0 /\ op' \in {"tobit", "bnot", "bswap"}
      BY <1>1 DEF Bit!Unary, Bit!Call
    <2>2. UnaryReturned'
      BY <1>1, SameWords, SameLogic, SameShifts DEF Bit!Unary, Bit!Call, UnaryReturned
    <2> QED BY <2>1, <2>2 DEF Returned, LogicReturned, ShiftReturned, DigitsReturned, Functions
  <1>2. ASSUME NEW name, NEW a \in Numbers \cup {0} \cup SBits, NEW n \in Counts,
               Bit!Round(name, a, n)
        PROVE  Returned'
    <2>1. x' = a /\ y' = n /\ op' \in {"band", "bor", "bxor"}
      BY <1>2 DEF Bit!Round, Bit!Call
    <2>2. LogicReturned'
      BY <1>2, SameWords, SameLogic DEF Bit!Round, Bit!Call, LogicReturned
    <2> QED BY <2>1, <2>2 DEF Returned, UnaryReturned, ShiftReturned, DigitsReturned, Functions
  <1>7. ASSUME NEW n \in Counts, Bit!Operand(n) PROVE Returned'
    <2>1. op \in {"band", "bor", "bxor"} /\ Bit!Round(op, res, n)
      BY <1>7 DEF Bit!Operand, Bit!Round
    <2>2. res \in SBits
      <3>1. barg(x) \in Word /\ barg(y) \in Word
        BY Arguments
      <3>2. \A w \in Word : BRET(w) \in SBits
        BY SignedFacts DEF BRET, SBits
      <3> QED BY <2>1, <3>1, <3>2, LogicWords DEF Returned, LogicReturned
    <2> QED BY <1>2, <2>1, <2>2
  <1>3. ASSUME NEW a \in Numbers, NEW n \in Counts, Bit!Shift(a, n) PROVE Returned'
    <2> DEFINE b == barg(a)  count == ShiftCount(barg(n))
    <2>1. /\ x' = a /\ y' = n
          /\ \/ op' = "lshift" /\ res' = BRET(bshl(b, count))
             \/ op' = "rshift" /\ res' = BRET(bshr(b, count))
             \/ op' = "arshift" /\ res' = BRET(bsar(b, count))
             \/ op' = "rol" /\ \E r \in brol(b, count) : res' = BRET(r)
             \/ op' = "ror" /\ \E r \in bror(b, count) : res' = BRET(r)
      <3>1. /\ Bit!barg(a) = b /\ Bit!ShiftCount(Bit!barg(n)) = count
            /\ \A w : Bit!BRET(w) = BRET(w)
        BY SameWords
      <3> HIDE DEF b, count
      <3>2. /\ Bit!bshl(b, count) = bshl(b, count) /\ Bit!bshr(b, count) = bshr(b, count)
            /\ Bit!bsar(b, count) = bsar(b, count)
            /\ Bit!brol(b, count) = brol(b, count) /\ Bit!bror(b, count) = bror(b, count)
        BY SameShifts
      <3> QED BY <1>3, <3>1, <3>2 DEF Bit!Shift, Bit!Call
    <2>2. op' \in {"lshift", "rshift", "arshift", "rol", "ror"}
      BY <2>1
    <2>3. ShiftReturned'
      BY <2>1 DEF ShiftReturned
    <2> QED BY <2>1, <2>2, <2>3 DEF Returned, UnaryReturned, LogicReturned, DigitsReturned, Functions
  <1>4. ASSUME NEW a \in Numbers, NEW n \in Counts, Bit!ToDigits(a, n) PROVE Returned'
    <2>1. x' = a /\ y' = n /\ op' \in {"tohex", "tobin"}
      BY <1>4 DEF Bit!ToDigits, Bit!Call
    <2>2. DigitsReturned'
      BY <1>4, SameWords, SameDigits DEF Bit!ToDigits, Bit!Call, DigitsReturned
    <2> QED BY <2>1, <2>2 DEF Returned, UnaryReturned, LogicReturned, ShiftReturned, Functions
  <1>5. ASSUME Bit!TypeError \/ Bit!Return PROVE Returned'
    BY <1>5 DEF Bit!TypeError, Bit!Return, Bit!Call, Returned, UnaryReturned, LogicReturned,
                ShiftReturned, DigitsReturned
  <1>6. CASE UNCHANGED bitVars
    BY <1>6 DEF bitVars, Returned, UnaryReturned, LogicReturned, ShiftReturned, DigitsReturned
  <1> QED BY <1>1, <1>2, <1>3, <1>4, <1>5, <1>6, <1>7 DEF Bit!Next, Bit!Logic

\* The operators return what arithmetic says.
LEMMA OperatorsReturn == Returned => OperatorsArithmetic
  <1> SUFFICES ASSUME Returned, Bit!Faithful PROVE OperatorsArithmetic
    BY Zenon DEF OperatorsArithmetic, Bit!OperatorsArithmetic
  <1> DEFINE b == barg(x)  n == ShiftCount(barg(y))  m == Pow2[n]  U == Bit!u
  <1>0. /\ b \in Word /\ Unsigned(b) = U /\ n \in Positions /\ n \in 0 .. W
        /\ Bit!Pow2 = Pow2 /\ y % W = n
        /\ \A w : Bit!SignOf(w) = WithSign(w)
    BY Arguments, SameWords, WAssumption DEF Positions
  <1>1. UnaryReturned /\ LogicReturned /\ ShiftReturned
    BY DEF Returned
  <1> HIDE DEF b, n, U
  <1>2. op = "lshift" => res = WithSign((U * m) % Pow2[W])
    <2>1. Signed(bshl(b, n)) = WithSign((U * m) % Pow2[W])
      BY <1>0, ShiftedBits, SignedFacts, ShlValue
    <2> QED BY <1>1, <2>1 DEF ShiftReturned, BRET, b, n
  <1>3. op = "rshift" => res = WithSign(U \div m)
    <2>1. Signed(bshr(b, n)) = WithSign(U \div m)
      BY <1>0, ShiftedBits, SignedFacts, Halves
    <2> QED BY <1>1, <2>1 DEF ShiftReturned, BRET, b, n
  <1>4. op = "arshift" => res = WithSign(U) \div m
    <2>1. Signed(bsar(b, n)) = WithSign(U) \div m
      BY <1>0, SignedFacts, SarValue
    <2> QED BY <1>1, <2>1 DEF ShiftReturned, BRET, b, n
  <1>5. op = "tobit" => res = WithSign(U)
    <2>1. Signed(b) = WithSign(U)
      BY <1>0, SignedFacts
    <2> QED BY <1>1, <2>1 DEF UnaryReturned, BRET, b
  <1>6. op = "bnot" => res = -1 - WithSign(U)
    <2>1. Signed(Not(b)) = -1 - WithSign(U)
      BY <1>0, SignedFacts, NotValue
    <2> QED BY <1>1, <2>1 DEF UnaryReturned, BRET, b
  <1> HIDE DEF m
  <1>7. m = Bit!Pow2[y % W]
    BY <1>0 DEF m
  <1>8. ASSUME NEW k \in Bit!Positions
        PROVE  /\ op = "band" => Bit!Binary(res, k) = Bit!Binary(x, k) * Bit!Binary(y, k)
               /\ op = "bor"  => Bit!Binary(res, k)
                    = Bit!Binary(x, k) + Bit!Binary(y, k) - Bit!Binary(x, k) * Bit!Binary(y, k)
               /\ op = "bxor" =>
                    (Bit!Binary(x, k) + Bit!Binary(y, k) + Bit!Binary(res, k)) % 2 = 0
    <2>1. x \in Exact /\ y \in Exact /\ k \in Positions
      BY Arguments DEF Bit!Positions, Positions
    <2>2. \A w : Bit!Binary(w, k) = (w \div Pow2[k]) % 2
      BY <1>0 DEF Bit!Binary
    <2>3. PICK d, e : d = (x \div Pow2[k]) % 2 /\ e = (y \div Pow2[k]) % 2
      OBVIOUS
    <2>4. /\ (BRET(And(barg(x), barg(y))) \div Pow2[k]) % 2 = d * e
          /\ (BRET(Or(barg(x), barg(y))) \div Pow2[k]) % 2 = d + e - d * e
          /\ (d + e + ((BRET(Xor(barg(x), barg(y))) \div Pow2[k]) % 2)) % 2 = 0
      BY <2>1, <2>3, LogicDigits
    <2>5. Bit!Binary(x, k) = d /\ Bit!Binary(y, k) = e
      BY <2>2, <2>3
    <2>6. Bit!Binary(res, k) = (res \div Pow2[k]) % 2
      BY <2>2
    <2> QED BY <1>1, <2>4, <2>5, <2>6, Zenon DEF LogicReturned
  <1> QED BY <1>0, <1>2, <1>3, <1>4, <1>5, <1>6, <1>7, <1>8, Zenon
          DEF OperatorsArithmetic, Bit!OperatorsArithmetic, U

\* The rotations return what was pushed out at the other end, and take it back.
LEMMA RotationsReturn == Returned => RotationsUndo
  <1> SUFFICES ASSUME Returned PROVE RotationsUndo
    OBVIOUS
  <1> DEFINE b == barg(x)  n == ShiftCount(barg(y))
             value == Unsigned(b) * Pow2[n]
             turned == Bit!u * Bit!Pow2[y % W]
  <1>0. /\ b \in Word /\ n \in Positions
        /\ Bit!Pow2 = Pow2 /\ Bit!ShiftCount(Bit!barg(y)) = n /\ Bit!barg(x) = b
        /\ \A w : Bit!SignOf(w) = WithSign(w) /\ Bit!barg(w) = barg(w)
    BY Arguments, SameWords
  <1>1. UnaryReturned /\ ShiftReturned
    BY DEF Returned
  <1>2. Bit!Faithful => Unsigned(b) = Bit!u /\ value = turned
    BY Arguments, SameWords
  <1> HIDE DEF b, n, value, turned
  <1>3. op = "rol" => /\ res = WithSign((value % Pow2[W]) + (value \div Pow2[W]))
                      /\ bror(barg(res), n) = {b}
    <2> SUFFICES ASSUME op = "rol"
                 PROVE  /\ res = WithSign((value % Pow2[W]) + (value \div Pow2[W]))
                        /\ bror(barg(res), n) = {b}
      OBVIOUS
    <2>1. PICK r \in brol(b, n) : res = BRET(r)
      BY <1>1 DEF ShiftReturned, b, n
    <2>2. r \in Word /\ barg(res) = r
      BY <1>0, <2>1, RotatedWords, WordComesBack
    <2>3. bror(r, n) = {b}
      BY <1>0, RotateBack
    <2>4. Unsigned(r) = (value % Pow2[W]) + (value \div Pow2[W])
      BY <1>0, RolValue DEF value
    <2>5. res = WithSign(Unsigned(r))
      BY <2>1, <2>2, SignedFacts DEF BRET
    <2> QED BY <2>2, <2>3, <2>4, <2>5
  <1>4. op = "ror" => brol(barg(res), n) = {b}
    <2> SUFFICES ASSUME op = "ror" PROVE brol(barg(res), n) = {b}
      OBVIOUS
    <2>1. PICK r \in bror(b, n) : res = BRET(r)
      BY <1>1 DEF ShiftReturned, b, n
    <2>2. r \in Word /\ barg(res) = r
      BY <1>0, <2>1, RotatedWords, WordComesBack
    <2> QED BY <1>0, <2>2, RotateForth
  <1>5. op = "bswap" => /\ bit_bswap(barg(res)) = b
                        /\ res % Pow2[W \div 4] = Unsigned(b) \div Pow2[3 * (W \div 4)]
    <2> SUFFICES ASSUME op = "bswap"
                 PROVE  /\ bit_bswap(barg(res)) = b
                        /\ res % Pow2[W \div 4] = Unsigned(b) \div Pow2[3 * (W \div 4)]
      OBVIOUS
    <2>1. res = BRET(bit_bswap(b))
      BY <1>1 DEF UnaryReturned, b
    <2>2. bit_bswap(b) \in Word
      BY <1>0, SwapBits
    <2>3. barg(res) = bit_bswap(b)
      BY <2>1, <2>2, WordComesBack
    <2>4. BRET(bit_bswap(b)) % Pow2[W \div 4] = Unsigned(b) \div Pow2[3 * (W \div 4)]
      BY <1>0, SwapLow
    <2> QED BY <1>0, <2>1, <2>3, <2>4, SwapTwice
  <1>6. op = "rol" =>
          /\ Bit!Faithful => res = Bit!SignOf((turned % Bit!Pow2[W]) + (turned \div Bit!Pow2[W]))
          /\ Bit!bror(Bit!barg(res), Bit!ShiftCount(Bit!barg(y))) = {Bit!barg(x)}
    BY <1>0, <1>2, <1>3, SameShifts, Zenon
  <1>7. op = "ror" => Bit!brol(Bit!barg(res), Bit!ShiftCount(Bit!barg(y))) = {Bit!barg(x)}
    BY <1>0, <1>4, SameShifts, Zenon
  <1>8. op = "bswap" =>
          /\ Bit!bit_bswap(Bit!barg(res)) = Bit!barg(x)
          /\ Bit!Faithful => res % Bit!Pow2[W \div 4] = Bit!u \div Bit!Pow2[3 * (W \div 4)]
    BY <1>0, <1>2, <1>5, SameShifts, Zenon
  <1> QED BY <1>6, <1>7, <1>8, Zenon DEF RotationsUndo, Bit!RotationsUndo, turned

\* What k digits of a word are
LEMMA DigitsBack ==
  ASSUME NEW b \in Word, NEW bits \in {1, 4}, NEW k \in Nat, k <= W \div bits,
         NEW d, d = Digits(b, k, bits)
  PROVE  /\ d # NoDigits /\ Len(d) = k /\ DOMAIN d = 1 .. k
         /\ \A m \in 1 .. k : d[m] \in 0 .. 15
         /\ Bit!ReadBack(d, bits)[Len(d)] = Unsigned(b) % Pow2[bits * Len(d)]
  <1>1. /\ W \in Nat /\ W >= 4 /\ bits \in 1 .. W /\ bits \in 0 .. W /\ bits \in Nat
        /\ bits * k \in Nat /\ bits * k <= W
    <2>1. CASE bits = 1
      BY <2>1, WAssumption
    <2>2. CASE bits = 4
      BY <2>2, WAssumption
    <2> QED BY <2>1, <2>2
  <1>2. Pow2[bits] \in 2 .. 16
    <2>1. /\ Pow2[0] = 1 /\ Pow2[0 + 1] = 2 * Pow2[0] /\ Pow2[1 + 1] = 2 * Pow2[1]
          /\ Pow2[2 + 1] = 2 * Pow2[2] /\ Pow2[3 + 1] = 2 * Pow2[3]
      BY <1>1, Powers
    <2>2. Pow2[1] = 2 /\ Pow2[4] = 16
      BY <2>1
    <2> QED BY <2>2
  <1>3. d = [m \in 1 .. k |-> Digit(b, k - m, bits)]
    BY DEF Digits
  <1>4. Len(d) = k /\ DOMAIN d = 1 .. k
    BY <1>3
  <1>5. ASSUME NEW m \in 1 .. k PROVE d[m] \in 0 .. 15
    <2>1. k - m \in Nat /\ (k - m) + m = k
      OBVIOUS
    <2>2. (k - m) * bits \in Nat /\ (k - m) * bits + bits <= W
      <3>1. CASE bits = 1
        BY <1>1, <3>1
      <3>2. CASE bits = 4
        BY <1>1, <3>2
      <3> QED BY <3>1, <3>2
    <2>3. Digit(b, k - m, bits) \in 0 .. Pow2[bits] - 1
      BY <1>1, <2>1, <2>2, DigitValue
    <2>4. d[m] = Digit(b, k - m, bits)
      BY <1>3
    <2> QED BY <1>2, <2>3, <2>4
  <1>6. d # NoDigits
    <2>1. ASSUME d = NoDigits PROVE FALSE
      <3>1. k = 1 /\ d[1] = -1
        BY <1>4, <2>1 DEF NoDigits
      <3>2. d[1] \in 0 .. 15
        BY <1>5, <3>1
      <3> QED BY <3>1, <3>2
    <2> QED BY <2>1
  <1>7. d \in [1 .. k -> Int]
    <2>1. \A m \in 1 .. k : d[m] \in Int
      BY <1>5
    <2> QED BY <1>3, <2>1
  <1> DEFINE Read(g) == [m \in 0 .. Len(d) |-> IF m = 0 THEN 0 ELSE g[m - 1] * Bit!Pow2[bits] + d[m]]
             f == Bit!ReadBack(d, bits)
  <1>8. /\ Pow2[bits] \in Int /\ 0 \in Int /\ Bit!Pow2 = Pow2
    BY <1>2, SameWords
  <1>9. PICK g : Steps(g, k, Pow2[bits], 0, d)
    BY <1>7, <1>8, Recurrence
  <1>10. \A m \in 0 .. k : g[m] \in Int
    BY <1>7, <1>8, <1>9, RecurrenceType
  <1>11. g = Read(g)
    <2>1. ASSUME NEW m \in 0 .. k
          PROVE  g[m] = IF m = 0 THEN 0 ELSE g[m - 1] * Pow2[bits] + d[m]
      <3>1. g[m] = IF m = 0 THEN 0 ELSE Pow2[bits] * g[m - 1] + d[m]
        BY <1>9 DEF Steps
      <3>2. m # 0 => m - 1 \in 0 .. k
        OBVIOUS
      <3> QED BY <1>8, <1>10, <3>1, <3>2
    <2>2. g = [m \in 0 .. k |-> g[m]]
      BY <1>9 DEF Steps
    <2> QED BY <1>4, <1>8, <2>1, <2>2
  <1>12. f = Read(f)
    BY <1>11 DEF Bit!ReadBack
  <1>13. f[0] = 0 /\ \A m \in 1 .. k : f[m] = f[m - 1] * Pow2[bits] + d[m]
    <2> HIDE DEF f
    <2> QED BY <1>4, <1>8, <1>12
  <1> HIDE DEF f
  <1>14. f[k] = Unsigned(b) % Pow2[bits * k]
    <2>1. \A m \in 1 .. k : d[m] = Digit(b, k - m, bits)
      BY <1>3
    <2>2. Reads(f, b, bits, k)
      BY <1>13, <2>1, Zenon DEF Reads
    <2> QED BY <1>1, <2>2, DigitsRead
  <1> QED BY <1>4, <1>5, <1>6, <1>14 DEF f

LEMMA DigitsWorth ==
  ASSUME NEW b \in Word, NEW bits \in {1, 4}, NEW k \in Nat, k <= W \div bits
  PROVE  /\ Digits(b, k, bits) # NoDigits /\ Len(Digits(b, k, bits)) = k
         /\ Bit!ReadBack(Digits(b, k, bits), bits)[k] = Unsigned(b) % Pow2[bits * k]
  <1> DEFINE d == Digits(b, k, bits)
  <1>1. PICK e : e = d
    OBVIOUS
  <1> HIDE DEF d
  <1>2. e = Digits(b, k, bits)
    BY <1>1 DEF d
  <1>3. /\ e # NoDigits /\ Len(e) = k
        /\ Bit!ReadBack(e, bits)[Len(e)] = Unsigned(b) % Pow2[bits * Len(e)]
    BY <1>2, DigitsBack
  <1> QED BY <1>2, <1>3

\* The digits read back, and when there are none.
LEMMA DigitsReturn == Returned => DigitsReadBack
  <1> SUFFICES ASSUME Returned, Bit!Faithful, op \in {"tohex", "tobin"} PROVE DigitsReadBack
    BY Zenon DEF DigitsReadBack, Bit!DigitsReadBack
  <1> DEFINE b == barg(x)  n == Signed(barg(y))  U == Bit!u
             bits == IF op = "tohex" THEN 4 ELSE 1
             abs == IF n < 0 THEN -n ELSE n
             most == W \div bits
             k == AtMost(abs, most)
  <1>0. /\ b \in Word /\ Unsigned(b) = U /\ Bit!Pow2 = Pow2
        /\ Bit!SignOf(y % Bit!Pow2[W]) = n /\ n \in -Pow2[W - 1] .. Pow2[W - 1] - 1
    BY Arguments, SameWords, SignedFacts
  <1>1. /\ op = "tohex" => res = bit_tohex(b, n)
        /\ op = "tobin" => res = bit_tobin(b, n)
    BY DEF Returned, DigitsReturned
  <1> HIDE DEF b, n, U
  <1>2. W \in Nat /\ W - 1 \in 0 .. W /\ W \div 1 = W /\ W \div 4 \in Nat
    BY WAssumption
  <1>3. Pow2[W - 1] \in Int /\ Pow2[W - 1] > 0 /\ n \in Int /\ n >= -Pow2[W - 1]
    BY <1>0, <1>2, Powers
  <1>4. bits \in {1, 4} /\ most \in Nat
    BY <1>2
  <1> DEFINE none == (op = "tohex" /\ n = -Pow2[W - 1]) \/ (op = "tobin" /\ n < 0)
  <1>5. CASE none
    <2>1. res = NoDigits
      <3>1. CASE op = "tohex"
        <4>1. n = -Pow2[W - 1] /\ n < 0 /\ Negated(n) = n
          BY <1>3, <1>5, <3>1 DEF Negated
        <4>2. AtMost(n, W \div 4) = n
          BY <1>2, <1>3, <4>1 DEF AtMost
        <4>3. res = Digits(b, n, 4)
          BY <1>1, <3>1, <4>1, <4>2 DEF bit_tohex
        <4> QED BY <4>1, <4>3 DEF Digits
      <3>2. CASE op = "tobin"
        <4>1. n < 0 /\ AtMost(n, W) = n
          BY <1>2, <1>3, <1>5, <3>2 DEF AtMost
        <4>2. res = Digits(b, n, 1)
          BY <1>1, <3>2, <4>1 DEF bit_tobin
        <4> QED BY <4>1, <4>2 DEF Digits
      <3> QED BY <3>1, <3>2
    <2>2. IF op = "tohex" THEN n = -Pow2[W - 1] ELSE n < 0
      BY <1>5
    <2> QED BY <1>0, <2>1, <2>2, SameWords DEF DigitsReadBack, Bit!DigitsReadBack
  <1>6. CASE ~none
    <2>1. abs \in Nat /\ k \in Nat /\ k <= most /\ k <= abs /\ (k = abs \/ k = most)
      BY <1>3, <1>4, <1>6 DEF AtMost
    <2>2. res = Digits(b, k, bits)
      <3>1. CASE op = "tohex"
        <4>1. (IF n < 0 THEN Negated(n) ELSE n) = abs
          BY <1>6, <3>1 DEF Negated
        <4> QED BY <1>1, <3>1, <4>1 DEF bit_tohex
      <3>2. CASE op = "tobin"
        <4>1. n = abs
          BY <1>3, <1>6, <3>2
        <4> QED BY <1>1, <1>2, <3>2, <4>1 DEF bit_tobin
      <3> QED BY <3>1, <3>2
    <2>3. /\ res # NoDigits /\ Len(res) = k
          /\ Bit!ReadBack(res, bits)[Len(res)] = U % Pow2[bits * Len(res)]
      <3>1. most = W \div bits
        OBVIOUS
      <3> HIDE DEF bits, abs, most, k
      <3>2. b \in Word /\ bits \in {1, 4} /\ k \in Nat /\ k <= W \div bits
        BY <1>0, <1>4, <2>1, <3>1
      <3>3. res # NoDigits /\ Len(res) = k
            /\ Bit!ReadBack(res, bits)[Len(res)] = Unsigned(b) % Pow2[bits * Len(res)]
        <4>1. /\ Digits(b, k, bits) # NoDigits /\ Len(Digits(b, k, bits)) = k
              /\ Bit!ReadBack(Digits(b, k, bits), bits)[k] = Unsigned(b) % Pow2[bits * k]
          BY <3>2, DigitsWorth
        <4>2. res # NoDigits /\ Len(res) = k
          BY <2>2, <4>1
        <4>3. Bit!ReadBack(res, bits)[k] = Unsigned(b) % Pow2[bits * k]
          BY <2>2, <4>1
        <4> QED BY <4>2, <4>3
      <3>4. Unsigned(b) = U
        BY <1>0
      <3> QED BY <3>3, <3>4, Zenon
    <2>4. Bit!Min({abs, most}) = k
      <3> HIDE DEF abs, most, k
      <3>1. k \in {abs, most} /\ \A m \in {abs, most} : k <= m
        BY <2>1
      <3>2. \A m \in {abs, most} : (\A w \in {abs, most} : m <= w) => m = k
        BY <1>4, <2>1
      <3> QED BY <3>1, <3>2 DEF Bit!Min
    <2> HIDE DEF bits, abs, k
    <2>5. /\ res # Bit!NoDigits /\ Len(res) = Bit!Min({abs, W \div bits})
          /\ Bit!ReadBack(res, bits)[Len(res)] = U % Bit!Pow2[bits * Len(res)]
      BY <1>0, <2>3, <2>4, SameWords
    <2> QED BY <1>0, <2>5 DEF DigitsReadBack, Bit!DigitsReadBack, bits, abs, U
  <1> QED BY <1>5, <1>6

\* Results are numbers of SBits, or digits.
LEMMA BitTypes == Returned => Bit!TypeOK
  <1> SUFFICES ASSUME Returned PROVE Bit!TypeOK
    OBVIOUS
  <1> DEFINE a == barg(x)  b == barg(y)  n == ShiftCount(barg(y))  c == Signed(barg(y))
  <1>0. /\ a \in Word /\ b \in Word /\ n \in Positions /\ n \in 0 .. W
        /\ W \in Nat /\ W - 1 \in 0 .. W /\ W \div 1 = W /\ W \div 4 \in Nat /\ W \div 4 <= W
    BY Arguments, WAssumption DEF Positions
  <1>1. \A w \in Word : BRET(w) \in SBits
    BY SignedFacts DEF BRET, SBits
  <1>2. 0 \in SBits
    BY <1>0, Powers DEF SBits
  <1>3. UnaryReturned /\ LogicReturned /\ ShiftReturned /\ DigitsReturned
    BY DEF Returned
  <1> HIDE DEF a, b, n, c
  <1>4. op \in {"tobit", "bnot", "bswap"} => res \in SBits
    <2>1. Not(a) \in Word /\ bit_bswap(a) \in Word
      BY <1>0, NotValue, SwapBits
    <2> QED BY <1>0, <1>1, <1>3, <2>1 DEF UnaryReturned, a
  <1>5. op \in {"band", "bor", "bxor"} => res \in SBits
    BY <1>0, <1>1, <1>3, LogicWords DEF LogicReturned, a, b
  <1>6. op \in {"lshift", "rshift", "arshift", "rol", "ror"} => res \in SBits
    <2>1. bshl(a, n) \in Word /\ bshr(a, n) \in Word /\ bsar(a, n) \in Word
      BY <1>0, ShiftedBits
    <2>2. brol(a, n) \subseteq Word /\ bror(a, n) \subseteq Word
      BY <1>0, RotatedWords
    <2> QED BY <1>1, <1>3, <2>1, <2>2 DEF ShiftReturned, a, n
  <1>7. op \in {"tohex", "tobin"} =>
          res = NoDigits \/ (Len(res) <= W /\ \A k \in DOMAIN res : res[k] \in 0 .. 15)
    <2>1. ASSUME NEW bits \in {1, 4}, NEW m \in Int, m <= W \div bits, res = Digits(a, m, bits)
          PROVE  res = NoDigits \/ (Len(res) <= W /\ \A k \in DOMAIN res : res[k] \in 0 .. 15)
      <3>1. CASE m < 0
        BY <2>1, <3>1 DEF Digits
      <3>2. CASE m >= 0
        <4>1. m \in Nat
          BY <3>2
        <4>2. Len(res) = m /\ DOMAIN res = 1 .. m /\ \A k \in 1 .. m : res[k] \in 0 .. 15
          BY <1>0, <2>1, <4>1, DigitsBack
        <4>3. m <= W
          BY <1>0, <2>1
        <4> QED BY <4>2, <4>3
      <3> QED BY <3>1, <3>2
    <2>2. c \in Int /\ \A w \in Int : Negated(w) \in Int
      <3>1. c \in Int
        BY <1>0, WordComesBack DEF c, b
      <3> QED BY <3>1 DEF Negated
    <2>3. CASE op = "tohex"
      <3> DEFINE m == AtMost(IF c < 0 THEN Negated(c) ELSE c, W \div 4)
      <3>1. m \in Int /\ m <= W \div 4
        BY <1>0, <2>2 DEF AtMost
      <3>2. res = Digits(a, m, 4)
        BY <1>3, <2>3 DEF DigitsReturned, bit_tohex, a, c
      <3> HIDE DEF m
      <3> QED BY <2>1, <3>1, <3>2
    <2>4. CASE op = "tobin"
      <3> DEFINE m == AtMost(c, W)
      <3>1. m \in Int /\ m <= W \div 1
        BY <1>0, <2>2 DEF AtMost
      <3>2. res = Digits(a, m, 1)
        BY <1>3, <2>4 DEF DigitsReturned, bit_tobin, a, c
      <3> HIDE DEF m
      <3> QED BY <2>1, <3>1, <3>2
    <2> QED BY <2>3, <2>4
  <1>8. op \notin {"tohex", "tobin"} => res \in SBits
    BY <1>2, <1>4, <1>5, <1>6 DEF Returned, Functions
  <1>9. x \in Numbers \cup {0} \cup SBits /\ y \in Counts \cup {0}
    BY DEF Returned
  <1>10. Bit!SBits = SBits
    BY SameWords DEF Bit!SBits, SBits
  <1> QED BY <1>7, <1>8, <1>9, <1>10, SameWords DEF Bit!TypeOK

-----------------------------------------------------------------------------
\* A script that uses another library leaves the output devices alone,
LEMMA LibNextOut == [LibNext]_LibVars => [Out!Next]_outVars
  BY DEF LibNext, LibVars, Probit, Proserial, Output

\* the last result of probit, and the serial line.
LEMMA LibNextBit == [LibNext]_LibVars => [Bit!Next]_bitVars
  BY DEF LibNext, LibVars, Probit, Proserial, Output

LEMMA LibNextSend == [LibNext]_LibVars => [Next]_vars
  BY DEF LibNext, LibVars, Probit, Proserial, Output

LEMMA OutAlways == LibSpec => []OutInv
  <1>1. LibInit => OutInv
    BY InitOut DEF LibInit
  <1>2. OutInv /\ [LibNext]_LibVars => OutInv'
    BY NextOut, LibNextOut
  <1> QED BY <1>1, <1>2, PTL DEF LibSpec

LEMMA BitAlways == LibSpec => []Returned
  <1>1. LibInit => Returned
    BY InitBit DEF LibInit
  <1>2. Returned /\ [LibNext]_LibVars => Returned'
    BY NextBit, LibNextBit
  <1> QED BY <1>1, <1>2, PTL DEF LibSpec

\* So the theorems about Spec in SerialProofs hold of every script of MCLibs.
LEMMA LibsSend == LibSpec => Spec
  BY LibNextSend, PTL DEF LibSpec, LibInit, Spec

LEMMA SendAlways == LibSpec => [](TypeOK /\ SendInv /\ TopInv)
  <1>1. LibInit => TypeOK /\ SendInv /\ TopInv
    BY InitSend DEF LibInit
  <1>2. TypeOK /\ SendInv /\ TopInv /\ [LibNext]_LibVars => (TypeOK /\ SendInv /\ TopInv)'
    BY NextType, NextSend, NextTop, LibNextSend
  <1> QED BY <1>1, <1>2, PTL DEF LibSpec

\* profibit.c, profiserial.c, profimidi.c: every step leaves the three libraries in their
\* types; a result of probit is an SBits or as many hexadecimal or binary digits as a
\* word has at most.
THEOREM LibsTyped == LibSpec => []LibsTypeOK
  <1>1. LibInit => OutTyped
    BY DEF LibInit, Out!Init, OutTyped, Out!Range
  <1>2. OutTyped /\ [LibNext]_LibVars => OutTyped'
    BY NextOutTyped, LibNextOut
  <1>3. OutInv /\ OutTyped => Out!TypeOK
    BY DEF OutInv, OutTyped, Out!TypeOK, Entries
  <1>4. TypeOK /\ Out!TypeOK /\ Bit!TypeOK => LibsTypeOK
    BY DEF LibsTypeOK
  <1> QED BY <1>1, <1>2, <1>3, <1>4, BitTypes, BitAlways, SendAlways, OutAlways, PTL DEF LibSpec

\* profibit.c, bit_lshift to bit_arshift, bit_tobit, bit_bnot, bit_band, bit_bor and
\* bit_bxor: with words and doubles of any size, for every whole number and count below
\* half of what barg adds (2^51), what the C operators make of the bits is the product,
\* the quotient and the complement of the number, modulo the word, and goes by the binary
\* digits of the two numbers.
THEOREM OperatorsAreArithmetic == LibSpec => []OperatorsArithmetic
  BY OperatorsReturn, BitAlways, PTL

\* profibit.c, brol, bror and bit_bswap: for every whole number of a double's size the word
\* that barg takes it for is back after the opposite rotation or a second swap, also after
\* a rotation by no bit, where C leaves the other shift undefined; below 2^51 the word is
\* the number's own.
THEOREM RotationsAreUndone == LibSpec => []RotationsUndo
  BY RotationsReturn, BitAlways, PTL

\* profibit.c, bit_tohex and bit_tobin: the digits are as many as asked for, or all there
\* are, and for a whole number below 2^51, asked for by such a number, read back give that
\* many low bits of it.
THEOREM DigitsAreReadBack == LibSpec => []DigitsReadBack
  BY DigitsReturn, BitAlways, PTL

\* profimidi.c, plOpenMidiOut and plCloseMidiOut: for any number of devices and handles,
\* each open handle that has not been lost is that of exactly one entry of the list, with
\* the device it was opened for, and no device has two entries.
THEOREM HandlesSafe == LibSpec => []HandlesAccounted
  <1>1. OutInv => HandlesAccounted
    BY PairedAccounts DEF OutInv
  <1> QED BY <1>1, OutAlways, PTL

\* profimidi.c, plPlayNote and MidiSend: whatever has been opened and closed before, a
\* message goes to the handle of the device the script has named, on its channel, and
\* its data bytes are data bytes.
THEOREM MessagesAsAsked == LibSpec => []SentAsAsked
  <1>1. LibInit => SentAsAsked
    BY DEF LibInit, Out!Init, SentAsAsked, Out!SentAsAsked
  <1>2. OutInv /\ SentAsAsked /\ [LibNext]_LibVars => SentAsAsked'
    <2>1. UNCHANGED outVars /\ SentAsAsked => SentAsAsked'
      BY DEF outVars, SentAsAsked, Out!SentAsAsked
    <2> QED BY <2>1, NextSent, LibNextOut
  <1> QED BY <1>1, <1>2, OutAlways, PTL DEF LibSpec
=============================================================================
