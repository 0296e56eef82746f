----------------------- MODULE PureAudioBufferProofs -----------------------
(***************************************************************************)
(* Proofs about PureAudioBuffer, for every size of the buffer and of the   *)
(* sequence number space.                                                  *)
(***************************************************************************)
EXTENDS PureAudioBuffer, TLAPS

\* The slot of a sequence number is one of the ring's.
LEMMA SlotType ==
  ASSUME NEW i \in Seqs
  PROVE  Slot(i) \in Slots
BY SizesAssumption DEF Slot, Slots, Seqs

\* An index that is about to be rolled over is one past a sequence number.
LEMMA RollType ==
  ASSUME NEW i \in 0..SeqSpace
  PROVE  Roll(i) \in Seqs
BY SizesAssumption DEF Roll, Seqs

LEMMA WriteAfterType ==
  ASSUME NEW i \in Seqs, NEW w \in Seqs, NEW r \in Seqs
  PROVE  /\ WriteAfter(i, w, r) \in 0..SeqSpace
         /\ Roll(WriteAfter(i, w, r)) \in Seqs
<1>1. WriteAfter(i, w, r) \in {w, i + 1}
  BY DEF WriteAfter
<1>2. WriteAfter(i, w, r) \in 0..SeqSpace
  BY <1>1, SizesAssumption DEF Seqs
<1>3. QED
  BY <1>2, RollType

LEMMA RestartType ==
  ASSUME writeIndex \in Seqs
  PROVE  Restart \in Seqs
BY SizesAssumption DEF Restart, Seqs

-----------------------------------------------------------------------------
(* What holds whatever the network does and however flush interleaves.     *)

WInv == TypeOK /\ NoLostWakeup

LEMMA InitWakeup == Init => WInv
<1> SUFFICES ASSUME Init PROVE WInv
  OBVIOUS
<1>1. readIndex \in Seqs /\ writeIndex \in Seqs /\ flushed \in 0..BufferFrames
  BY SizesAssumption DEF Init, Seqs
<1>2. TypeOK
  BY <1>1 DEF Init, TypeOK
<1>3. QED
  BY <1>2 DEF Init, WInv, NoLostWakeup

LEMMA PutWakeup ==
  ASSUME WInv, NEW seqno \in Seqs, PutPacketInBuffer(seqno)
  PROVE  WInv'
<1> DEFINE w == IF synced THEN writeIndex ELSE seqno
           r == IF synced THEN readIndex ELSE seqno
           newWrite == WriteAfter(seqno, w, r)
<1>1. w \in Seqs /\ r \in Seqs
  BY DEF WInv, TypeOK
<1>2. newWrite \in 0..SeqSpace /\ Roll(newWrite) \in Seqs
  BY <1>1, WriteAfterType
<1>3. /\ readIndex' = r /\ writeIndex' = Roll(newWrite)
      /\ reader' = IF Wakes(newWrite, r) THEN "notified" ELSE reader
  BY DEF PutPacketInBuffer
<1>4. ready' \in [Slots -> BOOLEAN] /\ data' \in [Slots -> Seqs \cup {None}]
  BY DEF PutPacketInBuffer, WInv, TypeOK
<1>5. TypeOK'
  BY <1>1, <1>2, <1>3, <1>4 DEF PutPacketInBuffer, WInv, TypeOK
\* Rolling the write index over leaves the size alone, unless it was SeqSpace.
<1>6. NoLostWakeup'
  <2> SUFFICES ASSUME reader' = "waiting"
               PROVE  Distance(Roll(newWrite), r) <= StartFill
    BY <1>3 DEF NoLostWakeup, Distance
  <2> HIDE DEF newWrite, w, r
  <2>1. Distance(newWrite, r) <= StartFill
    BY <1>1, <1>2, <1>3, SizesAssumption DEF Wakes, Distance, Seqs
  <2>2. QED
    BY <2>1, <1>1, <1>2, SizesAssumption DEF Roll, Distance, Seqs
<1>7. QED
  BY <1>5, <1>6 DEF WInv

LEMMA TakeType ==
  ASSUME TypeOK, Take
  PROVE  TypeOK'
<1> DEFINE read == IF Overrun THEN Restart ELSE readIndex
<1>1. read \in Seqs
  BY RestartType DEF TypeOK
<1>2. read + 1 \in 0..SeqSpace
  BY <1>1, SizesAssumption DEF Seqs
<1>3. readIndex' \in Seqs
  BY <1>2, RollType DEF Take
<1>4. ready' \in [Slots -> BOOLEAN]
  BY DEF Take, Consume, TypeOK
<1>5. played' \in [index : Seqs \cup {None}, data : Seqs \cup {None}]
  BY <1>1, SlotType DEF Take, TypeOK
<1>6. QED
  BY <1>3, <1>4, <1>5 DEF Take, TypeOK

\* Every other step.
LEMMA OtherWakeup ==
  ASSUME WInv, [Next]_vars, ~ \E seqno \in Seqs : PutPacketInBuffer(seqno)
  PROVE  WInv'
<1> USE DEF WInv
<1>1. CASE Send
  <2>1. sent' \in Seqs
    BY <1>1, RollType, SizesAssumption DEF Send, TypeOK, Seqs
  <2>2. QED
    BY <1>1, <2>1 DEF Send, TypeOK, NoLostWakeup, Distance
<1>2. CASE GetNextBuffer
  <2>1. TypeOK'
    BY <1>2 DEF GetNextBuffer, TypeOK
  <2>2. reader' = "waiting" /\ synced' => Distance(writeIndex', readIndex') <= StartFill
    BY <1>2, SizesAssumption DEF GetNextBuffer, Distance, TypeOK, Seqs
  <2>3. QED
    BY <2>1, <2>2 DEF NoLostWakeup, Distance
<1>3. CASE Wake
  BY <1>3 DEF Wake, TypeOK, NoLostWakeup
<1>4. CASE Take
  BY <1>4, TakeType DEF Take, NoLostWakeup
<1>5. CASE Stop
  BY <1>5 DEF Stop, TypeOK, NoLostWakeup
<1>6. CASE Flush
  BY <1>6, SizesAssumption DEF Flush, TypeOK, NoLostWakeup, Distance
<1>7. CASE FlushSlot
  <2>1. flushed' \in 0..BufferFrames
    BY <1>7, SizesAssumption DEF FlushSlot, NotFlushing, TypeOK
  <2>2. QED
    BY <1>7, <2>1 DEF FlushSlot, TypeOK, NoLostWakeup
<1>8. CASE UNCHANGED vars
  BY <1>8 DEF vars, TypeOK, NoLostWakeup, Distance
<1>9. QED
  BY <1>1, <1>2, <1>3, <1>4, <1>5, <1>6, <1>7, <1>8 DEF Next

LEMMA WakeupInvariant == Spec => []WInv
<1>1. WInv /\ [Next]_vars => WInv'
  BY PutWakeup, OtherWakeup
<1>2. QED
  BY <1>1, InitWakeup, PTL DEF Spec

\* The indices stay 16-bit numbers, and so do the frames in the ring, over any
\* sequence of packets, overruns and flushes.
THEOREM TypeCorrect == Spec => []TypeOK
<1>1. WInv => TypeOK
  BY DEF WInv
<1>2. QED
  BY <1>1, WakeupInvariant, PTL

\* The decoder never sleeps on frames, whatever the network delivers and
\* wherever the unsynchronized flush interrupts the two.
THEOREM NoLostWakeupHolds == Spec => []NoLostWakeup
<1>1. WInv => NoLostWakeup
  BY DEF WInv
<1>2. QED
  BY <1>1, WakeupInvariant, PTL
-----------------------------------------------------------------------------
(* The order of play, for a sender that neither pauses nor runs a whole    *)
(* buffer ahead of the decoder, and a network that delivers a packet late  *)
(* or never, but not after its frame was played.                           *)

WellBehaved ==
  /\ ~Late /\ ~MayFlush
  /\ Window <= Lead /\ Lead < BufferFrames

\* Where a frame that waits to be played lies: in its slot, and between the
\* decoder and the writer.
InPlace(s) ==
  /\ data[s] \in Seqs /\ Slot(data[s]) = s
  /\ Distance(data[s], readIndex) < Distance(writeIndex, readIndex)

\* What the decoder thread was given and works on: the frame before the one it
\* will ask for, and still in the ring.
Lent ==
  /\ synced /\ played.index \in Seqs
  /\ readIndex = Roll(played.index + 1)
  /\ data[Slot(played.index)] = played.data

\* The inductive invariant.  The buffer never overruns, and a decoder about to
\* take a frame finds the writer ahead of it.
OInv ==
  /\ TypeOK
  /\ NotFlushing
  /\ Distance(writeIndex, readIndex) <= Lead
  /\ reader \in {"notified", "taking"} =>
       synced /\ Distance(writeIndex, readIndex) >= 1
  /\ \A s \in Slots : ready[s] => synced /\ InPlace(s)
  /\ reader = "decoding" /\ played.data # None => Lent
  /\ PlaysTheFrameOfItsIndex

\* Two sequence numbers less than a buffer apart that share a slot are equal:
\* the length of the ring divides the number of sequence numbers.
LEMMA SameSlot ==
  ASSUME NEW a \in Seqs, NEW b \in Seqs,
         Distance(a, b) < BufferFrames, Slot(a) = Slot(b)
  PROVE  a = b
<1> DEFINE F == BufferFrames
           qa == a \div F
           qb == b \div F
           qm == SeqSpace \div F
<1>1. F \in Nat \ {0} /\ SeqSpace \in Nat
  BY SizesAssumption
<1>2. /\ qa \in Int /\ qb \in Int /\ qm \in Int
      /\ a = F * qa + Slot(a) /\ b = F * qb + Slot(b)
      /\ SeqSpace = F * qm
  BY <1>1, SizesAssumption DEF Slot, Seqs
<1>3. ASSUME NEW k \in Int, F * k >= 0, F * k < F PROVE k = 0
  BY <1>1, <1>3
<1>4. \A x, y, z \in Int : /\ F * x - F * y = F * (x - y)
                          /\ F * x - F * y + F * z = F * (x - y + z)
  BY <1>1
<1>5. F = BufferFrames
  OBVIOUS
<1>6. Slot(a) \in Int /\ Slot(a) = Slot(b) /\ a \in Int /\ b \in Int
  BY SlotType, SizesAssumption DEF Slots, Seqs
<1> HIDE DEF F, qa, qb, qm
<1>7. CASE a >= b
  <2> DEFINE k == qa - qb
  <2>1. k \in Int /\ F * k = F * qa - F * qb
    BY <1>2, <1>4
  <2>2. F * k = a - b
    <3>1. /\ F * qa \in Int /\ F * qb \in Int
          /\ a = F * qa + Slot(a) /\ b = F * qb + Slot(a)
      BY <1>1, <1>2, <1>6
    <3> HIDE DEF k
    <3>2. QED
      BY <3>1, <2>1, <1>6
  <2>3. F * k >= 0 /\ F * k < F
    BY <2>2, <1>7, <1>5, <1>6 DEF Distance
  <2> HIDE DEF k
  <2>4. k = 0
    BY <2>1, <2>3, <1>3
  <2>5. F * k = 0
    BY <2>4, <1>1
  <2>6. QED
    BY <2>2, <2>5 DEF Seqs
<1>8. CASE a < b
  <2> DEFINE k == qm - qb + qa
  <2>1. k \in Int /\ F * k = F * qm - F * qb + F * qa
    BY <1>2, <1>4
  <2>2. F * k = SeqSpace - b + a
    <3>1. /\ F * qa \in Int /\ F * qb \in Int /\ F * qm \in Int
          /\ a = F * qa + Slot(a) /\ b = F * qb + Slot(a)
          /\ SeqSpace = F * qm
      BY <1>1, <1>2, <1>6
    <3> HIDE DEF k
    <3>2. QED
      BY <3>1, <2>1, <1>6
  <2>3. F * k > 0 /\ F * k < F
    BY <2>2, <1>8, <1>1, <1>5, <1>6 DEF Distance, Seqs
  <2> HIDE DEF k
  <2>4. k = 0
    BY <2>1, <2>3, <1>1, <1>3
  <2>5. QED
    BY <2>3, <2>4, <1>1
<1>9. QED
  BY <1>7, <1>8 DEF Seqs

\* Rolling an index over keeps its distance to the decoder, as long as it is
\* less than the whole sequence number space.
LEMMA RollDistance ==
  ASSUME NEW i \in 0..SeqSpace, NEW r \in Seqs, Distance(i, r) < SeqSpace
  PROVE  Distance(Roll(i), r) = Distance(i, r)
BY SizesAssumption DEF Roll, Distance, Seqs

LEMMA InitOrder ==
  ASSUME WellBehaved
  PROVE  Init => OInv
<1> SUFFICES ASSUME Init PROVE OInv
  OBVIOUS
<1>1. TypeOK
  BY InitWakeup DEF WInv
<1>2. Distance(writeIndex, readIndex) <= Lead
  BY SizesAssumption DEF Init, Distance
<1>3. PlaysTheFrameOfItsIndex
  BY DEF Init, PlaysTheFrameOfItsIndex
<1>4. \A s \in Slots : ~ready[s]
  BY DEF Init
<1>5. QED
  BY <1>1, <1>2, <1>3, <1>4 DEF Init, OInv, NotFlushing

\* A packet that is put does not fall into the slot of the frame the decoder
\* works on: both are less than a ring ahead of that frame.
LEMMA PutLeavesLent ==
  ASSUME WellBehaved, OInv, Lent, NEW seqno \in Seqs, PutPacketInBuffer(seqno)
  PROVE  data'[Slot(played.index)] = data[Slot(played.index)]
<1>1. /\ readIndex \in Seqs /\ played.index \in Seqs
      /\ readIndex = Roll(played.index + 1)
  BY DEF Lent, OInv, TypeOK
<1>2. Distance(seqno, readIndex) < Lead
  BY DEF Lent, PutPacketInBuffer, InNetwork, WellBehaved
<1>3. seqno # played.index /\ Distance(seqno, played.index) < BufferFrames
  BY <1>1, <1>2, SizesAssumption DEF Roll, Distance, Seqs, WellBehaved
<1>4. Slot(seqno) # Slot(played.index)
  BY <1>1, <1>3, SameSlot
<1>5. QED
  BY <1>1, <1>4, SlotType DEF PutPacketInBuffer, OInv, TypeOK

LEMMA PutOrder ==
  ASSUME WellBehaved, OInv, TypeOK', NEW seqno \in Seqs, PutPacketInBuffer(seqno)
  PROVE  OInv'
<1> DEFINE w == IF synced THEN writeIndex ELSE seqno
           r == IF synced THEN readIndex ELSE seqno
           newWrite == WriteAfter(seqno, w, r)
<1>1. w \in Seqs /\ r \in Seqs /\ newWrite \in 0..SeqSpace
  BY WriteAfterType DEF OInv, TypeOK
<1>2. /\ readIndex' = r /\ writeIndex' = Roll(newWrite) /\ synced'
      /\ reader' = IF Wakes(newWrite, r) THEN "notified" ELSE reader
      /\ reader # "taking"
      /\ UNCHANGED << played, flushed >>
  BY DEF PutPacketInBuffer, MonitorFree
<1>3. Distance(seqno, r) < Lead /\ Distance(w, r) <= Lead
  <2>1. CASE synced
    BY <2>1 DEF WellBehaved, PutPacketInBuffer, InNetwork, OInv
  <2>2. CASE ~synced
    <3>1. 0 < Window
      BY SizesAssumption DEF PutPacketInBuffer, InNetwork, Distance, OInv, TypeOK, Seqs
    <3>2. QED
      BY <2>2, <3>1, SizesAssumption DEF WellBehaved, Distance, Seqs
  <2>3. QED
    BY <2>1, <2>2
<1>4. \/ newWrite = w
      \/ newWrite = seqno + 1 /\ seqno >= w /\ ~(seqno - w > RollOver /\ seqno >= r)
  BY DEF WriteAfter, RolledOver
<1> HIDE DEF w, r, newWrite
<1>5. /\ Distance(newWrite, r) <= Lead
      /\ Distance(newWrite, r) >= Distance(w, r)
  BY <1>1, <1>3, <1>4, SizesAssumption DEF Distance, Seqs, WellBehaved
<1>6. Distance(writeIndex', readIndex') = Distance(newWrite, r)
  <2>1. Distance(newWrite, r) < SeqSpace
    BY <1>1, <1>5, SizesAssumption DEF WellBehaved, Distance, Seqs
  <2>2. Distance(Roll(newWrite), r) = Distance(newWrite, r)
    BY <2>1, <1>1, RollDistance
  <2>3. QED
    BY <2>2, <1>2
<1>7. reader' \in {"notified", "taking"} => Distance(writeIndex', readIndex') >= 1
  <2>1. CASE Wakes(newWrite, r)
    BY <2>1, <1>6, <1>1, SizesAssumption DEF Wakes, Distance, Seqs
  <2>2. CASE ~Wakes(newWrite, r) /\ reader = "notified"
    BY <2>2, <1>5, <1>6, <1>1, SizesAssumption DEF OInv, w, r, Distance, Seqs
  <2>3. QED
    BY <2>1, <2>2, <1>2
\* An accepted packet lies before the writer it may just have moved.
<1>8. Accepts(seqno, w, r) => Distance(seqno, r) < Distance(newWrite, r)
  <2>1. CASE newWrite = seqno + 1
    BY <2>1, <1>1, <1>3, SizesAssumption DEF Distance, Seqs, WellBehaved
  <2>2. CASE seqno < w /\ newWrite = w
    BY <2>2, <1>1, <1>3, SizesAssumption DEF Accepts, Distance, Seqs, WellBehaved
  <2>3. CASE RolledOver(seqno, w, r) /\ newWrite = w
    BY <2>3, <1>1, <1>3, SizesAssumption DEF RolledOver, Distance, Seqs, WellBehaved
  <2>4. QED
    BY <2>1, <2>2, <2>3, <1>1 DEF newWrite, WriteAfter, Seqs
<1>9. ASSUME NEW s \in Slots, ready'[s] PROVE InPlace(s)'
  <2>1. Distance(writeIndex, readIndex)' = Distance(newWrite, r)
    BY <1>6 DEF Distance
  <2>2. CASE Accepts(seqno, w, r) /\ data'[s] = seqno /\ s = Slot(seqno)
    <3>1. Distance(data[s], readIndex)' = Distance(seqno, r)
      BY <2>2, <1>2 DEF Distance
    <3>2. QED
      BY <3>1, <2>1, <2>2, <1>8 DEF InPlace
  <2>3. CASE ready[s] /\ data'[s] = data[s]
    <3>1. synced /\ InPlace(s)
      BY <2>3 DEF OInv
    <3>2. readIndex' = readIndex /\ r = readIndex /\ w = writeIndex
      BY <3>1, <1>2 DEF r, w
    <3>3. Distance(data[s], readIndex)' = Distance(data[s], r)
      BY <3>2, <2>3 DEF Distance
    <3>4. Distance(data[s], r) < Distance(newWrite, r)
      BY <3>1, <3>2, <1>1, <1>5, SizesAssumption DEF InPlace, Distance, Seqs
    <3>5. QED
      BY <3>1, <3>3, <3>4, <2>1, <2>3 DEF InPlace
  <2>4. QED
    BY <1>9, <2>2, <2>3 DEF PutPacketInBuffer, OInv, TypeOK, w, r
<1>10. Distance(writeIndex', readIndex') <= Lead
  BY <1>5, <1>6, <1>2
<1>11. PlaysTheFrameOfItsIndex' /\ NotFlushing'
  BY <1>2 DEF PlaysTheFrameOfItsIndex, NotFlushing, OInv
<1>12. Distance(writeIndex, readIndex)' = Distance(writeIndex', readIndex')
  BY DEF Distance
<1>13. reader' = "decoding" /\ played'.data # None => Lent'
  <2> SUFFICES ASSUME reader' = "decoding", played.data # None PROVE Lent'
    BY <1>2
  <2>1. reader = "decoding" /\ Lent
    BY <1>2 DEF OInv
  <2>2. data'[Slot(played.index)] = played.data
    BY <2>1, PutLeavesLent DEF Lent
  <2>3. readIndex' = readIndex
    BY <2>1, <1>2 DEF Lent, r
  <2>4. QED
    BY <2>1, <2>2, <2>3, <1>2 DEF Lent
<1>14. QED
  BY <1>2, <1>7, <1>9, <1>10, <1>11, <1>12, <1>13 DEF OInv

LEMMA TakeOrder ==
  ASSUME WellBehaved, OInv, Take
  PROVE  OInv'
<1> DEFINE s0 == Slot(readIndex)
<1>1. /\ synced /\ Distance(writeIndex, readIndex) >= 1
      /\ Distance(writeIndex, readIndex) <= Lead
      /\ readIndex \in Seqs /\ writeIndex \in Seqs /\ s0 \in Slots
  BY SlotType DEF Take, OInv, TypeOK
<1>2. ~Overrun
  BY <1>1, SizesAssumption DEF Overrun, WellBehaved, Distance, Seqs
<1>3. /\ readIndex' = Roll(readIndex + 1)
      /\ ready' = [ready EXCEPT ![s0] = FALSE]
      /\ played' = [index |-> readIndex, data |-> IF ready[s0] THEN data[s0] ELSE None]
      /\ reader' = "decoding"
      /\ UNCHANGED << synced, writeIndex, data, flushed >>
  BY <1>2 DEF Take, Consume
<1>4. ASSUME NEW s \in Slots, ready[s], s # s0
      PROVE  Distance(data[s], Roll(readIndex + 1)) < Distance(writeIndex, Roll(readIndex + 1))
  <2>1. /\ data[s] \in Seqs /\ Slot(data[s]) = s
        /\ Distance(data[s], readIndex) < Distance(writeIndex, readIndex)
    BY <1>4 DEF OInv, InPlace
  <2>2. data[s] # readIndex
    BY <2>1, <1>4
  <2>3. QED
    BY <2>1, <2>2, <1>1, SizesAssumption DEF Distance, Roll, Seqs
<1>5. ASSUME ready[s0] PROVE data[s0] = readIndex
  <2>1. data[s0] \in Seqs /\ Slot(data[s0]) = Slot(readIndex)
        /\ Distance(data[s0], readIndex) < BufferFrames
    BY <1>1, <1>5, SizesAssumption DEF OInv, InPlace, WellBehaved, Distance, Seqs
  <2>2. QED
    BY <2>1, <1>1, SameSlot
<1>6. PlaysTheFrameOfItsIndex'
  BY <1>3, <1>5 DEF PlaysTheFrameOfItsIndex
<1>7. Distance(writeIndex', readIndex') <= Lead
  BY <1>1, <1>3, SizesAssumption DEF Distance, Roll, Seqs
<1>8. \A s \in Slots : ready'[s] => synced' /\ InPlace(s)'
  <2> SUFFICES ASSUME NEW s \in Slots, ready'[s] PROVE synced' /\ InPlace(s)'
    OBVIOUS
  <2>1. s # s0 /\ ready[s]
    BY <1>1, <1>3 DEF OInv, TypeOK
  <2>2. InPlace(s)
    BY <2>1 DEF OInv
  <2>3. /\ Distance(data[s], readIndex)' = Distance(data[s], Roll(readIndex + 1))
        /\ Distance(writeIndex, readIndex)' = Distance(writeIndex, Roll(readIndex + 1))
    BY <1>3 DEF Distance
  <2>4. QED
    BY <2>1, <2>2, <2>3, <1>1, <1>3, <1>4 DEF InPlace
<1>9. TypeOK'
  BY TakeType DEF OInv
<1>10. played'.data # None => Lent'
  BY <1>1, <1>3 DEF Lent
<1>11. Distance(writeIndex, readIndex)' = Distance(writeIndex', readIndex')
  BY DEF Distance
<1>12. QED
  BY <1>3, <1>6, <1>7, <1>8, <1>9, <1>10, <1>11 DEF OInv, NotFlushing

LEMMA OtherOrder ==
  ASSUME WellBehaved, OInv, TypeOK', ~Take,
         [Next]_vars, ~ \E seqno \in Seqs : PutPacketInBuffer(seqno)
  PROVE  OInv'
<1>1. CASE Send
  BY <1>1 DEF Send, OInv, NotFlushing, InPlace, Lent, PlaysTheFrameOfItsIndex, Distance
<1>2. CASE GetNextBuffer
  <2>1. reader' = "taking" => synced /\ Distance(writeIndex, readIndex) >= 1
    BY <1>2, SizesAssumption DEF GetNextBuffer, OInv, TypeOK, Distance, Seqs
  <2>2. QED
    BY <1>2, <2>1
       DEF GetNextBuffer, OInv, NotFlushing, InPlace, Lent, PlaysTheFrameOfItsIndex,
           Distance
<1>3. CASE Wake \/ Stop \/ UNCHANGED vars
  BY <1>3 DEF Wake, Stop, vars, OInv, NotFlushing, InPlace, Lent,
              PlaysTheFrameOfItsIndex, Distance
<1>4. CASE Flush \/ FlushSlot
  BY <1>4 DEF Flush, FlushSlot, WellBehaved, OInv
<1>5. QED
  BY <1>1, <1>2, <1>3, <1>4 DEF Next

LEMMA OrderInvariant ==
  ASSUME WellBehaved
  PROVE  Spec => []OInv
<1>1. OInv /\ TypeOK' /\ [Next]_vars => OInv'
  BY PutOrder, TakeOrder, OtherOrder
<1>2. Init => OInv
  BY InitOrder
<1>3. QED
  BY <1>1, <1>2, TypeCorrect, PTL DEF Spec

\* A buffer no sender runs a whole turn ahead of plays every packet at its own
\* index or not at all, for any loss and any reordering in the network, and
\* across any number of roll-overs of the sequence numbers.
THEOREM PlaysTheFrameOfItsIndexHolds ==
  ASSUME WellBehaved
  PROVE  Spec => []PlaysTheFrameOfItsIndex
<1>1. OInv => PlaysTheFrameOfItsIndex
  BY DEF OInv
<1>2. QED
  BY <1>1, OrderInvariant, PTL

\* The network never writes into the array getNextBuffer gave away while the
\* decoder thread decrypts it outside the monitor: a packet the buffer accepts
\* is less than a ring ahead of that frame.
THEOREM DecoderOwnsItsFrameHolds ==
  ASSUME WellBehaved
  PROVE  Spec => DecoderOwnsItsFrame
<1>1. ASSUME OInv, [Next]_vars, reader = "decoding", played.data # None
      PROVE  data'[Slot(played.index)] = played.data
  <2>1. Lent
    BY <1>1 DEF OInv
  <2>2. CASE \E seqno \in Seqs : PutPacketInBuffer(seqno)
    BY <2>1, <2>2, <1>1, PutLeavesLent DEF Lent
  <2>3. CASE UNCHANGED data
    BY <2>1, <2>3 DEF Lent
  <2>4. QED
    BY <2>2, <2>3, <1>1 DEF Next, Send, GetNextBuffer, Wake, Take, Stop, Flush, FlushSlot,
                            vars
<1>2. OInv /\ [Next]_vars
        => [reader = "decoding" /\ played.data # None
            => data'[Slot(played.index)] = played.data]_vars
  BY <1>1
<1>3. QED
  BY <1>2, OrderInvariant, PTL DEF Spec, DecoderOwnsItsFrame

\* A packet that is put leaves every frame that waits to be played alone: the
\* slot of the packet the writer expects, the one kind that is stored without
\* looking at the slot, is empty.
LEMMA PutKeepsFrames ==
  ASSUME WellBehaved, OInv, NEW seqno \in Seqs, PutPacketInBuffer(seqno),
         NEW s \in Slots, ready[s]
  PROVE  ready'[s] /\ data'[s] = data[s]
<1>1. /\ synced /\ readIndex \in Seqs /\ writeIndex \in Seqs
      /\ data[s] \in Seqs /\ Slot(data[s]) = s
      /\ Distance(data[s], readIndex) < Distance(writeIndex, readIndex)
      /\ Distance(writeIndex, readIndex) < BufferFrames
  BY SizesAssumption DEF OInv, TypeOK, InPlace, WellBehaved, Distance, Seqs
<1>2. Slot(writeIndex) # s
  <2> SUFFICES ASSUME Slot(writeIndex) = s PROVE FALSE
    OBVIOUS
  <2>1. data[s] # writeIndex /\ Distance(writeIndex, data[s]) < BufferFrames
    BY <1>1, SizesAssumption DEF Distance, Seqs
  <2>2. QED
    BY <2>1, <1>1, SameSlot
<1>3. ready[Slot(seqno)] \/ Slot(seqno) # s
  OBVIOUS
<1>4. CASE Accepts(seqno, writeIndex, readIndex)
  <2>1. Slot(seqno) # s
    BY <1>2, <1>4 DEF Accepts
  <2>2. QED
    BY <2>1, <1>1, <1>4 DEF PutPacketInBuffer, OInv, TypeOK
<1>5. CASE ~Accepts(seqno, writeIndex, readIndex)
  BY <1>1, <1>5 DEF PutPacketInBuffer
<1>6. QED
  BY <1>4, <1>5

\* And getNextBuffer empties the slot of the frame it plays and no other.
LEMMA TakeKeepsFrames ==
  ASSUME WellBehaved, OInv, Take, NEW s \in Slots, ready[s]
  PROVE  \/ ready'[s] /\ data'[s] = data[s]
         \/ played'.index = data[s]
<1>1. /\ readIndex \in Seqs /\ Slot(readIndex) \in Slots
      /\ data[s] \in Seqs /\ Slot(data[s]) = s
      /\ Distance(data[s], readIndex) < BufferFrames
      /\ Distance(writeIndex, readIndex) < BufferFrames
  BY SlotType, SizesAssumption DEF OInv, TypeOK, InPlace, WellBehaved, Distance, Seqs
<1>2. /\ ready' = [ready EXCEPT ![Slot(readIndex)] = FALSE]
      /\ played'.index = readIndex /\ data' = data
  <2>1. ~Overrun
    BY <1>1, SizesAssumption DEF Overrun, OInv, TypeOK, Distance, Seqs
  <2>2. QED
    BY <2>1 DEF Take, Consume
<1>3. CASE s = Slot(readIndex)
  BY <1>1, <1>2, <1>3, SameSlot
<1>4. CASE s # Slot(readIndex)
  BY <1>2, <1>4 DEF OInv, TypeOK
<1>5. QED
  BY <1>3, <1>4

\* No frame that was received is lost inside the buffer: from the packet that
\* brings it to the getNextBuffer that plays it, nothing overwrites it.
THEOREM UnreadFramesKeptHolds ==
  ASSUME WellBehaved
  PROVE  Spec => UnreadFramesKept
<1> DEFINE Kept == \A s \in Slots : ready[s] =>
                      \/ ready'[s] /\ data'[s] = data[s]
                      \/ played'.index = data[s]
<1>1. ASSUME OInv, [Next]_vars PROVE Kept
  <2>1. CASE \E seqno \in Seqs : PutPacketInBuffer(seqno)
    BY <2>1, <1>1, PutKeepsFrames
  <2>2. CASE Take
    BY <2>2, <1>1, TakeKeepsFrames
  <2>3. CASE UNCHANGED << ready, data >>
    BY <2>3
  <2>4. CASE Flush \/ FlushSlot
    BY <2>4, <1>1 DEF Flush, FlushSlot, WellBehaved, OInv
  <2>5. QED
    BY <2>1, <2>2, <2>3, <2>4, <1>1 DEF Next, Send, GetNextBuffer, Wake, Stop, vars
<1>2. OInv /\ [Next]_vars => [Kept]_vars
  BY <1>1
<1>3. QED
  BY <1>2, OrderInvariant, PTL DEF Spec, UnreadFramesKept

-----------------------------------------------------------------------------
(* PureAudioBuffer implements Playout.                                     *)

\* The frame just before the writer has come in, if it was not played: the
\* writer only moves behind a packet that is stored.
Newest ==
  synced /\ Distance(writeIndex, readIndex) >= 1
    => \E i \in Seqs : writeIndex = Roll(i + 1) /\ ready[Slot(i)]

LEMMA PutNewest ==
  ASSUME OInv, Newest, OInv', NEW seqno \in Seqs, PutPacketInBuffer(seqno), WellBehaved
  PROVE  Newest'
<1> DEFINE w == IF synced THEN writeIndex ELSE seqno
           r == IF synced THEN readIndex ELSE seqno
           newWrite == WriteAfter(seqno, w, r)
<1>1. readIndex' = r /\ writeIndex' = Roll(newWrite)
  BY DEF PutPacketInBuffer
<1>2. \A s \in Slots : ready[s] => ready'[s]
  BY DEF PutPacketInBuffer, OInv, TypeOK
<1>3. CASE newWrite = seqno + 1 /\ Accepts(seqno, w, r)
  <2>1. ready'[Slot(seqno)]
    BY <1>3, SlotType DEF PutPacketInBuffer, OInv, TypeOK
  <2>2. QED
    BY <2>1, <1>1, <1>3 DEF Newest
<1>4. CASE newWrite = w /\ synced
  <2>1. w = writeIndex /\ writeIndex \in Seqs /\ readIndex' = readIndex
    BY <1>1, <1>4 DEF OInv, TypeOK
  <2>2. writeIndex' = writeIndex
    BY <2>1, <1>1, <1>4, SizesAssumption DEF Roll, Seqs
  <2>3. Distance(writeIndex, readIndex)' = Distance(writeIndex, readIndex)
    BY <2>1, <2>2 DEF Distance
  <2>4. QED
    BY <2>2, <2>3, <1>2, <1>4, SlotType DEF Newest
<1>5. ~synced => newWrite = seqno + 1 /\ Accepts(seqno, w, r)
  BY SizesAssumption DEF WriteAfter, Accepts, RolledOver, Seqs
<1>6. newWrite = w \/ (newWrite = seqno + 1 /\ Accepts(seqno, w, r))
  BY DEF WriteAfter
<1>7. QED
  BY <1>3, <1>4, <1>5, <1>6

LEMMA TakeNewest ==
  ASSUME OInv, Newest, OInv', Take, WellBehaved
  PROVE  Newest'
<1>1. /\ readIndex \in Seqs /\ writeIndex \in Seqs
      /\ Distance(writeIndex, readIndex) <= Lead
      /\ synced /\ Distance(writeIndex, readIndex) >= 1
  BY DEF Take, OInv, TypeOK
<1>2. ~Overrun
  BY <1>1, SizesAssumption DEF Overrun, WellBehaved, Distance, Seqs
<1>3. /\ readIndex' = Roll(readIndex + 1) /\ writeIndex' = writeIndex
      /\ ready' = [ready EXCEPT ![Slot(readIndex)] = FALSE]
  BY <1>2 DEF Take, Consume
<1>4. PICK i \in Seqs : writeIndex = Roll(i + 1) /\ ready[Slot(i)]
  BY <1>1 DEF Newest
<1>5. ASSUME Distance(writeIndex, Roll(readIndex + 1)) >= 1
      PROVE  ready'[Slot(i)]
  <2>1. i # readIndex /\ Distance(i, readIndex) < BufferFrames
    BY <1>1, <1>4, <1>5, SizesAssumption DEF Distance, Roll, Seqs, WellBehaved
  <2>2. Slot(i) # Slot(readIndex)
    BY <2>1, <1>1, SameSlot
  <2>3. QED
    BY <2>2, <1>3, <1>4, SlotType DEF OInv, TypeOK
<1>6. Distance(writeIndex, readIndex)' = Distance(writeIndex, Roll(readIndex + 1))
  BY <1>3 DEF Distance
<1>7. QED
  BY <1>3, <1>4, <1>5, <1>6 DEF Newest

LEMMA NewestInvariant ==
  ASSUME WellBehaved
  PROVE  Spec => []Newest
<1>1. Init => Newest
  BY DEF Init, Newest
<1>2. ASSUME OInv, OInv', Newest, [Next]_vars PROVE Newest'
  <2>1. CASE \E seqno \in Seqs : PutPacketInBuffer(seqno)
    BY <2>1, <1>2, PutNewest
  <2>2. CASE Take
    BY <2>2, <1>2, TakeNewest
  <2>3. CASE UNCHANGED << synced, readIndex, writeIndex, ready >>
    BY <2>3, <1>2 DEF Newest, Distance
  <2>4. CASE Flush \/ FlushSlot
    BY <2>4, <1>2 DEF Flush, FlushSlot, WellBehaved, OInv
  <2>5. QED
    BY <2>1, <2>2, <2>3, <2>4, <1>2 DEF Next, Send, GetNextBuffer, Wake, Stop, vars
<1>3. QED
  BY <1>1, <1>2, OrderInvariant, PTL DEF Spec

\* The first packet starts the queue; of the others, those that are accepted
\* come in, less than a ring before their turn.
LEMMA PutArrives ==
  ASSUME WellBehaved, OInv, NEW seqno \in Seqs, PutPacketInBuffer(seqno)
  PROVE  [Player!Next]_(Player!vars)
<1>1. ready' \in [Slots -> BOOLEAN] /\ data' \in [Slots -> Seqs \cup {None}]
      /\ Slot(seqno) \in Slots /\ synced' /\ played' = played
  BY SlotType DEF PutPacketInBuffer, OInv, TypeOK
<1>2. CASE ~synced
  <2>1. Accepts(seqno, seqno, seqno)
    BY DEF Accepts
  <2>2. readIndex' = seqno /\ ready'[Slot(seqno)] /\ data'[Slot(seqno)] = seqno
    BY <1>1, <1>2, <2>1 DEF PutPacketInBuffer, OInv, TypeOK
  <2>3. \A s \in Slots : ready'[s] => s = Slot(seqno)
    BY <1>2, <2>1 DEF PutPacketInBuffer, OInv, TypeOK
  <2>4. Waiting' = {seqno}
    BY <1>1, <2>2, <2>3 DEF Waiting
  <2>5. Player!Start(seqno)
    BY <1>1, <1>2, <2>2, <2>4 DEF Player!Start
  <2>6. QED
    BY <2>5 DEF Player!Next, Seqs
<1>3. CASE synced /\ Accepts(seqno, writeIndex, readIndex)
  <2>1. /\ readIndex' = readIndex
        /\ ready' = [ready EXCEPT ![Slot(seqno)] = TRUE]
        /\ data' = [data EXCEPT ![Slot(seqno)] = seqno]
        /\ Distance(seqno, readIndex) < BufferFrames
    BY <1>3, SizesAssumption
       DEF PutPacketInBuffer, InNetwork, WellBehaved, Distance, OInv, TypeOK, Seqs
  <2>2. \A s \in Slots : ready[s] => ready'[s] /\ data'[s] = data[s]
    BY PutKeepsFrames
  <2>3. Waiting' \subseteq Waiting \cup {seqno}
    BY <1>1, <2>1 DEF Waiting, OInv, TypeOK
  <2>4. Waiting \subseteq Waiting'
    BY <2>2 DEF Waiting
  <2>5. seqno \in Waiting'
    BY <1>1, <2>1 DEF Waiting, OInv, TypeOK
  <2>6. Waiting' = Waiting \cup {seqno}
    BY <2>3, <2>4, <2>5
  <2>7. readIndex # None
    BY DEF OInv, TypeOK, Seqs, None
  <2>8. Player!Arrive(seqno)
    BY <1>1, <1>3, <2>1, <2>6, <2>7 DEF Player!Arrive, Player!Ahead, Distance
  <2>9. QED
    BY <2>8 DEF Player!Next, Seqs
<1>4. CASE synced /\ ~Accepts(seqno, writeIndex, readIndex)
  BY <1>1, <1>4 DEF PutPacketInBuffer, Player!vars, Waiting
<1>5. QED
  BY <1>2, <1>3, <1>4

\* Taking a frame plays the one whose turn it is, or none if it is missing
\* and another one waits.
LEMMA TakePlays ==
  ASSUME WellBehaved, OInv, Newest, Take
  PROVE  Player!Play
<1> DEFINE s0 == Slot(readIndex)
<1>1. /\ synced /\ readIndex \in Seqs /\ writeIndex \in Seqs /\ s0 \in Slots
      /\ Distance(writeIndex, readIndex) >= 1
      /\ Distance(writeIndex, readIndex) < BufferFrames
  BY SlotType, SizesAssumption DEF Take, OInv, TypeOK, WellBehaved, Distance, Seqs
<1>2. ~Overrun
  BY <1>1, SizesAssumption DEF Overrun, Distance, Seqs
<1>3. /\ readIndex' = Roll(readIndex + 1)
      /\ ready' = [ready EXCEPT ![s0] = FALSE]
      /\ played' = [index |-> readIndex, data |-> IF ready[s0] THEN data[s0] ELSE None]
      /\ UNCHANGED << synced, data >>
  BY <1>2 DEF Take, Consume
<1>4. ASSUME NEW s \in Slots, ready[s] PROVE data[s] = readIndex <=> s = s0
  <2>1. data[s] \in Seqs /\ Slot(data[s]) = s /\ Distance(data[s], readIndex) < BufferFrames
    BY <1>1, <1>4, SizesAssumption DEF OInv, InPlace, Distance, Seqs
  <2>2. QED
    BY <2>1, <1>1, SameSlot
<1>5. readIndex \in Waiting <=> ready[s0]
  BY <1>1, <1>4 DEF Waiting
<1>6. Waiting # {}
  BY <1>1, SlotType DEF Newest, Waiting
<1>7. Waiting' = Waiting \ {readIndex}
  <2>1. \A s \in Slots : ready'[s] <=> ready[s] /\ s # s0
    BY <1>1, <1>3 DEF OInv, TypeOK
  <2>2. QED
    BY <2>1, <1>3, <1>4 DEF Waiting
<1>8. readIndex' = Player!After(readIndex)
  BY <1>1, <1>3, SizesAssumption DEF Player!After, Roll, Seqs
<1>9. readIndex # None
  BY <1>1 DEF Seqs, None
<1>10. played'.data = IF readIndex \in Waiting THEN readIndex ELSE None
  BY <1>1, <1>3, <1>4, <1>5
<1>11. played' = [index |-> readIndex, data |-> IF readIndex \in Waiting THEN readIndex ELSE None]
  BY <1>3, <1>10
<1>12. QED
  BY <1>1, <1>3, <1>6, <1>7, <1>8, <1>9, <1>11 DEF Player!Play

\* Ring, indices and notifications are a queue in the order of the numbers, for
\* every size, any loss and reordering and any number of roll-overs: every step
\* of PureAudioBuffer is a step of Playout or changes nothing of it.
THEOREM PlayoutRefinement ==
  ASSUME WellBehaved
  PROVE  Spec => ImplementsPlayout
<1>1. Init => Player!Init
  BY DEF Init, Player!Init, Waiting
<1>2. ASSUME OInv, Newest, [Next]_vars PROVE [Player!Next]_(Player!vars)
  <2>1. CASE \E seqno \in Seqs : PutPacketInBuffer(seqno)
    BY <2>1, <1>2, PutArrives
  <2>2. CASE Take
    BY <2>2, <1>2, TakePlays DEF Player!Next
  <2>3. CASE UNCHANGED << synced, readIndex, ready, data, played >>
    BY <2>3 DEF Player!vars, Waiting
  <2>4. CASE Flush \/ FlushSlot
    BY <2>4, <1>2 DEF Flush, FlushSlot, WellBehaved, OInv
  <2>5. QED
    BY <2>1, <2>2, <2>3, <2>4, <1>2 DEF Next, Send, GetNextBuffer, Wake, Stop, vars
<1>3. QED
  BY <1>1, <1>2, OrderInvariant, NewestInvariant, PTL
     DEF Spec, ImplementsPlayout, Player!Spec

-----------------------------------------------------------------------------
(* The restart after an overrun.                                           *)

\* A sender that keeps within a ring of the decoder never makes getNextBuffer
\* restart, so the distance to the writer stays that of a buffer that is not
\* overrun.
THEOREM RestartIsSaneHolds ==
  ASSUME WellBehaved
  PROVE  Spec => RestartIsSane
<1>1. ASSUME OInv, Take
      PROVE  Distance(writeIndex', readIndex') < BufferFrames
  <2>1. /\ readIndex \in Seqs /\ writeIndex \in Seqs
        /\ Distance(writeIndex, readIndex) <= Lead
        /\ Distance(writeIndex, readIndex) >= 1
    BY <1>1 DEF Take, OInv, TypeOK
  <2>2. ~Overrun
    BY <2>1, SizesAssumption DEF Overrun, WellBehaved, Distance, Seqs
  <2>3. readIndex' = Roll(readIndex + 1) /\ writeIndex' = writeIndex
    BY <1>1, <2>2 DEF Take
  <2>4. QED
    BY <2>1, <2>3, SizesAssumption DEF WellBehaved, Distance, Roll, Seqs
<1>2. OInv /\ [Next]_vars
        => [Take => Distance(writeIndex', readIndex') < BufferFrames]_vars
  BY <1>1
<1>3. QED
  BY <1>2, OrderInvariant, PTL DEF Spec, RestartIsSane

\* And the restart itself is at a sane distance for every START_FILL that is at
\* least 1 (and at most a ring), whatever the network, the sender and a flush did;
\* with the code's 0 the decoder starts one frame past the writer.
THEOREM RestartNeedsAFill ==
  ASSUME StartFill \in 1..BufferFrames
  PROVE  Spec => [][Take /\ Overrun =>
                      Distance(writeIndex', readIndex') < BufferFrames]_vars
<1>1. ASSUME TypeOK, Take, Overrun
      PROVE  Distance(writeIndex', readIndex') < BufferFrames
  <2>1. /\ readIndex' = Roll(Restart + 1) /\ writeIndex' = writeIndex
        /\ writeIndex \in Seqs
    BY <1>1 DEF Take, TypeOK
  <2>2. Distance(writeIndex, Roll(Restart + 1)) = StartFill - 1
    BY <2>1, SizesAssumption DEF Restart, Distance, Roll, Seqs
  <2>3. QED
    BY <2>1, <2>2, SizesAssumption DEF Distance
<1>2. TypeOK /\ [Next]_vars
        => [Take /\ Overrun => Distance(writeIndex', readIndex') < BufferFrames]_vars
  BY <1>1
<1>3. QED
  BY <1>2, TypeCorrect, PTL DEF Spec
=============================================================================
