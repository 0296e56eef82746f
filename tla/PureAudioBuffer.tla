-------------------------- MODULE PureAudioBuffer --------------------------
(***************************************************************************)
(* The AirTunes ring buffer (airplay/airtunes/PureAudioBuffer) between the *)
(* UDP listeners, which put packets, and the decoder thread, which takes   *)
(* frames in the order of their 16-bit sequence numbers.  Both hold the    *)
(* monitor of `lock'; flush, called on the RTSP thread, does not.          *)
(*                                                                         *)
(* A frame is represented by the sequence number of its packet.  The       *)
(* network may lose, duplicate and reorder the packets of a window; the    *)
(* retransmissions request_resend asks for are such packets.               *)
(***************************************************************************)
EXTENDS Integers

CONSTANTS
  SeqSpace,      \* 65536: sequence numbers are 16 bits wide
  BufferFrames,  \* 512
  RollOver,      \* 65000: a packet further ahead than this is an old one
  StartFill,     \* 0: START_FILL
  Lead,          \* how far the sender runs ahead of the frame being played
  Window,        \* how many of the last packets may still be in the network
  Late,          \* whether packets of frames already played arrive
  MayFlush       \* whether the sender pauses (RTSP FLUSH)

ASSUME SizesAssumption ==
  /\ SeqSpace \in Nat \ {0} /\ BufferFrames \in 1..SeqSpace
  /\ SeqSpace % BufferFrames = 0
  /\ RollOver \in BufferFrames..(SeqSpace - BufferFrames)
  /\ StartFill \in 0..SeqSpace-1
  /\ Lead \in Nat /\ Window \in Nat
  /\ Late \in BOOLEAN /\ MayFlush \in BOOLEAN

Seqs == 0..SeqSpace-1
Slots == 0..BufferFrames-1
None == -1

VARIABLES
  sent,        \* the newest packet the sender has sent
  synced,
  readIndex,
  writeIndex,
  ready,       \* audioBuffer[s].ready
  data,        \* audioBuffer[s].data
  reader,      \* the decoder thread; decoder_isStopped while it waits
  played,      \* what getNextBuffer returned last, and for which index
  flushed      \* the next slot flush clears, BufferFrames when it is not running

vars == << sent, synced, readIndex, writeIndex, ready, data, reader, played,
           flushed >>

NotFlushing == flushed = BufferFrames

Init ==
  /\ sent \in Seqs
  /\ synced = FALSE
  /\ readIndex = 0 /\ writeIndex = 0
  /\ ready = [s \in Slots |-> FALSE]
  /\ data = [s \in Slots |-> None]
  /\ reader = "decoding"
  /\ played = [index |-> None, data |-> None]
  /\ flushed = BufferFrames

\* How far a is ahead of b when numbers start over at SeqSpace; between the
\* indices, what updateActualBufferSize computes.
Distance(a, b) == IF a >= b THEN a - b ELSE SeqSpace - b + a

\* Mutant: an index runs past 2^16 - 1.
NeverRoll(index) == index

Roll(index) == IF index = SeqSpace THEN 0 ELSE index

\* Mutant: the ring is one slot too short.
ShortSlot(seqno) == seqno % (BufferFrames - 1)

Slot(seqno) == seqno % BufferFrames

-----------------------------------------------------------------------------
(* The network.                                                            *)

Send ==
  /\ sent' = Roll(sent + 1)
  /\ synced => Distance(sent', readIndex) < Lead
  /\ UNCHANGED << synced, readIndex, writeIndex, ready, data, reader, played,
                  flushed >>

InNetwork(seqno) ==
  /\ Distance(sent, seqno) < Window
  /\ Late \/ ~synced \/ Distance(seqno, readIndex) < Lead

-----------------------------------------------------------------------------
(* putPacketInBuffer.                                                      *)

\* More than RollOver ahead of the writer: a packet sent before it rolled over.
RolledOver(seqno, write, read) == seqno - write > RollOver /\ seqno >= read

\* The packet is stored: the expected one always, one ahead of the writer or
\* between reader and writer if its slot is free, one behind the reader never.
Accepts(seqno, write, read) ==
  \/ seqno = write
  \/ ~ready[Slot(seqno)] /\ (seqno > write \/ seqno >= read)

\* The writer moves behind an accepted packet that is not an old one.
WriteAfter(seqno, write, read) ==
  IF /\ seqno >= write /\ Accepts(seqno, write, read)
     /\ ~RolledOver(seqno, write, read)
  THEN seqno + 1 ELSE write

\* Mutant: only the packet that ends an underrun in order wakes the decoder up.
WakesInOrder(write, read) == reader = "waiting" /\ write = read + 1

Wakes(write, read) == reader = "waiting" /\ Distance(write, read) > StartFill

\* The monitor is the decoder's from the start of getNextBuffer, or from its
\* wake-up, to the end.
MonitorFree == reader # "taking"

PutPacketInBuffer(seqno) ==
  LET w == IF synced THEN writeIndex ELSE seqno
      r == IF synced THEN readIndex ELSE seqno
      newWrite == WriteAfter(seqno, w, r)
  IN
  /\ MonitorFree /\ InNetwork(seqno)
  /\ synced' = TRUE
  /\ readIndex' = r
  /\ writeIndex' = Roll(newWrite)
  /\ IF Accepts(seqno, w, r)
     THEN /\ ready' = [ready EXCEPT ![Slot(seqno)] = TRUE]
          /\ data' = [data EXCEPT ![Slot(seqno)] = seqno]
     ELSE UNCHANGED << ready, data >>
  /\ reader' = IF Wakes(newWrite, r) THEN "notified" ELSE reader
  /\ UNCHANGED << sent, played, flushed >>

-----------------------------------------------------------------------------
(* getNextBuffer, by the decoder thread: it waits if there is nothing to   *)
(* play or the sender paused, and then takes a frame, whatever woke it up. *)

\* Mutant: the frames of an empty buffer are skipped.
GetNextBufferOrSkip ==
  /\ reader = "decoding"
  /\ reader' = IF ~synced THEN "waiting" ELSE "taking"
  /\ UNCHANGED << sent, synced, readIndex, writeIndex, ready, data, played, flushed >>

GetNextBuffer ==
  /\ reader = "decoding"
  /\ reader' = IF Distance(writeIndex, readIndex) < 1 \/ ~synced
               THEN "waiting" ELSE "taking"
  /\ UNCHANGED << sent, synced, readIndex, writeIndex, ready, data, played, flushed >>

Wake ==
  /\ reader = "notified"
  /\ reader' = "taking"
  /\ UNCHANGED << sent, synced, readIndex, writeIndex, ready, data, played, flushed >>

Overrun == Distance(writeIndex, readIndex) >= BufferFrames

\* Where the decoder goes on after an overrun.
Restart == IF writeIndex < StartFill THEN writeIndex - StartFill + SeqSpace
                                     ELSE writeIndex - StartFill

\* Mutant: the slot is not marked empty.
Keep(s) == ready

Consume(s) == [ready EXCEPT ![s] = FALSE]

Take ==
  LET read == IF Overrun THEN Restart ELSE readIndex
      s == Slot(read)
  IN
  /\ reader = "taking"
  /\ readIndex' = Roll(read + 1)
  /\ ready' = Consume(s)
  /\ played' = [index |-> read, data |-> IF ready[s] THEN data[s] ELSE None]
  /\ reader' = "decoding"
  /\ UNCHANGED << sent, synced, writeIndex, data, flushed >>

\* AudioPlayer.stop interrupts the decoder thread; in a wait, it ends there.
Stop ==
  /\ reader = "waiting"
  /\ reader' = "ended"
  /\ UNCHANGED << sent, synced, readIndex, writeIndex, ready, data, played, flushed >>

-----------------------------------------------------------------------------
(* flush, a loop without the monitor.                                      *)

Flush ==
  /\ MayFlush /\ NotFlushing
  /\ flushed' = 0
  /\ UNCHANGED << sent, synced, readIndex, writeIndex, ready, data, reader, played >>

FlushSlot ==
  /\ ~NotFlushing
  /\ ready' = [ready EXCEPT ![flushed] = FALSE]
  /\ synced' = FALSE
  /\ flushed' = flushed + 1
  /\ UNCHANGED << sent, readIndex, writeIndex, data, reader, played >>

Next ==
  \/ Send
  \/ \E seqno \in Seqs : PutPacketInBuffer(seqno)
  \/ GetNextBuffer \/ Wake \/ Take \/ Stop
  \/ Flush \/ FlushSlot

Spec == Init /\ [][Next]_vars

Waiting == {data[s] : s \in {x \in Slots : ready[x]}}

\* The buffer as a queue of frames.
Player == INSTANCE Playout WITH
  Capacity <- BufferFrames,
  turn <- IF synced THEN readIndex ELSE None,
  waiting <- Waiting
-----------------------------------------------------------------------------
TypeOK ==
  /\ sent \in Seqs /\ synced \in BOOLEAN
  /\ readIndex \in Seqs /\ writeIndex \in Seqs
  /\ ready \in [Slots -> BOOLEAN]
  /\ data \in [Slots -> Seqs \cup {None}]
  /\ reader \in {"decoding", "waiting", "notified", "taking", "ended"}
  /\ played \in [index : Seqs \cup {None}, data : Seqs \cup {None}]
  /\ flushed \in 0..BufferFrames

\* The decoder never sleeps on frames: whatever the network and a concurrent
\* flush did, a decoder waiting in getNextBuffer that was not notified has
\* nothing to play (putPacketInBuffer notifies, getNextBuffer tests once).
NoLostWakeup ==
  reader = "waiting" /\ synced => Distance(writeIndex, readIndex) <= StartFill

\* What is played for an index is the packet of that number or nothing, never
\* a frame an earlier turn of the ring left behind.
PlaysTheFrameOfItsIndex == played.data \in {played.index, None}

\* A frame that waits to be played is not overwritten, nor thrown away by
\* putPacketInBuffer: only getNextBuffer takes it, when its turn has come.
UnreadFramesKept ==
  [][\A s \in Slots : ready[s] =>
       \/ ready'[s] /\ data'[s] = data[s]
       \/ played'.index = data[s]]_vars

\* The ring of 512 slots, its two indices and the arrays that wait, notify and
\* put share are a queue in the order of the numbers: every frame that is
\* accepted is played at its turn, and getNextBuffer rather waits than runs
\* ahead of the network.
ImplementsPlayout == Player!Spec

\* getNextBuffer gives the frame away with its array and releases the monitor:
\* the network does not write that array while the decoder decrypts it.
DecoderOwnsItsFrame ==
  [][reader = "decoding" /\ played.data # None
     => data'[Slot(played.index)] = played.data]_vars

\* "restart at a sane distance" (PureAudioBuffer:151): after an overrun the
\* distance to the writer is that of a buffer that is not overrun.
RestartIsSane ==
  [][Take => Distance(writeIndex', readIndex') < BufferFrames]_vars

\* "SEQNO is stored in a short an come back to 0" (PureAudioBuffer:97): a
\* packet less than Lead ahead of the writer is early, also when the numbers
\* start over between the two; if its slot is free, it is kept.
EarlyPacketsAreKept ==
  \A seqno \in Seqs :
    /\ synced /\ InNetwork(seqno)
    /\ Distance(seqno, writeIndex) < Lead /\ ~ready[Slot(seqno)]
    => Accepts(seqno, writeIndex, readIndex)
=============================================================================
