--------------------------- MODULE AudioDecoding ---------------------------
(***************************************************************************)
(* An AirTunes session (airplay/airtunes/AudioPlayer) with the native AAC  *)
(* decoder: the decoder thread takes frames from the ring buffer, decodes  *)
(* them into a pool of output buffers and queues them for the player       *)
(* thread, which writes them to the track and returns the buffers.  stop,  *)
(* called on the RTSP thread, ends both threads and closes the decoder.    *)
(* The RTSP thread may be interrupted itself, by the stopThread of its     *)
(* connection: then a join ends early and stop goes on beside a thread     *)
(* that lives.                                                             *)
(*                                                                         *)
(* A frame is not followed beyond the ring: what matters is which thread   *)
(* has how many of the buffers.  An input buffer is always free, as the    *)
(* decoder thread alone takes and returns it.  The sender does not pause:  *)
(* what a flush does to the ring is PureAudioBuffer's matter.              *)
(***************************************************************************)
EXTENDS PureAudioBuffer

CONSTANTS
  OutputBuffers,  \* NUMBER_OF_BUFFER: 2
  MayFail         \* whether frames arrive that do not decode

ASSUME OutputBuffersAssumption ==
  OutputBuffers \in Nat \ {0} /\ MayFail \in BOOLEAN

VARIABLES
  decoder,      \* where the decoder thread is
  pool,         \* how many buffers are in outputBufferPool
  available,    \* how many are in availableOutputBuffer, with their frames
  player,       \* where the player thread is
  stopper,      \* where AudioPlayer.stop is
  interrupted,  \* the interrupt status of the two threads
  open,         \* whether the native decoder is open
  unjoined      \* whether the join of the decoder thread was interrupted

ring == vars
decoding == << decoder, pool, available >>
stopping == << stopper, open, unjoined >>
allVars == << ring, decoding, player, stopping, interrupted >>

PipelineInit ==
  /\ Init
  /\ decoder = "poll" /\ pool = OutputBuffers /\ available = 0
  /\ player = "poll"
  /\ stopper = "running" /\ open = TRUE /\ unjoined = FALSE
  /\ interrupted = [t \in {"decoder", "player"} |-> FALSE]

Interrupts(t) == interrupted' = [interrupted EXCEPT ![t] = TRUE]

\* A blocking call that ends with InterruptedException clears the status.
Consumes(t) == interrupted[t] /\ interrupted' = [interrupted EXCEPT ![t] = FALSE]

\* The flags are plain fields, read after a lock in every turn of the loops: a
\* thread may miss the new value until it was sent the interrupt.
DecoderMayGoOn == stopper \in {"running", "flagged"}
DecoderMayEnd == stopper # "running"

PlayerMayGoOn == stopper \in {"running", "flagged", "joining", "playerFlagged"}
PlayerMayEnd == stopper \notin {"running", "flagged", "joining"}

\* The condition of the decoder thread's loops, the next turn starting at next.
DecoderTurns(next) ==
  \/ DecoderMayGoOn /\ decoder' = next
  \/ DecoderMayEnd /\ decoder' = "done"

PlayerTurns ==
  \/ PlayerMayGoOn /\ player' = "poll"
  \/ PlayerMayEnd /\ player' = "done"

\* The buffers are back in their pools, the input buffers too; then the field
\* decoder is null: a thread that still lives meets full queues and no decoder.
NativeStopped == stopper \in {"releasing", "closed"}
DecoderGone == stopper = "closed"

-----------------------------------------------------------------------------
(* The network and the RTSP connection.                                    *)

\* What is sent once stop closed the sockets does not arrive.
Network ==
  /\ stopper = "running" /\ Send
  /\ UNCHANGED << decoding, player, stopping, interrupted >>

\* The listeners are not waited for: a packet in hand is put whenever it may be.
PacketReceived ==
  /\ \E seqno \in Seqs : PutPacketInBuffer(seqno)
  /\ UNCHANGED << decoding, player, stopping, interrupted >>

-----------------------------------------------------------------------------
(* The decoder thread.                                                     *)

DequeueInputBuffer ==
  /\ decoder = "poll"
  /\ \/ Consumes("decoder") /\ decoder' = "done"
     \/ ~interrupted["decoder"] /\ decoder' = "get" /\ UNCHANGED interrupted
     \/ DecoderGone /\ decoder' = "done" /\ UNCHANGED interrupted
  /\ UNCHANGED << ring, pool, available, player, stopping >>

\* getNextBuffer gives a frame, or none: then it is called again.
TakeFrame ==
  /\ Take
  /\ IF played'.data # None THEN decoder' = "clock" ELSE DecoderTurns("get")
  /\ UNCHANGED interrupted

GetFrame ==
  /\ decoder = "get"
  /\ \/ (GetNextBuffer \/ Wake) /\ UNCHANGED << decoder, interrupted >>
     \/ TakeFrame
     \/ Stop /\ Consumes("decoder") /\ decoder' = "done"
  /\ UNCHANGED << pool, available, player, stopping >>

\* The call of queueInputBuffer.
ToQueue == {"take"} \cup IF DecoderGone THEN {"done"} ELSE {}

\* waitUntilTime on the decoder thread; its result is not looked at.
DecoderClock ==
  /\ decoder = "clock"
  /\ decoder' \in ToQueue \cup IF interrupted["decoder"] THEN {} ELSE {"sleep"}
  /\ UNCHANGED << ring, pool, available, player, stopping, interrupted >>

DecoderSleep ==
  /\ decoder = "sleep" /\ decoder' \in ToQueue
  /\ UNCHANGED interrupted \/ Consumes("decoder")
  /\ UNCHANGED << ring, pool, available, player, stopping >>

\* queueInputBuffer: the output buffer, the decoding, the queue.
TakeOutputBuffer ==
  /\ decoder = "take"
  /\ \/ Consumes("decoder") /\ decoder' = "done" /\ UNCHANGED pool
     \/ /\ ~interrupted["decoder"] /\ pool > 0
        /\ pool' = pool - 1 /\ decoder' = "decode"
        /\ UNCHANGED interrupted
  /\ UNCHANGED << ring, available, player, stopping >>

\* Mutant: a frame that does not decode is dropped, and its buffer with it.
QueuesOrDrops == available' \in {available, available + 1}

Queues == available' = available + 1

\* The input buffer is added first: behind decoder.stop its pool may be full
\* already, and the exception ends the thread.
Decode ==
  /\ decoder = "decode"
  /\ \/ Queues /\ DecoderTurns("poll")
     \/ /\ NativeStopped \/ stopper = "thrown"
        /\ decoder' = "done" /\ UNCHANGED available
  /\ UNCHANGED << ring, pool, player, stopping, interrupted >>

-----------------------------------------------------------------------------
(* The player thread.                                                      *)

DequeueOutputBuffer ==
  /\ player = "poll"
  /\ \/ Consumes("player") /\ player' = "done" /\ UNCHANGED available
     \/ /\ ~interrupted["player"] /\ available > 0
        /\ available' = available - 1 /\ player' = "clock"
        /\ UNCHANGED interrupted
     \/ /\ \/ ~interrupted["player"] /\ available = 0 /\ PlayerTurns
           \/ DecoderGone /\ player' = "done"
        /\ UNCHANGED << available, interrupted >>
  /\ UNCHANGED << ring, decoder, pool, stopping >>

\* Mutant: a frame that comes too late is skipped without returning its buffer.
SkipsAtOnce == "poll"

Skips == "release"

\* No synchronisation yet, or too late: not written.  Early: the thread sleeps.
PlayerClock ==
  /\ player = "clock"
  /\ player' \in {Skips, "write"}
                 \cup IF interrupted["player"] THEN {} ELSE {"sleep"}
  /\ UNCHANGED << ring, decoding, stopping, interrupted >>

PlayerSleep ==
  /\ player = "sleep"
  /\ \/ player' = "write" /\ UNCHANGED interrupted
     \/ Consumes("player") /\ player' = Skips
  /\ UNCHANGED << ring, decoding, stopping >>

\* Of a frame that did not decode the size is -1: ByteBuffer.get throws, and the
\* thread ends with its buffer.
Write ==
  /\ player = "write"
  /\ player' \in {"release"} \cup IF MayFail THEN {"dead"} ELSE {}
  /\ UNCHANGED << ring, decoding, stopping, interrupted >>

\* A full pool, or no decoder, ends the thread with an exception.
ReleaseOutputBuffer ==
  /\ player = "release"
  /\ \/ pool < OutputBuffers /\ pool' = pool + 1 /\ PlayerTurns
     \/ /\ pool = OutputBuffers \/ DecoderGone
        /\ player' = "done" /\ UNCHANGED pool
  /\ UNCHANGED << ring, decoder, available, stopping, interrupted >>

-----------------------------------------------------------------------------
(* stop.                                                                   *)

BeginStop ==
  /\ stopper = "running"
  /\ stopper' = "flagged"
  /\ UNCHANGED << ring, decoding, player, open, unjoined, interrupted >>

\* Mutant: the decoder thread is not interrupted.
LeavesDecoder == UNCHANGED interrupted

InterruptsDecoder ==
  IF decoder = "done" THEN UNCHANGED interrupted ELSE Interrupts("decoder")

StopDecoder ==
  /\ stopper = "flagged" /\ stopper' = "joining"
  /\ InterruptsDecoder
  /\ UNCHANGED << ring, decoding, player, open, unjoined >>

\* Mutant: the decoder thread is interrupted and not waited for.
NotJoined == TRUE

DecoderJoined == decoder = "done"

PlayerJoined == player \in {"done", "dead"}

JoinDecoder ==
  /\ stopper = "joining" /\ DecoderJoined
  /\ stopper' = "playerFlagged"
  /\ UNCHANGED << ring, decoding, player, open, unjoined, interrupted >>

StopPlayer ==
  /\ stopper = "playerFlagged" /\ stopper' = "playerJoining"
  /\ IF PlayerJoined THEN UNCHANGED interrupted ELSE Interrupts("player")
  /\ UNCHANGED << ring, decoding, player, open, unjoined >>

JoinPlayer ==
  /\ stopper = "playerJoining" /\ PlayerJoined
  /\ stopper' = "stopping"
  /\ UNCHANGED << ring, decoding, player, open, unjoined, interrupted >>

\* stopThread of the connection interrupts the RTSP thread, before or in a join:
\* the exception is printed, and stop goes on as if the thread had ended.
InterruptJoin ==
  /\ \/ /\ stopper = "joining" /\ ~DecoderJoined
        /\ stopper' = "playerFlagged" /\ unjoined' = TRUE
     \/ /\ stopper = "playerJoining" /\ ~PlayerJoined
        /\ stopper' = "stopping" /\ UNCHANGED unjoined
  /\ UNCHANGED << ring, decoding, player, open, interrupted >>

PutsBack == pool' = OutputBuffers /\ available' = 0

\* decoder.stop() puts every buffer back.  A thread that lives may add its own
\* between clear and addAll: then addAll throws, and stop goes no further.
StopNative ==
  /\ stopper = "stopping"
  /\ \/ PutsBack /\ stopper' = "releasing"
     \/ /\ ~(DecoderJoined /\ PlayerJoined)
        /\ PutsBack \/ UNCHANGED << pool, available >>
        /\ stopper' = "thrown"
  /\ UNCHANGED << ring, decoder, player, open, unjoined, interrupted >>

ReleaseNative ==
  /\ stopper = "releasing" /\ stopper' = "closed"
  /\ open' = FALSE
  /\ UNCHANGED << ring, decoding, player, unjoined, interrupted >>

-----------------------------------------------------------------------------
DecoderThread ==
  \/ DequeueInputBuffer \/ GetFrame \/ DecoderClock \/ DecoderSleep
  \/ TakeOutputBuffer \/ Decode

PlayerThread ==
  \/ DequeueOutputBuffer \/ PlayerClock \/ PlayerSleep \/ Write
  \/ ReleaseOutputBuffer

Stopping ==
  \/ StopDecoder \/ JoinDecoder \/ StopPlayer \/ JoinPlayer
  \/ StopNative \/ ReleaseNative

PipelineNext ==
  \/ Network \/ PacketReceived
  \/ DecoderThread \/ PlayerThread
  \/ BeginStop \/ Stopping \/ InterruptJoin

PipelineSpec == PipelineInit /\ [][PipelineNext]_allVars

\* The threads run and sleeps end; nobody has to stop the session, but a stop
\* that began goes on.  No interrupt helps it out of a join.
FairPipelineSpec ==
  /\ PipelineSpec
  /\ WF_allVars(DecoderThread) /\ WF_allVars(PlayerThread)
  /\ WF_allVars(Stopping)

-----------------------------------------------------------------------------
PipelineTypeOK ==
  /\ TypeOK
  /\ decoder \in {"poll", "get", "clock", "sleep", "take", "decode", "done"}
  /\ pool \in 0..OutputBuffers
  /\ available \in 0..OutputBuffers
  /\ player \in {"poll", "clock", "sleep", "write", "release", "done", "dead"}
  /\ stopper \in {"running", "flagged", "joining", "playerFlagged",
                  "playerJoining", "stopping", "releasing", "closed", "thrown"}
  /\ interrupted \in [{"decoder", "player"} -> BOOLEAN]
  /\ open \in BOOLEAN
  /\ unjoined \in BOOLEAN

\* The native decoder, one static handle without a lock, is not used once it
\* is closed: release comes after the decoder thread, wherever stop met it.  The
\* code keeps this only while nothing interrupts the RTSP thread in the join of
\* the decoder thread; behind an interrupted join of the player thread it holds.
NativeIsOpen == decoder = "decode" => open \/ unjoined

\* The output buffers the two threads hold.
Held ==
  (IF decoder = "decode" THEN 1 ELSE 0)
  + (IF player \in {"clock", "sleep", "write", "release", "dead"} THEN 1 ELSE 0)

\* No output buffer is lost or counted twice, whatever the clock, the decoder
\* and a stop in between did, until decoder.stop puts them all back; so until
\* then the add calls never find a queue full, joins interrupted or not.
BuffersAreKept ==
  stopper \notin {"releasing", "closed", "thrown"} =>
    pool + available + Held = OutputBuffers

\* Once stop waits for the decoder thread, that thread is in no call that only
\* an interrupt ends, unless the interrupt is still to come: none is consumed
\* where it is ignored (the sleep until a frame is due) by a thread that then
\* goes back to wait.
StopReachesTheDecoder ==
  stopper = "joining" /\ decoder \in {"poll", "get"} => interrupted["decoder"]

\* When the decoder thread finds no output buffer, the player thread has one, or
\* has one to fetch, and returns it: no thread waits for the other, also when
\* stop was called, unless the player thread ended on a frame that was not
\* decoded, or stop has gone past the decoder thread without it.
BufferWillCome ==
  decoder = "take" /\ pool = 0 =>
    \/ player \in {"clock", "sleep", "write", "release"}
    \/ player = "poll" /\ available > 0 /\ ~interrupted["player"]
    \/ player = "dead"
    \/ unjoined

\* stop returns: no interrupt that is consumed where it is ignored (the sleep
\* until a frame is due) leaves a thread it waits for running or blocked.  Behind
\* an interrupted join it may end in an exception of addAll.
StopEnds ==
  stopper = "flagged" ~> stopper \in {"closed", "thrown"} \/ player = "dead"
=============================================================================
