------------------------ MODULE AudioDecodingProofs ------------------------
(***************************************************************************)
(* Proofs about AudioDecoding, for every ring, number of output buffers,   *)
(* loss and moment of stop.                                                *)
(***************************************************************************)
EXTENDS AudioDecoding, PureAudioBufferProofs

-----------------------------------------------------------------------------
(* The session drives the ring as PureAudioBuffer lets it be driven, so    *)
(* what is proved of the ring holds in the session.                        *)

LEMMA RingSteps == [PipelineNext]_allVars => [Next]_vars
<1> USE DEF ring
<1>1. CASE Network
  BY <1>1 DEF Network, Next
<1>2. CASE PacketReceived
  BY <1>2 DEF PacketReceived, Next
<1>3. CASE GetFrame
  BY <1>3 DEF GetFrame, TakeFrame, Next
<1>4. CASE DecoderThread /\ ~GetFrame
  BY <1>4 DEF DecoderThread, DequeueInputBuffer, DecoderClock, DecoderSleep,
              TakeOutputBuffer, Decode
<1>5. CASE PlayerThread
  BY <1>5 DEF PlayerThread, DequeueOutputBuffer, PlayerClock, PlayerSleep,
              Write, ReleaseOutputBuffer
<1>6. CASE BeginStop \/ Stopping \/ InterruptJoin
  BY <1>6 DEF BeginStop, Stopping, StopDecoder, JoinDecoder, StopPlayer,
              JoinPlayer, StopNative, ReleaseNative, InterruptJoin
<1>7. CASE UNCHANGED allVars
  BY <1>7 DEF allVars
<1>8. QED
  BY <1>1, <1>2, <1>3, <1>4, <1>5, <1>6, <1>7 DEF PipelineNext

\* The threads of a session use the ring as the ring's own specification allows.
THEOREM SessionUsesTheRing == PipelineSpec => Spec
<1>1. PipelineInit => Init
  BY DEF PipelineInit
<1>2. QED
  BY <1>1, RingSteps, PTL DEF PipelineSpec, Spec

\* The decoder thread of a session never sleeps on frames.
THEOREM SessionNeverSleepsOnFrames == PipelineSpec => []NoLostWakeup
BY SessionUsesTheRing, NoLostWakeupHolds, PTL

\* The indices and slots of the ring keep their ranges in a session.
THEOREM SessionTypeCorrect == PipelineSpec => []TypeOK
BY SessionUsesTheRing, TypeCorrect, PTL

\* A session plays each packet at its own index or not at all, whatever the
\* pools, the clock and a stop do to the pace of the decoder thread.
THEOREM SessionPlaysTheFrameOfItsIndex ==
  ASSUME WellBehaved
  PROVE  PipelineSpec => []PlaysTheFrameOfItsIndex
BY SessionUsesTheRing, PlaysTheFrameOfItsIndexHolds, PTL

\* In a session, too, a received frame is overwritten by no packet.
THEOREM SessionKeepsUnreadFrames ==
  ASSUME WellBehaved
  PROVE  PipelineSpec => UnreadFramesKept
BY SessionUsesTheRing, UnreadFramesKeptHolds, PTL

\* While the decoder thread of a session decrypts a frame, no listener writes
\* into its array.
THEOREM SessionOwnsItsFrame ==
  ASSUME WellBehaved
  PROVE  PipelineSpec => DecoderOwnsItsFrame
BY SessionUsesTheRing, DecoderOwnsItsFrameHolds, PTL

\* A session, with its threads, pools and stop, implements Playout: to the
\* network and the decoder its ring is a queue of frames.
THEOREM SessionRefinesPlayout ==
  ASSUME WellBehaved
  PROVE  PipelineSpec => ImplementsPlayout
BY SessionUsesTheRing, PlayoutRefinement, PTL

-----------------------------------------------------------------------------
(* The output buffers and the native decoder.                              *)

Threads ==
  /\ decoder \in {"poll", "get", "clock", "sleep", "take", "decode", "done"}
  /\ player \in {"poll", "clock", "sleep", "write", "release", "done", "dead"}
  /\ stopper \in {"running", "flagged", "joining", "playerFlagged",
                  "playerJoining", "stopping", "releasing", "closed", "thrown"}
  /\ interrupted \in [{"decoder", "player"} -> BOOLEAN]
  /\ open \in BOOLEAN
  /\ unjoined \in BOOLEAN

\* stop passes the join of the decoder thread only when that thread has ended,
\* or when it is interrupted in it.
Joined ==
  /\ stopper \notin {"running", "flagged", "joining"} => decoder = "done" \/ unjoined
  /\ stopper \in {"running", "flagged", "joining"} => ~unjoined
  /\ open <=> stopper # "closed"

\* Once the buffers were put back a decoder thread that lives queues at most one
\* more; when they were not, none is counted twice.
AtMostOneMore ==
  \/ pool + available + Held <= OutputBuffers
  \/ decoder = "done" \/ available < OutputBuffers

Buffers ==
  /\ pool \in 0..OutputBuffers /\ available \in 0..OutputBuffers
  /\ BuffersAreKept
  /\ stopper \in {"releasing", "closed", "thrown"} => AtMostOneMore

PInv == Threads /\ Joined /\ Buffers

LEMMA InitPipeline == PipelineInit => PInv
<1> SUFFICES ASSUME PipelineInit PROVE PInv
  OBVIOUS
<1> USE DEF PipelineInit
<1>1. Threads
  BY DEF Threads
<1>2. Joined
  BY DEF Joined
<1>3. Buffers
  BY OutputBuffersAssumption DEF Buffers, BuffersAreKept, Held
<1>4. QED
  BY <1>1, <1>2, <1>3 DEF PInv

LEMMA DecoderPipeline == PInv /\ DecoderThread => PInv'
<1> SUFFICES ASSUME PInv, DecoderThread PROVE PInv'
  OBVIOUS
<1> USE OutputBuffersAssumption DEF PInv, Threads, stopping, Consumes
<1>1. decoder # "done" /\ UNCHANGED << player, stopper, open, unjoined >>
  BY DEF DecoderThread, DequeueInputBuffer, GetFrame, GetNextBuffer, Wake,
         DecoderClock, DecoderSleep, TakeOutputBuffer, Decode
<1>2. Joined'
  BY <1>1 DEF Joined
<1>3. CASE DequeueInputBuffer
  <2>1. decoder = "poll" /\ decoder' \in {"get", "done"}
        /\ UNCHANGED << pool, available >>
    BY <1>3 DEF DequeueInputBuffer
  <2>2. interrupted' \in [{"decoder", "player"} -> BOOLEAN]
    BY <1>3 DEF DequeueInputBuffer
  <2>3. QED
    BY <2>1, <2>2, <1>1, <1>2 DEF Buffers, BuffersAreKept, Held, AtMostOneMore
<1>4. CASE GetFrame
  <2>1. decoder = "get" /\ decoder' \in {"get", "clock", "done"}
    BY <1>4 DEF GetFrame, TakeFrame, DecoderTurns
  <2>2. interrupted' \in [{"decoder", "player"} -> BOOLEAN]
        /\ UNCHANGED << pool, available >>
    BY <1>4 DEF GetFrame, TakeFrame
  <2>3. QED
    BY <2>1, <2>2, <1>1, <1>2 DEF Buffers, BuffersAreKept, Held, AtMostOneMore
<1>5. CASE DecoderClock \/ DecoderSleep
  <2>1. decoder \in {"clock", "sleep"} /\ decoder' \in {"sleep", "take", "done"}
    BY <1>5 DEF DecoderClock, DecoderSleep, ToQueue
  <2>2. interrupted' \in [{"decoder", "player"} -> BOOLEAN]
        /\ UNCHANGED << pool, available >>
    BY <1>5 DEF DecoderClock, DecoderSleep
  <2>3. QED
    BY <2>1, <2>2, <1>1, <1>2 DEF Buffers, BuffersAreKept, Held, AtMostOneMore
<1>6. CASE TakeOutputBuffer
  <2>1. CASE decoder' = "done"
    <3>1. decoder = "take" /\ UNCHANGED << pool, available >>
      BY <2>1, <1>6 DEF TakeOutputBuffer
    <3>2. interrupted' \in [{"decoder", "player"} -> BOOLEAN]
      BY <1>6 DEF TakeOutputBuffer
    <3>3. QED
      BY <2>1, <3>1, <3>2, <1>1, <1>2
         DEF Buffers, BuffersAreKept, Held, AtMostOneMore
  <2>2. CASE decoder' = "decode"
    <3>1. pool > 0 /\ pool' = pool - 1 /\ decoder = "take" /\ available' = available
      BY <2>2, <1>6 DEF TakeOutputBuffer
    <3>2. pool' \in 0..OutputBuffers /\ available' \in 0..OutputBuffers
      BY <3>1 DEF Buffers
    <3>3. interrupted' = interrupted
      BY <2>2, <1>6 DEF TakeOutputBuffer
    <3>4. Held' = Held + 1 /\ Held \in Nat
      BY <2>2, <3>1, <1>1 DEF Held
    <3>5. BuffersAreKept'
      BY <3>1, <3>2, <3>4, <1>1 DEF Buffers, BuffersAreKept
    <3>6. stopper' \in {"releasing", "closed", "thrown"} => AtMostOneMore'
      BY <2>2, <3>1, <3>4, <1>1 DEF Buffers, AtMostOneMore
    <3>7. QED
      BY <2>2, <3>2, <3>3, <3>5, <3>6, <1>1, <1>2 DEF Buffers
  <2>3. QED
    BY <2>1, <2>2, <1>6 DEF TakeOutputBuffer
<1>7. CASE Decode
  <2> USE DEF DecoderTurns, DecoderMayGoOn, NativeStopped, Queues
  <2>1. decoder = "decode" /\ decoder' \in {"poll", "done"}
        /\ UNCHANGED << pool, interrupted >>
    BY <1>7 DEF Decode
  <2>2. available' \in {available, available + 1}
    BY <1>7 DEF Decode
  <2>3. Held' = Held - 1 /\ Held \in Nat \ {0}
    BY <2>1, <1>1 DEF Held
  <2>4. CASE stopper \in {"releasing", "closed", "thrown"}
    <3>1. decoder' = "done"
      BY <2>4, <1>7 DEF Decode
    <3>2. AtMostOneMore /\ pool \in 0..OutputBuffers
          /\ available \in 0..OutputBuffers
      BY <2>4 DEF Buffers
    <3>3. available + 1 <= OutputBuffers
      BY <2>1, <2>3, <3>2 DEF AtMostOneMore
    <3>4. available' \in 0..OutputBuffers
      BY <2>2, <3>2, <3>3
    <3>5. AtMostOneMore'
      BY <3>1 DEF AtMostOneMore
    <3>6. QED
      BY <2>1, <2>4, <3>1, <3>2, <3>4, <3>5, <1>1, <1>2
         DEF Buffers, BuffersAreKept
  <2>5. CASE stopper \notin {"releasing", "closed", "thrown"}
    <3>1. available' = available + 1
      BY <2>5, <1>7 DEF Decode
    <3>2. pool + available + Held = OutputBuffers
      BY <2>5 DEF Buffers, BuffersAreKept
    <3>3. pool' \in 0..OutputBuffers /\ available' \in 0..OutputBuffers
          /\ BuffersAreKept'
      BY <2>1, <2>3, <2>5, <3>1, <3>2, <1>1 DEF Buffers, BuffersAreKept
    <3>4. QED
      BY <2>1, <2>5, <3>3, <1>1, <1>2 DEF Buffers
  <2>6. QED
    BY <2>4, <2>5
<1>8. QED
  BY <1>3, <1>4, <1>5, <1>6, <1>7 DEF DecoderThread

LEMMA PlayerPipeline == PInv /\ PlayerThread => PInv'
<1> SUFFICES ASSUME PInv, PlayerThread PROVE PInv'
  OBVIOUS
<1> USE OutputBuffersAssumption
    DEF PInv, Threads, stopping, decoding, Consumes, Skips
<1>1. UNCHANGED << decoder, stopper, open, unjoined >>
  BY DEF PlayerThread, DequeueOutputBuffer, PlayerClock, PlayerSleep, Write,
         ReleaseOutputBuffer
<1>2. Joined'
  BY <1>1 DEF Joined
<1>3. interrupted' \in [{"decoder", "player"} -> BOOLEAN]
  BY DEF PlayerThread, DequeueOutputBuffer, PlayerClock, PlayerSleep, Write,
         ReleaseOutputBuffer
<1>4. CASE DequeueOutputBuffer
  <2>1. CASE player' = "clock"
    <3>1. available > 0 /\ available' = available - 1 /\ player = "poll"
          /\ pool' = pool
      BY <2>1, <1>4 DEF DequeueOutputBuffer, PlayerTurns
    <3>2. available' \in 0..OutputBuffers
      BY <3>1 DEF Buffers
    <3>3. Held' = Held + 1 /\ Held \in Nat
      BY <2>1, <3>1, <1>1 DEF Held
    <3>4. BuffersAreKept'
      BY <3>1, <3>2, <3>3, <1>1 DEF Buffers, BuffersAreKept
    <3>5. stopper' \in {"releasing", "closed", "thrown"} => AtMostOneMore'
      BY <3>1, <3>3, <1>1 DEF Buffers, AtMostOneMore
    <3>6. QED
      BY <2>1, <3>1, <3>2, <3>4, <3>5, <1>1, <1>2, <1>3 DEF Buffers
  <2>2. CASE player' # "clock"
    <3>1. player = "poll" /\ player' \in {"poll", "done"}
          /\ UNCHANGED << pool, available >>
      BY <2>2, <1>4 DEF DequeueOutputBuffer, PlayerTurns
    <3>2. Held' = Held
      BY <3>1, <1>1 DEF Held
    <3>3. QED
      BY <3>1, <3>2, <1>1, <1>2, <1>3 DEF Buffers, BuffersAreKept, AtMostOneMore
  <2>3. QED
    BY <2>1, <2>2
<1>5. CASE PlayerClock \/ PlayerSleep \/ Write
  <2>1. /\ player \in {"clock", "sleep", "write"}
        /\ player' \in {"sleep", "write", "release", "dead"}
        /\ UNCHANGED << pool, available >>
    BY <1>5 DEF PlayerClock, PlayerSleep, Write
  <2>2. Held' = Held
    BY <2>1, <1>1 DEF Held
  <2>3. QED
    BY <2>1, <2>2, <1>1, <1>2, <1>3 DEF Buffers, BuffersAreKept, AtMostOneMore
<1>6. CASE ReleaseOutputBuffer
  <2>1. player = "release" /\ player' \in {"poll", "done"}
        /\ available' = available
    BY <1>6 DEF ReleaseOutputBuffer, PlayerTurns
  <2>2. Held' = Held - 1 /\ Held \in Nat \ {0}
    BY <2>1, <1>1 DEF Held
  <2>3. CASE pool < OutputBuffers /\ pool' = pool + 1
    <3>1. pool' \in 0..OutputBuffers
      BY <2>3 DEF Buffers
    <3>2. BuffersAreKept'
      BY <2>1, <2>2, <2>3, <1>1 DEF Buffers, BuffersAreKept
    <3>3. stopper' \in {"releasing", "closed", "thrown"} => AtMostOneMore'
      BY <2>1, <2>2, <2>3, <1>1 DEF Buffers, AtMostOneMore
    <3>4. QED
      BY <2>1, <3>1, <3>2, <3>3, <1>1, <1>2, <1>3 DEF Buffers
  <2>4. CASE pool' = pool /\ (pool = OutputBuffers \/ DecoderGone)
    <3>1. stopper \in {"releasing", "closed", "thrown"}
      BY <2>2, <2>4 DEF Buffers, BuffersAreKept, DecoderGone
    <3>2. AtMostOneMore'
      BY <2>1, <2>2, <2>4, <3>1, <1>1 DEF Buffers, AtMostOneMore
    <3>3. QED
      BY <2>1, <2>4, <3>1, <3>2, <1>1, <1>2, <1>3 DEF Buffers, BuffersAreKept
  <2>5. QED
    BY <2>3, <2>4, <1>6 DEF ReleaseOutputBuffer
<1>7. QED
  BY <1>4, <1>5, <1>6 DEF PlayerThread

LEMMA StopPipeline == PInv /\ (BeginStop \/ Stopping \/ InterruptJoin) => PInv'
<1> SUFFICES ASSUME PInv, BeginStop \/ Stopping \/ InterruptJoin PROVE PInv'
  OBVIOUS
<1> USE OutputBuffersAssumption
    DEF PInv, Threads, decoding, Interrupts, Joined, PlayerJoined, Buffers,
        BuffersAreKept, Held, AtMostOneMore
<1>1. CASE BeginStop
  BY <1>1 DEF BeginStop
<1>2. CASE StopDecoder
  BY <1>2 DEF StopDecoder, InterruptsDecoder
<1>3. CASE JoinDecoder
  BY <1>3 DEF JoinDecoder, DecoderJoined
<1>4. CASE StopPlayer
  BY <1>4 DEF StopPlayer
<1>5. CASE JoinPlayer
  BY <1>5 DEF JoinPlayer
<1>6. CASE InterruptJoin
  BY <1>6 DEF InterruptJoin
<1>7. CASE StopNative
  BY <1>7 DEF StopNative, PutsBack
<1>8. CASE ReleaseNative
  BY <1>8 DEF ReleaseNative
<1>9. QED
  BY <1>1, <1>2, <1>3, <1>4, <1>5, <1>6, <1>7, <1>8 DEF Stopping

LEMMA PipelineInvariant == PipelineSpec => []PInv
<1>1. PInv /\ [PipelineNext]_allVars => PInv'
  <2> SUFFICES ASSUME PInv, [PipelineNext]_allVars PROVE PInv'
    OBVIOUS
  <2>1. CASE Network \/ PacketReceived \/ UNCHANGED allVars
    BY <2>1 DEF Network, PacketReceived, allVars, decoding, stopping, PInv,
                Threads, Joined, Buffers, BuffersAreKept, Held, AtMostOneMore
  <2>2. QED
    BY <2>1, DecoderPipeline, PlayerPipeline, StopPipeline DEF PipelineNext
<1>2. QED
  BY <1>1, InitPipeline, PTL DEF PipelineSpec

\* The ring keeps its type and each pool stays within its capacity, wherever
\* stop meets the threads.
THEOREM PipelineTypeCorrect == PipelineSpec => []PipelineTypeOK
<1>1. TypeOK /\ PInv => PipelineTypeOK
  BY OutputBuffersAssumption
     DEF PInv, Threads, Buffers, BuffersAreKept, Held, PipelineTypeOK
<1>2. QED
  BY <1>1, PipelineInvariant, SessionTypeCorrect, PTL

\* The native decoder is closed only when no thread decodes any more, unless the
\* RTSP thread was interrupted in the join of the decoder thread: an interrupted
\* join of the player thread does not matter.
THEOREM NativeIsOpenHolds == PipelineSpec => []NativeIsOpen
<1>1. PInv => NativeIsOpen
  BY DEF PInv, Threads, Joined, NativeIsOpen
<1>2. QED
  BY <1>1, PipelineInvariant, PTL

\* Every output buffer is in exactly one place until decoder.stop puts them back,
\* for any number of them and whichever joins were interrupted.
THEOREM BuffersAreKeptHolds == PipelineSpec => []BuffersAreKept
<1>1. PInv => BuffersAreKept
  BY DEF PInv, Buffers
<1>2. QED
  BY <1>1, PipelineInvariant, PTL

-----------------------------------------------------------------------------
(* The waits of the two threads: what every state shows of StopEnds.       *)

\* stop ends the threads one after the other: until the decoder thread is
\* joined nothing ends or interrupts the player thread.
PlayerServes ==
  stopper \in {"running", "flagged", "joining"} =>
    player # "done" /\ ~interrupted["player"]

Ends == PlayerServes /\ StopReachesTheDecoder

LEMMA DecoderEnds == PInv /\ Ends /\ DecoderThread => Ends'
<1> SUFFICES ASSUME PInv, Ends, DecoderThread PROVE Ends'
  OBVIOUS
<1> USE DEF stopping, Consumes, PInv, Threads
<1>1. UNCHANGED << player, stopper >> /\ decoder # "done"
  BY DEF DecoderThread, DequeueInputBuffer, GetFrame, GetNextBuffer, Wake,
         DecoderClock, DecoderSleep, TakeOutputBuffer, Decode
<1>2. interrupted'["player"] = interrupted["player"]
  BY DEF DecoderThread, DequeueInputBuffer, GetFrame, TakeFrame, DecoderClock,
         DecoderSleep, TakeOutputBuffer, Decode
<1>3. PlayerServes'
  BY <1>1, <1>2 DEF Ends, PlayerServes
<1>4. ASSUME stopper = "joining", decoder' \in {"poll", "get"}
      PROVE  interrupted'["decoder"]
  <2>1. ~DecoderMayGoOn
    BY <1>4 DEF DecoderMayGoOn
  <2>2. decoder \in {"poll", "get"} /\ UNCHANGED interrupted
    BY <2>1, <1>4
       DEF DecoderThread, DequeueInputBuffer, GetFrame, TakeFrame, DecoderTurns,
           DecoderClock, DecoderSleep, ToQueue, TakeOutputBuffer, Decode,
           DecoderGone, NativeStopped
  <2>3. QED
    BY <2>2, <1>4 DEF Ends, StopReachesTheDecoder
<1>5. QED
  BY <1>1, <1>3, <1>4 DEF Ends, StopReachesTheDecoder

LEMMA PlayerEnds == PInv /\ Ends /\ PlayerThread => Ends'
<1> SUFFICES ASSUME PInv, Ends, PlayerThread PROVE Ends'
  OBVIOUS
<1> USE DEF stopping, decoding, Consumes, PInv, Threads, Skips
<1>1. UNCHANGED << decoder, stopper >>
  BY DEF PlayerThread, DequeueOutputBuffer, PlayerClock, PlayerSleep, Write,
         ReleaseOutputBuffer
<1>2. interrupted'["decoder"] = interrupted["decoder"]
  BY DEF PlayerThread, DequeueOutputBuffer, PlayerClock, PlayerSleep, Write,
         ReleaseOutputBuffer
<1>3. ASSUME stopper \in {"running", "flagged", "joining"}
      PROVE  player' # "done" /\ ~interrupted'["player"]
  <2>1. ~PlayerMayEnd
    BY <1>3 DEF PlayerMayEnd
  <2>2. player # "done" /\ ~interrupted["player"]
    BY <1>3 DEF Ends, PlayerServes
  <2>3. interrupted' = interrupted
    BY <2>2
       DEF PlayerThread, DequeueOutputBuffer, PlayerClock, PlayerSleep, Write,
           ReleaseOutputBuffer
  <2>4. player = "release" => pool # OutputBuffers
    BY <1>3, <1>1, OutputBuffersAssumption DEF Buffers, BuffersAreKept, Held
  <2>5. player' # "done"
    BY <2>1, <2>2, <2>4, <1>1, <1>3
       DEF PlayerThread, DequeueOutputBuffer, PlayerTurns, PlayerClock, PlayerSleep,
           Write, ReleaseOutputBuffer, DecoderGone
  <2>6. QED
    BY <2>2, <2>3, <2>5
<1>4. QED
  BY <1>1, <1>2, <1>3 DEF Ends, PlayerServes, StopReachesTheDecoder

LEMMA StopEndsThreads ==
  PInv /\ Ends /\ (BeginStop \/ Stopping \/ InterruptJoin) => Ends'
<1> SUFFICES ASSUME PInv, Ends, BeginStop \/ Stopping \/ InterruptJoin PROVE Ends'
  OBVIOUS
<1> USE DEF decoding, Interrupts, PInv, Threads, Ends, PlayerServes,
            StopReachesTheDecoder
<1>1. CASE BeginStop
  BY <1>1 DEF BeginStop
<1>2. CASE StopDecoder
  BY <1>2 DEF StopDecoder, InterruptsDecoder
<1>3. CASE JoinDecoder \/ StopPlayer
  BY <1>3 DEF JoinDecoder, StopPlayer
<1>4. CASE JoinPlayer \/ StopNative \/ ReleaseNative
  BY <1>4 DEF JoinPlayer, StopNative, ReleaseNative
<1>5. CASE InterruptJoin
  BY <1>5 DEF InterruptJoin
<1>6. QED
  BY <1>1, <1>2, <1>3, <1>4, <1>5 DEF Stopping

LEMMA EndsInvariant == PipelineSpec => []Ends
<1>1. PipelineInit => Ends
  BY DEF PipelineInit, Ends, PlayerServes, StopReachesTheDecoder
<1>2. PInv /\ Ends /\ [PipelineNext]_allVars => Ends'
  <2> SUFFICES ASSUME PInv, Ends, [PipelineNext]_allVars PROVE Ends'
    OBVIOUS
  <2>1. CASE Network \/ PacketReceived \/ UNCHANGED allVars
    BY <2>1 DEF Network, PacketReceived, allVars, decoding, stopping,
                Ends, PlayerServes, StopReachesTheDecoder
  <2>2. QED
    BY <2>1, DecoderEnds, PlayerEnds, StopEndsThreads DEF PipelineNext
<1>3. QED
  BY <1>1, <1>2, PipelineInvariant, PTL DEF PipelineSpec

\* While stop waits for the decoder thread, that thread is on its way out: the
\* interrupt is pending, or was noticed, or the thread is past the last wait
\* that only an interrupt ends.
THEOREM StopReachesTheDecoderHolds == PipelineSpec => []StopReachesTheDecoder
<1>1. Ends => StopReachesTheDecoder
  BY DEF Ends
<1>2. QED
  BY <1>1, EndsInvariant, PTL

\* The decoder thread and the player thread never wait for each other, for any
\* number of output buffers: an empty pool means that the player thread has one,
\* unless it died or stop went past the decoder thread.
THEOREM BufferWillComeHolds == PipelineSpec => []BufferWillCome
<1>1. ASSUME PInv, Ends, decoder = "take", pool = 0, ~unjoined
      PROVE  \/ player \in {"clock", "sleep", "write", "release"}
             \/ player = "poll" /\ available > 0 /\ ~interrupted["player"]
             \/ player = "dead"
  <2>1. stopper \in {"running", "flagged", "joining"}
    BY <1>1 DEF PInv, Threads, Joined
  <2>2. player # "done" /\ ~interrupted["player"]
    BY <1>1, <2>1 DEF Ends, PlayerServes
  <2>3. player = "poll" => available = OutputBuffers
    BY <1>1, <2>1 DEF PInv, Buffers, BuffersAreKept, Held
  <2>4. QED
    BY <1>1, <2>2, <2>3, OutputBuffersAssumption DEF PInv, Threads
<1>2. PInv /\ Ends => BufferWillCome
  BY <1>1 DEF BufferWillCome
<1>3. QED
  BY <1>2, PipelineInvariant, EndsInvariant, PTL
=============================================================================
