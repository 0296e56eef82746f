--------------------------- MODULE ReceiverProofs ---------------------------
(***************************************************************************)
(* Proofs about Receiver, for every set of threads and every assignment of *)
(* events to them.                                                         *)
(***************************************************************************)
EXTENDS Receiver, TLAPS

Connected == "informDelegateConnected"
Disconnected == "informDelegateDisconnected"

\* What the proofs need to know of a row of the transition table: only the
\* synchronized handlers return to Idle, and report it last; a connection is
\* reported only on the way to a state that is not Idle, and after the decoder
\* exists if there is one to create.
RowOK(e, r) ==
  /\ r.next \in States \cup {Null}
  /\ Len(r.ops) \in Nat
  /\ r.next = "Idle" =>
       /\ e \in SynchronizedEvents
       /\ Len(r.ops) >= 1
       /\ r.ops[Len(r.ops)] = Disconnected
  /\ \A i \in 1..Len(r.ops) :
       /\ r.ops[i] = Connected /\ e # "onAirPlayStart" =>
            /\ r.next \notin {"Idle", Null}
            /\ e = "onStartMirroring" => i = Len(r.ops)
       /\ r.ops[i] = "createDecoder" => e = "onStartMirroring"

\* Every row of the table of the eleven State classes is of that form.
LEMMA TableRows ==
  ASSUME NEW s \in States, NEW e \in Events
  PROVE  RowOK(e, Reaction(s, e))
<1> USE DEF RowOK, Reply, Ignore, StartMirrorOps, Events, SynchronizedEvents,
            UnsynchronizedEvents, States, Null, Connected, Disconnected
<1>1. CASE s = "Idle"
  BY <1>1 DEF Reaction, IdleState
<1>2. CASE s = "EzScreenConnected"
  BY <1>2 DEF Reaction, EzScreenConnectedState
<1>3. CASE s = "AirPlayMirror"
  BY <1>3 DEF Reaction, AirPlayMirrorState
<1>4. CASE s = "AirPlayPhoto"
  BY <1>4 DEF Reaction, AirPlayPhotoState
<1>5. CASE s = "AirPlayPhotoWhenMirror"
  BY <1>5 DEF Reaction, AirPlayPhotoWhenMirrorState
<1>6. CASE s = "AirPlayPlayVideo"
  BY <1>6 DEF Reaction, AirPlayPlayVideoState
<1>7. CASE s = "AirPlayPlayVideoWhenMirror"
  BY <1>7 DEF Reaction, AirPlayPlayVideoWhenMirrorState
<1>8. CASE s = "AirPlayPlayVideoWhenAirTunesConnected"
  BY <1>8 DEF Reaction, AirPlayPlayVideoWhenAirTunesConnectedState
<1>9. CASE s = "AirTunesConnected"
  BY <1>9 DEF Reaction, AirTunesConnectedState
<1>10. CASE s = "AirTunesPlayMusic"
  BY <1>10 DEF Reaction, AirTunesPlayMusicState
<1>11. CASE s = "AirTunesPlayMusicWhenMirror"
  BY <1>11 DEF Reaction, AirTunesPlayMusicWhenMirrorState
<1>12. QED
  BY <1>1, <1>2, <1>3, <1>4, <1>5, <1>6, <1>7, <1>8, <1>9, <1>10, <1>11 DEF States

\* onAirPlayStart reports a connection and leaves the receiver idle.
NoAirPlayStart == \A t \in Threads : "onAirPlayStart" \notin Emits[t]

\* The type invariant, sharpened: a thread in a call handles an event, from a
\* state of the machine, at a step of the handler.
CallOK(c) ==
  /\ c.at # "idle" => /\ c.event \in Events
                      /\ NoAirPlayStart => c.event # "onAirPlayStart"
  /\ c.at = "handling" => c.from \in States /\ c.step >= 1

Target(t) == Handler(call[t]).next
Length(t) == Len(Handler(call[t]).ops)

\* The synchronized handlers exclude one another, whatever the unsynchronized
\* ones do: a thread inside one owns the monitor (StateContext, synchronized).
MonitorDiscipline ==
  \A t \in Threads :
    (lock = t) <=> (InCall(t) /\ call[t].event \in SynchronizedEvents)

\* A thread that may have reported a connection and has yet to leave Idle.
Connecting(t) ==
  /\ InCall(t)
  /\ Target(t) \notin {"Idle", Null}
  /\ call[t].event = "onStartMirroring" => call[t].step > Length(t)

Reporting == \E t \in Threads : Connecting(t)

\* A thread that is only left to store Idle.
Leaving(t) == InCall(t) /\ Target(t) = "Idle" /\ call[t].step > Length(t)

\* The inductive invariant.  If the listener believes in a connection while
\* the receiver is idle, or is about to be, some handler in flight made it.
IInv ==
  /\ TypeOK
  /\ MonitorDiscipline
  /\ \A t \in Threads : CallOK(call[t])
  /\ NoAirPlayStart =>
       /\ told /\ currentState = "Idle" => Reporting
       /\ \A u \in Threads : told /\ Leaving(u) => Reporting

LEMMA RowFacts ==
  ASSUME TypeOK, NEW t \in Threads, CallOK(call[t]), InCall(t)
  PROVE  RowOK(call[t].event, Handler(call[t]))
BY TableRows DEF TypeOK, CallOK, InCall, Handler

\* Initially nobody is in a call and the listener was told nothing.
LEMMA InitInvariant == Init => IInv
<1> SUFFICES ASSUME Init PROVE IInv
  OBVIOUS
<1>1. TypeOK
  BY DEF Init, TypeOK, NotInCall, States, Views, Players, Null
<1>2. \A t \in Threads : call[t].at = "idle"
  BY DEF Init, NotInCall
<1>3. MonitorDiscipline
  BY <1>2, ThreadsAssumption DEF Init, MonitorDiscipline, InCall
<1>4. ~told
  BY DEF Init
<1>5. QED
  BY <1>1, <1>2, <1>3, <1>4 DEF IInv, CallOK

\* Steps that leave the calls, the state and the listener alone.
LEMMA OutsideSteps ==
  ASSUME IInv, UNCHANGED << currentState, lock, call, told >>, TypeOK'
  PROVE  IInv'
BY DEF IInv, MonitorDiscipline, CallOK, InCall, Reporting, Connecting, Leaving,
       Target, Length, Handler

LEMMA CallStep ==
  ASSUME IInv, NEW t \in Threads, NEW e \in Events, Call(t, e)
  PROVE  IInv'
<1> USE DEF Call, screen, NotInCall
<1>1. TypeOK'
  BY DEF IInv, TypeOK, Null, States, Events
<1>2. \A u \in Threads : /\ call'[u].at = "handling" <=> call[u].at = "handling"
                        /\ call[u].at = "handling" => call'[u] = call[u]
  BY DEF IInv, TypeOK
<1>3. \A u \in Threads : CallOK(call'[u])
  <2>1. e \in Events /\ (NoAirPlayStart => e # "onAirPlayStart")
    BY DEF NoAirPlayStart
  <2>2. call'[t].at = "calling" /\ call'[t].event = e
    BY DEF IInv, TypeOK
  <2>3. \A u \in Threads \ {t} : call'[u] = call[u]
    BY DEF IInv, TypeOK
  <2>4. QED
    BY <2>1, <2>2, <2>3 DEF IInv, CallOK
<1>4. QED
  BY <1>1, <1>2, <1>3
     DEF IInv, MonitorDiscipline, InCall, Reporting, Connecting, Leaving,
         Target, Length, Handler

LEMMA EnterStep ==
  ASSUME IInv, NEW t \in Threads, Enter(t)
  PROVE  IInv'
<1> USE DEF Enter, screen
<1>1. TypeOK'
  BY DEF IInv, TypeOK
<1>2. \A u \in Threads \ {t} : call'[u] = call[u]
  BY DEF IInv, TypeOK
<1>3. /\ ~InCall(t) /\ call'[t].at = "handling" /\ call'[t].step = 1
      /\ call'[t].event = call[t].event /\ call'[t].from = currentState
  BY DEF IInv, TypeOK, InCall
<1>4. \A u \in Threads : CallOK(call'[u])
  BY <1>2, <1>3 DEF IInv, TypeOK, CallOK
<1>5. MonitorDiscipline'
  BY <1>2, <1>3, ThreadsAssumption DEF IInv, TypeOK, MonitorDiscipline, InCall
<1>6. Reporting => Reporting'
  BY <1>2, <1>3 DEF Reporting, Connecting, InCall, Target, Length, Handler
<1>7. ~Leaving(t)'
  BY <1>1, <1>3, <1>4, TableRows
     DEF Leaving, Target, Length, Handler, RowOK, CallOK, TypeOK
<1>8. \A u \in Threads : Leaving(u)' => Leaving(u)
  BY <1>2, <1>7 DEF Leaving, InCall, Target, Length, Handler
<1>9. QED
  BY <1>1, <1>4, <1>5, <1>6, <1>8 DEF IInv

\* The next operation of a call.
LEMMA StepOfCall ==
  ASSUME NEW c \in [at : {"idle", "calling", "handling"}, event : Events \cup {Null},
                   from : States \cup {Null}, step : Nat]
  PROVE  [c EXCEPT !.step = c.step + 1]
           \in [at : {"idle", "calling", "handling"}, event : Events \cup {Null},
                from : States \cup {Null}, step : Nat]
OBVIOUS

LEMMA OpStep ==
  ASSUME IInv, NEW t \in Threads, Step(t)
  PROVE  IInv'
<1> DEFINE c == call[t]
<1> USE DEF Step
<1>1. RowOK(c.event, Handler(c))
  BY RowFacts DEF IInv, InCall
<1>2. c.step \in 1..Len(Handler(c).ops)
  BY <1>1 DEF IInv, TypeOK, CallOK, RowOK
<1>3. /\ \A u \in Threads \ {t} : call'[u] = call[u]
      /\ call'[t] = [c EXCEPT !.step = c.step + 1]
  BY DEF IInv, TypeOK
<1>4. TypeOK'
  <2>1. views' \subseteq Views /\ player' \in Players
    BY DEF IInv, TypeOK, Perform, ShowMirrorView, ShowOnly, Hide, KeepViews, screen, Views, Players
  <2>2. decoder' \in BOOLEAN /\ clock' \in BOOLEAN
    BY DEF IInv, TypeOK, Perform, KeepMirror, StopMirrorDecoding, screen
  <2>3. told' \in BOOLEAN
    BY DEF IInv, TypeOK
  <2>4. call' \in [Threads -> [at : {"idle", "calling", "handling"},
                             event : Events \cup {Null},
                             from : States \cup {Null}, step : Nat]]
    <3>1. [c EXCEPT !.step = c.step + 1]
            \in [at : {"idle", "calling", "handling"}, event : Events \cup {Null},
                 from : States \cup {Null}, step : Nat]
      BY StepOfCall DEF IInv, TypeOK
    <3>2. call' = [call EXCEPT ![t] = [c EXCEPT !.step = c.step + 1]]
      BY DEF IInv, TypeOK
    <3>3. QED
      BY <3>1, <3>2 DEF IInv, TypeOK
  <2>5. /\ currentState' = currentState /\ lock' = lock
        /\ mirrorView' = mirrorView /\ surface' = surface /\ sps' = sps
    OBVIOUS
  <2>6. QED
    BY <2>1, <2>2, <2>3, <2>4, <2>5 DEF IInv, TypeOK
<1>5. \A u \in Threads : /\ call'[u].at = call[u].at
                        /\ call'[u].event = call[u].event
                        /\ call'[u].from = call[u].from
                        /\ call[u].step \in Nat
                        /\ call'[u].step \in Nat
                        /\ call'[u].step >= call[u].step
  BY <1>3 DEF IInv, TypeOK
<1>6. \A u \in Threads : CallOK(call'[u])
  BY <1>5 DEF IInv, CallOK
<1>7. MonitorDiscipline'
  BY <1>5 DEF IInv, MonitorDiscipline, InCall
<1>8. \A u \in Threads : Target(u)' = Target(u) /\ Length(u)' = Length(u)
  BY <1>5 DEF Target, Length, Handler
<1>9. Reporting => Reporting'
  <2>1. \A u \in Threads : Connecting(u) => Len(Handler(call[u]).ops) \in Nat
    BY RowFacts DEF IInv, Connecting, RowOK
  <2>2. QED
    BY <2>1, <1>5, <1>8 DEF Reporting, Connecting, InCall, Length
<1>10. CASE Op(c) = Connected
  <2> SUFFICES ASSUME NoAirPlayStart
               PROVE  Reporting'
    BY <1>4, <1>6, <1>7 DEF IInv
  <2>1. c.event # "onAirPlayStart"
    BY DEF IInv, CallOK
  <2>2. /\ Target(t) \notin {"Idle", Null}
        /\ c.event = "onStartMirroring" => c.step = Length(t)
    BY <1>1, <1>2, <1>10, <2>1 DEF Target, Length, Op, RowOK
  <2>3. call'[t].step = c.step + 1 /\ c.step \in Nat
    BY <1>3 DEF IInv, TypeOK
  <2>4. call'[t].at = "handling" /\ call'[t].event = c.event
    BY <1>5
  <2>5. Connecting(t)'
    BY <1>8, <2>2, <2>3, <2>4 DEF Connecting, InCall
  <2>6. QED
    BY <2>5 DEF Reporting
<1>11. CASE Op(c) = Disconnected
  BY <1>4, <1>6, <1>7, <1>11 DEF IInv, Disconnected
<1>12. CASE Op(c) \notin {Connected, Disconnected}
  <2>1. told' = told /\ currentState' = currentState
    BY <1>12 DEF Connected, Disconnected
  <2>2. ~Leaving(t)'
    <3>1. call'[t].step = c.step + 1
      BY <1>3 DEF IInv, TypeOK
    <3>2. ~(Target(t) = "Idle" /\ call'[t].step > Length(t))
      BY <3>1, <1>1, <1>2, <1>12 DEF Target, Length, Op, RowOK
    <3>3. QED
      BY <3>2, <1>8 DEF Leaving
  <2>3. \A u \in Threads : Leaving(u)' => Leaving(u)
    BY <2>2, <1>3, <1>8 DEF Leaving, InCall
  <2> HIDE DEF Step
  <2>4. NoAirPlayStart /\ told' /\ currentState' = "Idle" => Reporting'
    BY <2>1, <1>9 DEF IInv
  <2>5. \A u \in Threads : NoAirPlayStart /\ told' /\ Leaving(u)' => Reporting'
    BY <2>1, <2>3, <1>9 DEF IInv
  <2>6. QED
    BY <2>4, <2>5, <1>4, <1>6, <1>7 DEF IInv
<1>13. QED
  BY <1>10, <1>11, <1>12

LEMMA FailStep ==
  ASSUME IInv, NEW t \in Threads, DecoderFails(t)
  PROVE  IInv'
<1> DEFINE c == call[t]
<1> USE DEF DecoderFails, screen
<1>1. TypeOK'
  BY DEF IInv, TypeOK, NotInCall, Null, States, Events, SynchronizedEvents
<1>2. /\ \A u \in Threads \ {t} : call'[u] = call[u]
      /\ call'[t].at = "calling" /\ call'[t].event = "onStopMirroring"
  BY DEF IInv, TypeOK, NotInCall
<1>3. c.event = "onStartMirroring" /\ ~Connecting(t)
  <2>1. RowOK(c.event, Handler(c)) /\ c.step \in 1..Len(Handler(c).ops)
    BY RowFacts DEF IInv, TypeOK, CallOK, InCall, RowOK
  <2>2. QED
    BY <2>1 DEF Op, RowOK, Connecting, Length
<1>4. \A u \in Threads : CallOK(call'[u])
  BY <1>2 DEF IInv, CallOK, Events, SynchronizedEvents
<1>5. MonitorDiscipline'
  BY <1>2, <1>3, ThreadsAssumption
     DEF IInv, TypeOK, MonitorDiscipline, InCall, SynchronizedEvents
<1>6. Reporting => Reporting'
  BY <1>2, <1>3 DEF Reporting, Connecting, InCall, Target, Length, Handler
<1>7. \A u \in Threads : Leaving(u)' => Leaving(u)
  BY <1>2 DEF Leaving, InCall, Target, Length, Handler
<1>8. QED
  BY <1>1, <1>4, <1>5, <1>6, <1>7 DEF IInv

LEMMA StoreStep ==
  ASSUME IInv, NEW t \in Threads, Store(t)
  PROVE  IInv'
<1> USE DEF Store, screen
<1>1. TypeOK /\ CallOK(call[t]) /\ InCall(t)
  BY DEF IInv, InCall
<1>2. RowOK(call[t].event, Handler(call[t]))
  BY <1>1, RowFacts
<1>3. TypeOK'
  BY <1>2 DEF IInv, TypeOK, NotInCall, RowOK, Null
<1>4. /\ \A u \in Threads \ {t} : call'[u] = call[u]
      /\ call'[t] = NotInCall
  BY DEF IInv, TypeOK
<1>5. \A u \in Threads : CallOK(call'[u])
  BY <1>4 DEF IInv, CallOK, NotInCall
<1>6. MonitorDiscipline'
  BY <1>1, <1>4, ThreadsAssumption
     DEF IInv, TypeOK, MonitorDiscipline, InCall, NotInCall
<1>7. Reporting /\ ~Connecting(t) => Reporting'
  BY <1>4 DEF Reporting, Connecting, InCall, Target, Length, Handler
\* A handler on its way to Idle owns the monitor, so that t is the only one.
<1>8. \A u \in Threads : ~Leaving(u)'
  <2> SUFFICES ASSUME NEW u \in Threads, Leaving(u)' PROVE FALSE
    OBVIOUS
  <2>1. u # t /\ InCall(u) /\ Target(u) = "Idle"
    BY <1>4 DEF Leaving, InCall, NotInCall, Target, Handler
  <2>2. CallOK(call[u])
    BY DEF IInv
  <2>3. call[u].event \in SynchronizedEvents
    BY <1>1, <2>1, <2>2, RowFacts DEF RowOK, Target
  <2>4. QED
    BY <2>1, <2>3, ThreadsAssumption DEF IInv, MonitorDiscipline
<1>9. NoAirPlayStart /\ told' /\ currentState' = "Idle" => Reporting'
  <2>1. CASE Target(t) = Null
    <3>1. ~Connecting(t) /\ currentState' = currentState /\ told' = told
      BY <2>1 DEF Connecting, Target
    <3>2. QED
      BY <3>1, <1>7 DEF IInv
  <2>2. CASE Target(t) = "Idle"
    <3>1. ~Connecting(t) /\ told' = told
      BY <2>2 DEF Connecting
    <3>2. Leaving(t)
      BY <2>2, <1>1 DEF Leaving, Length
    <3>3. QED
      BY <3>1, <3>2, <1>7 DEF IInv
  <2>3. CASE Target(t) \notin {"Idle", Null}
    BY <2>3 DEF Target
  <2>4. QED
    BY <2>1, <2>2, <2>3
<1>10. QED
  BY <1>3, <1>5, <1>6, <1>8, <1>9 DEF IInv

\* The invariant is inductive, whatever threads deliver whatever events.
THEOREM InvariantHolds == Spec => []IInv
<1>1. IInv /\ [Next]_vars => IInv'
  <2> SUFFICES ASSUME IInv, [Next]_vars PROVE IInv'
    OBVIOUS
  <2>1. ASSUME NEW t \in Threads, NEW e \in Events, Call(t, e) PROVE IInv'
    BY <2>1, CallStep
  <2>2. ASSUME NEW t \in Threads, Enter(t) PROVE IInv'
    BY <2>2, EnterStep
  <2>3. ASSUME NEW t \in Threads, Step(t) PROVE IInv'
    BY <2>3, OpStep
  <2>4. ASSUME NEW t \in Threads, DecoderFails(t) PROVE IInv'
    BY <2>4, FailStep
  <2>5. ASSUME NEW t \in Threads, Store(t) PROVE IInv'
    BY <2>5, StoreStep
  <2>6. ASSUME NEW t \in Threads, Stop(t) PROVE IInv'
    BY <2>6, OutsideSteps DEF Stop, IInv, TypeOK, Players
  <2>7. ASSUME NEW t \in Threads, StopDisplay(t) PROVE IInv'
    BY <2>7, OutsideSteps DEF StopDisplay, ShowOnly, IInv, TypeOK, Players, Views
  <2>8. ASSUME NEW t \in Threads, CodecData(t) PROVE IInv'
    BY <2>8, OutsideSteps DEF CodecData, screen, IInv, TypeOK
  <2>9. CASE MediaEnded
    BY <2>9, OutsideSteps DEF MediaEnded, IInv, TypeOK, Players
  <2>10. CASE SurfaceTextureAvailable
    BY <2>10, OutsideSteps DEF SurfaceTextureAvailable, IInv, TypeOK
  <2>11. CASE SurfaceTextureDestroyed
    BY <2>11, OutsideSteps
       DEF SurfaceTextureDestroyed, StopMirrorDecoding, IInv, TypeOK
  <2>12. CASE UNCHANGED vars
    BY <2>12, OutsideSteps DEF vars, screen, IInv, TypeOK
  <2>13. QED
    BY <2>1, <2>2, <2>3, <2>4, <2>5, <2>6, <2>7, <2>8, <2>9, <2>10, <2>11, <2>12
       DEF Next
<1>2. QED
  BY <1>1, InitInvariant, PTL DEF Spec

\* Every variable of the receiver keeps its type: in particular no handler
\* stores anything but one of the eleven State objects (StateContext's null
\* test), and none runs past its last operation.
THEOREM TypeCorrect == Spec => []TypeOK
<1>1. IInv => TypeOK
  BY DEF IInv
<1>2. QED
  BY <1>1, InvariantHolds, PTL

\* However the unsynchronized handlers race with the others, an idle receiver
\* with no handler in flight has told its listener that nobody is connected.
THEOREM IdleMeansDisconnectedHolds ==
  ASSUME NoAirPlayStart
  PROVE  Spec => []IdleMeansDisconnected
<1>1. IInv => IdleMeansDisconnected
  BY DEF IInv, IdleMeansDisconnected, Quiescent, Reporting, Connecting
<1>2. QED
  BY <1>1, InvariantHolds, PTL
=============================================================================
