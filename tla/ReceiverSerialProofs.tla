------------------------ MODULE ReceiverSerialProofs ------------------------
(***************************************************************************)
(* Proofs about Receiver when its events come one after the other, about   *)
(* any number of threads that serve EZCast senders only, about the wait    *)
(* for the mirror's surface, and about the threads this commit starts.     *)
(***************************************************************************)
EXTENDS ReceiverProofs

\* One thread delivers all events but onAirPlayStart, which leaves the receiver
\* idle; AirPlay's are among them, so that the mirror has a view.
Serial == (\A t, u \in Threads : t = u) /\ NoAirPlayStart /\ ServesAirPlay

Reports == {Connected, Disconnected}

\* The operations that stop a video, and those that take a photo off.
StopsVideo ==
  {"stopVideo", "displayImage", "displayUrl", "loadEzScreenVideo",
   "showMusicView", "showPhotoView", "showMirrorView"}
HidesPhoto == (StopsVideo \ {"stopVideo", "showPhotoView"}) \cup {"hidePhotoView"}

\* The states with a mirror session, behind whatever covers it.
MirrorStates ==
  {"AirPlayMirror", "AirPlayPhotoWhenMirror", "AirPlayPlayVideoWhenMirror",
   "AirTunesPlayMusicWhenMirror"}

\* The state a reaction r to an event in s leads to.
Final(s, r) == IF r.next = Null THEN s ELSE r.next

\* The operation at place i of reaction r, if there is one.
At(r, i) == IF i \in 1..Len(r.ops) THEN r.ops[i] ELSE Null

Has(r, ops) == \E i \in 1..Len(r.ops) : r.ops[i] \in ops

\* A row reports exactly the changes between idle and not idle, once and after
\* the decoder exists.
ReportRow(s, r) ==
  /\ \A i \in 1..Len(r.ops) :
       /\ r.ops[i] = Connected => s = "Idle" /\ Final(s, r) # "Idle"
       /\ r.ops[i] = Disconnected => s # "Idle" /\ Final(s, r) = "Idle"
  /\ \A i, j \in 1..Len(r.ops) :
       r.ops[j] \in Reports =>
         /\ r.ops[i] \in Reports => i = j
         /\ r.ops[i] = "createDecoder" => i < j
  /\ (s = "Idle") # (Final(s, r) = "Idle") =>
       At(r, 1) \in Reports \/ At(r, Len(r.ops)) \in Reports

\* A row that starts a video, or shows a photo, leads to a state that owns it,
\* and one that leaves these states first ends it.
OwnerRow(s, r, starts, ends, owners) ==
  /\ \A i \in 1..Len(r.ops) :
       r.ops[i] = starts => Final(s, r) \in owners
  /\ \A i, j \in 1..Len(r.ops) : ~(r.ops[i] = starts /\ r.ops[j] = "createDecoder")
  /\ s \in owners /\ Final(s, r) \notin owners => At(r, 1) \in ends

\* A row shows the mirror with a clock, and takes the clock only where the
\* mirror ends.
ClockRow(s, r) ==
  /\ Final(s, r) \in MirrorStates =>
       \/ s \in MirrorStates
       \/ "createMirrorClock" \in {At(r, 3), At(r, 4)}
  /\ \A i \in 1..Len(r.ops) :
       /\ r.ops[i] = "stopMirror" => Final(s, r) \notin MirrorStates
       /\ r.ops[i] = "showMirrorView" =>
            \/ s \in MirrorStates /\ Final(s, r) \in MirrorStates
            \/ At(r, i + 2) = "createMirrorClock"
       /\ r.ops[i] = "createDecoder" => At(r, i - 1) = "createMirrorClock"
  /\ \A i, j \in 1..Len(r.ops) :
       ~(r.ops[i] = "createMirrorClock" /\ r.ops[j] = "stopMirror")

-----------------------------------------------------------------------------
Row(t) == Handler(call[t])
Goal(t) == Final(call[t].from, Row(t))

Done(t, op) == \E i \in 1..Length(t) : i < call[t].step /\ Row(t).ops[i] = op
ToCome(t, ops) == \E i \in 1..Length(t) : i >= call[t].step /\ Row(t).ops[i] \in ops

\* The mirror has its clock.
ClockKept == currentState \in MirrorStates \/ "mirror" \in views \/ decoder => clock

\* The listener and the screen between two handlers ...
Settled ==
  /\ told <=> currentState # "Idle"
  /\ player = "airplay" => currentState \in VideoStates
  /\ "photo" \in views => currentState \in PhotoStates
  /\ ClockKept

\* ... and in the middle of one.
Listening(t) ==
  told <=> IF ToCome(t, Reports) THEN call[t].from # "Idle" ELSE Goal(t) # "Idle"

Owned(t, starts, ends, owners) ==
  /\ Goal(t) \in owners \/ ToCome(t, ends)
  /\ call[t].from \in owners \/ Done(t, starts)

Clocked(t) ==
  /\ Goal(t) \in MirrorStates \/ "mirror" \in views \/ decoder
     => clock \/ ToCome(t, {"createMirrorClock"})
  /\ call[t].from \in MirrorStates => clock \/ Has(Row(t), {"stopMirror"})
  /\ Done(t, "createMirrorClock") => clock

Handling(t) ==
  /\ call[t].from = currentState
  /\ Listening(t)
  /\ player = "airplay" => Owned(t, "loadVideo", StopsVideo, VideoStates)
  /\ "photo" \in views => Owned(t, "showPhotoView", HidesPhoto, PhotoStates)
  /\ Clocked(t)

SInv ==
  /\ \A t \in Threads : InCall(t) => Handling(t)
  /\ Quiescent => Settled

-----------------------------------------------------------------------------
(* The rows.                                                               *)

RowsOK(s, r) ==
  /\ ReportRow(s, r)
  /\ OwnerRow(s, r, "loadVideo", StopsVideo, VideoStates)
  /\ OwnerRow(s, r, "showPhotoView", HidesPhoto, PhotoStates)
  /\ ClockRow(s, r)

LEMMA SerialRows ==
  ASSUME NEW s \in States, NEW e \in Events, e # "onAirPlayStart"
  PROVE  RowsOK(s, Reaction(s, e))
<1> DEFINE r == Reaction(s, e)
<1> USE DEF At, Final, Reply, Ignore, StartMirrorOps, Events, SynchronizedEvents,
            UnsynchronizedEvents, States, Null, Connected, Disconnected
<1>1. CASE s = "Idle"
  <2> USE <1>1 DEF Reaction, IdleState
  <2>1. ReportRow(s, r)
    BY DEF ReportRow, Reports
  <2>2. OwnerRow(s, r, "loadVideo", StopsVideo, VideoStates)
    BY DEF OwnerRow, StopsVideo, VideoStates
  <2>3. OwnerRow(s, r, "showPhotoView", HidesPhoto, PhotoStates)
    BY DEF OwnerRow, StopsVideo, HidesPhoto, PhotoStates
  <2>4. ClockRow(s, r)
    BY SMTT(60) DEF ClockRow, MirrorStates
  <2>5. QED
    BY <2>1, <2>2, <2>3, <2>4 DEF RowsOK
<1>2. CASE s = "EzScreenConnected"
  <2> USE <1>2 DEF Reaction, EzScreenConnectedState
  <2>1. ReportRow(s, r)
    BY DEF ReportRow, Reports
  <2>2. OwnerRow(s, r, "loadVideo", StopsVideo, VideoStates)
    BY DEF OwnerRow, StopsVideo, VideoStates
  <2>3. OwnerRow(s, r, "showPhotoView", HidesPhoto, PhotoStates)
    BY DEF OwnerRow, StopsVideo, HidesPhoto, PhotoStates
  <2>4. ClockRow(s, r)
    <3>1. CASE e \in {"onStopMirroring", "onDisplayUrl"}
      BY <3>1, SMTT(30) DEF ClockRow, MirrorStates
    <3>2. CASE e \notin {"onStopMirroring", "onDisplayUrl"}
      BY <3>2, SMTT(30) DEF ClockRow, MirrorStates
    <3>3. QED
      BY <3>1, <3>2
  <2>5. QED
    BY <2>1, <2>2, <2>3, <2>4 DEF RowsOK
<1>3. CASE s = "AirPlayMirror"
  <2> USE <1>3 DEF Reaction, AirPlayMirrorState
  <2>1. ReportRow(s, r)
    BY DEF ReportRow, Reports
  <2>2. OwnerRow(s, r, "loadVideo", StopsVideo, VideoStates)
    BY DEF OwnerRow, StopsVideo, VideoStates
  <2>3. OwnerRow(s, r, "showPhotoView", HidesPhoto, PhotoStates)
    BY DEF OwnerRow, StopsVideo, HidesPhoto, PhotoStates
  <2>4. ClockRow(s, r)
    BY SMTT(60) DEF ClockRow, MirrorStates
  <2>5. QED
    BY <2>1, <2>2, <2>3, <2>4 DEF RowsOK
<1>4. CASE s = "AirPlayPhoto"
  <2> USE <1>4 DEF Reaction, AirPlayPhotoState
  <2>1. ReportRow(s, r)
    BY DEF ReportRow, Reports
  <2>2. OwnerRow(s, r, "loadVideo", StopsVideo, VideoStates)
    BY DEF OwnerRow, StopsVideo, VideoStates
  <2>3. OwnerRow(s, r, "showPhotoView", HidesPhoto, PhotoStates)
    BY DEF OwnerRow, StopsVideo, HidesPhoto, PhotoStates
  <2>4. ClockRow(s, r)
    BY SMTT(60) DEF ClockRow, MirrorStates
  <2>5. QED
    BY <2>1, <2>2, <2>3, <2>4 DEF RowsOK
<1>5. CASE s = "AirPlayPhotoWhenMirror"
  <2> USE <1>5 DEF Reaction, AirPlayPhotoWhenMirrorState
  <2>1. ReportRow(s, r)
    BY DEF ReportRow, Reports
  <2>2. OwnerRow(s, r, "loadVideo", StopsVideo, VideoStates)
    BY DEF OwnerRow, StopsVideo, VideoStates
  <2>3. OwnerRow(s, r, "showPhotoView", HidesPhoto, PhotoStates)
    BY DEF OwnerRow, StopsVideo, HidesPhoto, PhotoStates
  <2>4. ClockRow(s, r)
    BY SMTT(60) DEF ClockRow, MirrorStates
  <2>5. QED
    BY <2>1, <2>2, <2>3, <2>4 DEF RowsOK
<1>6. CASE s = "AirPlayPlayVideo"
  <2> USE <1>6 DEF Reaction, AirPlayPlayVideoState
  <2>1. ReportRow(s, r)
    BY DEF ReportRow, Reports
  <2>2. OwnerRow(s, r, "loadVideo", StopsVideo, VideoStates)
    BY DEF OwnerRow, StopsVideo, VideoStates
  <2>3. OwnerRow(s, r, "showPhotoView", HidesPhoto, PhotoStates)
    BY DEF OwnerRow, StopsVideo, HidesPhoto, PhotoStates
  <2>4. ClockRow(s, r)
    <3> USE DEF ClockRow, MirrorStates
    <3>1. CASE e = "onStartMirroring"
      <4>1. r.next = "AirPlayMirror" /\ r.ops = << "stopVideo", "showMirrorView",
              "stopMirrorDecoding", "createMirrorClock", "createDecoder" >>
        BY <3>1
      <4>2. QED
        BY <4>1
    <3>2. CASE e # "onStartMirroring"
      BY <3>2
    <3>3. QED
      BY <3>1, <3>2
  <2>5. QED
    BY <2>1, <2>2, <2>3, <2>4 DEF RowsOK
<1>7. CASE s = "AirPlayPlayVideoWhenMirror"
  <2> USE <1>7 DEF Reaction, AirPlayPlayVideoWhenMirrorState
  <2>1. ReportRow(s, r)
    BY DEF ReportRow, Reports
  <2>2. OwnerRow(s, r, "loadVideo", StopsVideo, VideoStates)
    BY DEF OwnerRow, StopsVideo, VideoStates
  <2>3. OwnerRow(s, r, "showPhotoView", HidesPhoto, PhotoStates)
    BY DEF OwnerRow, StopsVideo, HidesPhoto, PhotoStates
  <2>4. ClockRow(s, r)
    BY SMTT(60) DEF ClockRow, MirrorStates
  <2>5. QED
    BY <2>1, <2>2, <2>3, <2>4 DEF RowsOK
<1>8. CASE s = "AirPlayPlayVideoWhenAirTunesConnected"
  <2> USE <1>8 DEF Reaction, AirPlayPlayVideoWhenAirTunesConnectedState
  <2>1. ReportRow(s, r)
    BY DEF ReportRow, Reports
  <2>2. OwnerRow(s, r, "loadVideo", StopsVideo, VideoStates)
    BY DEF OwnerRow, StopsVideo, VideoStates
  <2>3. OwnerRow(s, r, "showPhotoView", HidesPhoto, PhotoStates)
    BY DEF OwnerRow, StopsVideo, HidesPhoto, PhotoStates
  <2>4. ClockRow(s, r)
    BY SMTT(60) DEF ClockRow, MirrorStates
  <2>5. QED
    BY <2>1, <2>2, <2>3, <2>4 DEF RowsOK
<1>9. CASE s = "AirTunesConnected"
  <2> USE <1>9 DEF Reaction, AirTunesConnectedState
  <2>1. ReportRow(s, r)
    BY DEF ReportRow, Reports
  <2>2. OwnerRow(s, r, "loadVideo", StopsVideo, VideoStates)
    BY DEF OwnerRow, StopsVideo, VideoStates
  <2>3. OwnerRow(s, r, "showPhotoView", HidesPhoto, PhotoStates)
    BY DEF OwnerRow, StopsVideo, HidesPhoto, PhotoStates
  <2>4. ClockRow(s, r)
    BY SMTT(60) DEF ClockRow, MirrorStates
  <2>5. QED
    BY <2>1, <2>2, <2>3, <2>4 DEF RowsOK
<1>10. CASE s = "AirTunesPlayMusic"
  <2> USE <1>10 DEF Reaction, AirTunesPlayMusicState
  <2>1. ReportRow(s, r)
    BY DEF ReportRow, Reports
  <2>2. OwnerRow(s, r, "loadVideo", StopsVideo, VideoStates)
    BY DEF OwnerRow, StopsVideo, VideoStates
  <2>3. OwnerRow(s, r, "showPhotoView", HidesPhoto, PhotoStates)
    BY DEF OwnerRow, StopsVideo, HidesPhoto, PhotoStates
  <2>4. ClockRow(s, r)
    BY SMTT(60) DEF ClockRow, MirrorStates
  <2>5. QED
    BY <2>1, <2>2, <2>3, <2>4 DEF RowsOK
<1>11. CASE s = "AirTunesPlayMusicWhenMirror"
  <2> USE <1>11 DEF Reaction, AirTunesPlayMusicWhenMirrorState
  <2>1. ReportRow(s, r)
    BY DEF ReportRow, Reports
  <2>2. OwnerRow(s, r, "loadVideo", StopsVideo, VideoStates)
    BY DEF OwnerRow, StopsVideo, VideoStates
  <2>3. OwnerRow(s, r, "showPhotoView", HidesPhoto, PhotoStates)
    BY DEF OwnerRow, StopsVideo, HidesPhoto, PhotoStates
  <2>4. ClockRow(s, r)
    BY SMTT(60) DEF ClockRow, MirrorStates
  <2>5. QED
    BY <2>1, <2>2, <2>3, <2>4 DEF RowsOK
<1>12. QED
  BY <1>1, <1>2, <1>3, <1>4, <1>5, <1>6, <1>7, <1>8, <1>9, <1>10, <1>11 DEF States
-----------------------------------------------------------------------------
(* The invariant.                                                          *)

LEMMA RowInFlight ==
  ASSUME IInv, NoAirPlayStart, NEW t \in Threads, InCall(t)
  PROVE  /\ RowsOK(call[t].from, Row(t))
         /\ Length(t) \in Nat /\ call[t].step \in Nat \ {0}
         /\ call[t].from \in States
<1>1. CallOK(call[t]) /\ TypeOK
  BY DEF IInv
<1>2. call[t].event \in Events /\ call[t].event # "onAirPlayStart"
  BY <1>1 DEF CallOK, InCall
<1>3. call[t].from \in States /\ call[t].step \in Nat \ {0}
  BY <1>1 DEF CallOK, InCall, TypeOK
<1>4. Length(t) \in Nat
  BY <1>1, RowFacts DEF RowOK, Length
<1>5. QED
  BY <1>2, <1>3, <1>4, SerialRows DEF Row, Handler

\* A handler that begins has its whole row before it ...
LEMMA EnterFacts ==
  ASSUME IInv, NoAirPlayStart, NEW t \in Threads, Enter(t)
  PROVE  LET r == Reaction(currentState, call[t].event) IN
         /\ call'[t].at = "handling" /\ call'[t].event = call[t].event
         /\ call'[t].from = currentState /\ call'[t].step = 1
         /\ UNCHANGED << currentState, told, views, player, decoder, clock >>
         /\ RowsOK(currentState, r) /\ Len(r.ops) \in Nat
         /\ Row(t)' = r /\ Goal(t)' = Final(currentState, r)
         /\ \A op : ~Done(t, op)'
         /\ \A ops : ToCome(t, ops)' <=> \E i \in 1..Len(r.ops) : r.ops[i] \in ops
<1> DEFINE r == Reaction(currentState, call[t].event)
<1>1. /\ call'[t].at = "handling" /\ call'[t].event = call[t].event
      /\ call'[t].from = currentState /\ call'[t].step = 1
      /\ UNCHANGED << currentState, told, views, player, decoder, clock >>
  BY DEF IInv, TypeOK, Enter, screen
<1>2. RowsOK(currentState, r) /\ Len(r.ops) \in Nat
  <2>1. CallOK(call[t]) /\ currentState \in States
    BY DEF IInv, TypeOK
  <2>2. call[t].event \in Events /\ call[t].event # "onAirPlayStart"
    BY <2>1 DEF CallOK, Enter
  <2>3. QED
    BY <2>1, <2>2, SerialRows, TableRows DEF RowOK
<1>3. Row(t)' = r /\ Length(t)' = Len(r.ops)
  BY <1>1 DEF Row, Length, Handler
<1>4. QED
  BY <1>1, <1>2, <1>3 DEF Goal, Done, ToCome

\* ... so that the clock it needs is there, or is among the operations to come.
LEMMA EnterClocked ==
  ASSUME IInv, NoAirPlayStart, ClockKept, NEW t \in Threads, Enter(t)
  PROVE  Clocked(t)'
<1> DEFINE r == Reaction(currentState, call[t].event)
<1>1. /\ call'[t].from = currentState
      /\ UNCHANGED << views, decoder, clock >>
      /\ ClockRow(currentState, r) /\ Len(r.ops) \in Nat
      /\ Row(t)' = r /\ Goal(t)' = Final(currentState, r)
      /\ \A op : ~Done(t, op)'
      /\ \A ops : ToCome(t, ops)' <=> \E i \in 1..Len(r.ops) : r.ops[i] \in ops
  BY EnterFacts DEF RowsOK
<1> HIDE DEF r
<1>2. \A i : At(r, i) = "createMirrorClock" => ToCome(t, {"createMirrorClock"})'
  BY <1>1 DEF At, Null
<1>3. Goal(t)' \in MirrorStates => clock \/ ToCome(t, {"createMirrorClock"})'
  BY <1>1, <1>2 DEF ClockKept, ClockRow
<1>4. QED
  BY <1>1, <1>3 DEF ClockKept, Clocked

\* A step of a handler performs the operation at its place of the row.
LEMMA StepFacts ==
  ASSUME IInv, NoAirPlayStart, NEW t \in Threads, Step(t)
  PROVE  LET op == Row(t).ops[call[t].step] IN
         /\ InCall(t) /\ RowsOK(call[t].from, Row(t))
         /\ call[t].step \in 1..Length(t) /\ call[t].step \in Nat /\ Length(t) \in Nat
         /\ call'[t].at = "handling" /\ call'[t].event = call[t].event
         /\ call'[t].from = call[t].from /\ call'[t].step = call[t].step + 1
         /\ currentState' = currentState /\ Perform(op)
         /\ told' = (IF op = Connected THEN TRUE
                     ELSE IF op = Disconnected THEN FALSE ELSE told)
         /\ Row(t)' = Row(t) /\ Goal(t)' = Goal(t) /\ Length(t)' = Length(t)
         /\ \A o : Done(t, o)' <=> Done(t, o) \/ o = op
         /\ \A ops : ToCome(t, ops) <=> ToCome(t, ops)' \/ op \in ops
<1> DEFINE k == call[t].step
           op == Row(t).ops[k]
<1>1. InCall(t)
  BY DEF Step, InCall
<1>2. k \in 1..Length(t) /\ RowsOK(call[t].from, Row(t)) /\ Op(call[t]) = op
  BY <1>1, RowInFlight DEF Step, Op, Row, Length
<1>3. k \in Nat /\ Length(t) \in Nat
  BY <1>1, RowInFlight
<1>4. /\ call'[t].at = "handling" /\ call'[t].event = call[t].event
      /\ call'[t].from = call[t].from /\ call'[t].step = k + 1
      /\ currentState' = currentState
  BY DEF IInv, TypeOK, Step
<1>5. Row(t)' = Row(t) /\ Length(t)' = Length(t) /\ Goal(t)' = Goal(t)
  BY <1>4 DEF Row, Length, Handler, Goal
<1>6. \A i \in 1..Length(t) : /\ i < k + 1 <=> i < k \/ i = k
                             /\ i >= k <=> i >= k + 1 \/ i = k
  BY <1>3
<1>7. /\ \A o : Done(t, o)' <=> Done(t, o) \/ o = op
      /\ \A ops : ToCome(t, ops) <=> ToCome(t, ops)' \/ op \in ops
  BY <1>2, <1>4, <1>5, <1>6 DEF Done, ToCome
<1>8. Perform(op)
  BY <1>2 DEF Step
<1>9. told' = (IF op = Connected THEN TRUE ELSE IF op = Disconnected THEN FALSE ELSE told)
  BY <1>2 DEF Step, Connected, Disconnected
<1>10. QED
  BY <1>1, <1>2, <1>3, <1>4, <1>5, <1>7, <1>8, <1>9

\* It keeps what the listener is told in step with the row ...
LEMMA ListeningStep ==
  ASSUME IInv, NoAirPlayStart, NEW t \in Threads, Step(t), Listening(t)
  PROVE  Listening(t)'
<1> DEFINE r == Row(t)
           k == call[t].step
           op == r.ops[k]
<1>1. /\ RowsOK(call[t].from, r) /\ k \in 1..Length(t) /\ k \in Nat
      /\ call'[t].from = call[t].from /\ call'[t].step = k + 1
      /\ told' = (IF op = Connected THEN TRUE ELSE IF op = Disconnected THEN FALSE ELSE told)
      /\ Row(t)' = r /\ Goal(t)' = Goal(t) /\ Length(t)' = Length(t)
      /\ \A ops : ToCome(t, ops) <=> ToCome(t, ops)' \/ op \in ops
  BY StepFacts
<1>2. \A i \in 1..Length(t) :
        /\ r.ops[i] = Connected => call[t].from = "Idle" /\ Goal(t) # "Idle"
        /\ r.ops[i] = Disconnected => call[t].from # "Idle" /\ Goal(t) = "Idle"
  BY <1>1 DEF RowsOK, ReportRow, Length, Row, Goal
<1>3. op \in Reports => ~ToCome(t, Reports)'
  <2>1. \A i \in 1..Length(t) : op \in Reports /\ r.ops[i] \in Reports => i = k
    BY <1>1 DEF RowsOK, ReportRow, Length, Row
  <2>2. QED
    BY <1>1, <2>1 DEF ToCome
<1>4. CASE op = Connected
  BY <1>1, <1>2, <1>3, <1>4 DEF Listening, Reports
<1>5. CASE op = Disconnected
  BY <1>1, <1>2, <1>3, <1>5 DEF Listening, Reports, Connected, Disconnected
<1>6. CASE op \notin Reports
  <2>1. ToCome(t, Reports) <=> ToCome(t, Reports)'
    BY <1>6, <1>1
  <2>2. told' = told
    BY <1>1, <1>6 DEF Reports
  <2>3. QED
    BY <2>1, <2>2, <1>1 DEF Listening
<1>7. QED
  BY <1>4, <1>5, <1>6 DEF Reports

\* ... and the mirror's clock in step with the mirror.
LEMMA ClockedStep ==
  ASSUME IInv, NoAirPlayStart, NEW t \in Threads, Step(t), Clocked(t)
  PROVE  Clocked(t)'
<1> DEFINE r == Row(t)
           k == call[t].step
           op == r.ops[k]
           cmc == "createMirrorClock"
<1>1. /\ RowsOK(call[t].from, r) /\ k \in 1..Length(t) /\ k \in Nat /\ Length(t) \in Nat
      /\ call'[t].from = call[t].from /\ Perform(op)
      /\ Row(t)' = r /\ Goal(t)' = Goal(t) /\ Length(t)' = Length(t)
      /\ \A o : Done(t, o)' <=> Done(t, o) \/ o = op
      /\ \A ops : ToCome(t, ops) <=> ToCome(t, ops)' \/ op \in ops
  BY StepFacts
<1>2. /\ op = cmc => clock'
      /\ op = "stopMirror" => "mirror" \notin views' /\ ~decoder'
      /\ op \notin {cmc, "stopMirror"} => clock' = clock
      /\ op \notin {"showMirrorView", "stopMirror"} =>
           ("mirror" \in views' => "mirror" \in views)
      /\ op \notin {"createDecoder", "stopMirror"} => (decoder' => decoder)
  BY <1>1 DEF Perform, ShowOnly, Hide, KeepViews, KeepMirror, StopMirrorDecoding, screen
<1>3. /\ op = "stopMirror" => Goal(t) \notin MirrorStates
      /\ op = "stopMirror" => \A i \in 1..Length(t) : r.ops[i] # cmc
      /\ op = "createDecoder" => At(r, k - 1) = cmc
      /\ op = "showMirrorView" =>
           \/ call[t].from \in MirrorStates /\ Goal(t) \in MirrorStates
           \/ At(r, k + 2) = cmc
  BY <1>1 DEF RowsOK, ClockRow, Length, Row, Goal
<1>4. op = "createDecoder" => Done(t, cmc)
  BY <1>1, <1>3 DEF At, Done, Null, Length, Row
<1>5. op = "showMirrorView" => Goal(t) \in MirrorStates \/ ToCome(t, {cmc})
  <2>1. At(r, k + 2) = cmc => ToCome(t, {cmc})
    BY <1>1 DEF At, ToCome, Null, Length, Row
  <2>2. QED
    BY <1>3, <2>1
<1>6. CASE op = "stopMirror"
  <2>1. ~Done(t, cmc)'
    BY <1>3, <1>6, <1>1 DEF Done
  <2>2. Has(r, {"stopMirror"})
    BY <1>6, <1>1 DEF Has, Length, Row
  <2>3. QED
    BY <2>1, <2>2, <1>1, <1>2, <1>3, <1>6 DEF Clocked
<1>7. CASE op = cmc
  BY <1>2, <1>7 DEF Clocked
<1>8. CASE op \notin {cmc, "stopMirror"}
  <2>1. ToCome(t, {cmc}) <=> ToCome(t, {cmc})'
    BY <1>8, <1>1
  <2>2. Done(t, cmc)' <=> Done(t, cmc)
    BY <1>8, <1>1
  <2>3. clock' = clock
    BY <1>2, <1>8
  <2>4. QED
    BY <2>1, <2>2, <2>3, <1>1, <1>2, <1>4, <1>5, <1>8 DEF Clocked
<1>9. QED
  BY <1>6, <1>7, <1>8

\* What others do while the handler of t runs leaves its mirror clocked.
LEMMA ClockedStays ==
  ASSUME NEW t \in Threads, Clocked(t), call'[t] = call[t], clock' = clock,
         "mirror" \in views' => "mirror" \in views,
         decoder' => decoder \/ "mirror" \in views
  PROVE  Clocked(t)'
<1>1. /\ Row(t)' = Row(t) /\ Goal(t)' = Goal(t)
      /\ \A ops : ToCome(t, ops)' <=> ToCome(t, ops)
      /\ \A op : Done(t, op)' <=> Done(t, op)
  BY DEF Row, Handler, Goal, ToCome, Done, Length
<1>2. QED
  BY <1>1 DEF Clocked

\* createDecoder fails before anything is reported, and after the clock exists.
LEMMA FailFacts ==
  ASSUME IInv, NoAirPlayStart, NEW t \in Threads, DecoderFails(t)
  PROVE  /\ InCall(t) /\ call'[t].at = "calling"
         /\ UNCHANGED << currentState, told, views, player, decoder, clock >>
         /\ RowsOK(call[t].from, Row(t))
         /\ call[t].step \in 1..Length(t)
         /\ Row(t).ops[call[t].step] = "createDecoder"
         /\ Listening(t) => (told <=> call[t].from # "Idle")
         /\ Clocked(t) => clock
<1> DEFINE r == Row(t)
           k == call[t].step
<1>1. InCall(t) /\ call'[t].at = "calling"
      /\ UNCHANGED << currentState, told, views, player, decoder, clock >>
  BY DEF IInv, TypeOK, DecoderFails, screen, NotInCall, InCall
<1>2. k \in 1..Length(t) /\ r.ops[k] = "createDecoder" /\ RowsOK(call[t].from, r)
  BY <1>1, RowInFlight DEF DecoderFails, Op, Row, Length
<1>3. Listening(t) => (told <=> call[t].from # "Idle")
  <2>1. \A i \in 1..Length(t) : r.ops[i] \in Reports => k < i
    BY <1>2 DEF RowsOK, ReportRow, Length, Row
  <2>2. ToCome(t, Reports) \/ (call[t].from = "Idle" <=> Goal(t) = "Idle")
    <3>1. CASE \E i \in 1..Length(t) : r.ops[i] \in Reports
      BY <2>1, <3>1, <1>1, RowInFlight DEF ToCome
    <3>2. CASE \A i \in 1..Length(t) : r.ops[i] \notin Reports
      <4>1. At(r, 1) \notin Reports /\ At(r, Len(r.ops)) \notin Reports
        BY <3>2 DEF At, Length, Row, Reports, Null, Connected, Disconnected
      <4>2. QED
        BY <4>1, <1>2 DEF RowsOK, ReportRow, Goal
    <3>3. QED
      BY <3>1, <3>2
  <2>3. QED
    BY <2>2 DEF Listening
<1>4. Clocked(t) => clock
  <2>1. At(r, k - 1) = "createMirrorClock"
    BY <1>2 DEF RowsOK, ClockRow, Length, Row
  <2>2. Done(t, "createMirrorClock")
    BY <2>1, <1>1, <1>2, RowInFlight DEF At, Done, Null, Length, Row
  <2>3. QED
    BY <2>2 DEF Clocked
<1>5. QED
  BY <1>1, <1>2, <1>3, <1>4

LEMMA EnterSerial ==
  ASSUME IInv, SInv, Serial, NEW t \in Threads, Enter(t)
  PROVE  SInv'
<1> DEFINE r == Reaction(currentState, call[t].event)
<1>1. (\A u \in Threads : u = t) /\ NoAirPlayStart
  BY DEF Serial
<1>2. Settled
  BY <1>1 DEF SInv, Quiescent, InCall, Enter
<1>3. /\ call'[t].at = "handling" /\ call'[t].from = currentState
      /\ UNCHANGED << currentState, told, views, player, decoder, clock >>
      /\ RowsOK(currentState, r)
      /\ Row(t)' = r /\ Goal(t)' = Final(currentState, r)
      /\ \A op : ~Done(t, op)'
      /\ \A ops : ToCome(t, ops)' <=> \E i \in 1..Len(r.ops) : r.ops[i] \in ops
  BY <1>1, EnterFacts
<1> HIDE DEF r
<1>4. \A i, ops : At(r, i) \in ops /\ Null \notin ops => ToCome(t, ops)'
  BY <1>3 DEF At
<1>5. Listening(t)'
  BY <1>2, <1>3, <1>4
     DEF Settled, Listening, RowsOK, ReportRow, Reports, Null, Connected, Disconnected
<1>6. player = "airplay" => Owned(t, "loadVideo", StopsVideo, VideoStates)'
  BY <1>2, <1>3, <1>4 DEF Settled, Owned, RowsOK, OwnerRow, StopsVideo, Null
<1>7. "photo" \in views => Owned(t, "showPhotoView", HidesPhoto, PhotoStates)'
  BY <1>2, <1>3, <1>4
     DEF Settled, Owned, RowsOK, OwnerRow, StopsVideo, HidesPhoto, Null
<1>8. Clocked(t)'
  BY <1>1, <1>2, EnterClocked DEF Settled
<1>9. QED
  BY <1>1, <1>3, <1>5, <1>6, <1>7, <1>8 DEF SInv, Handling, Quiescent, InCall

LEMMA StoreSerial ==
  ASSUME IInv, SInv, Serial, NEW t \in Threads, Store(t)
  PROVE  SInv'
<1>1. (\A u \in Threads : u = t) /\ NoAirPlayStart
  BY DEF Serial
<1>2. Handling(t) /\ InCall(t)
  BY DEF SInv, Store, InCall
<1>3. /\ call'[t] = NotInCall /\ told' = told
      /\ views' = views /\ player' = player /\ decoder' = decoder /\ clock' = clock
  BY DEF IInv, TypeOK, Store, screen
<1>4. currentState' = Goal(t)
  BY <1>2 DEF Store, Handling, Goal, Final, Row
<1>5. \A ops : ~ToCome(t, ops)
  BY <1>1, <1>2, RowInFlight DEF Store, ToCome, Length
<1>6. Settled'
  BY <1>2, <1>3, <1>4, <1>5
     DEF Settled, ClockKept, Handling, Listening, Owned, Clocked
<1>7. QED
  BY <1>1, <1>3, <1>6 DEF SInv, InCall, NotInCall

\* When createDecoder fails the receiver is left as if the handler had ended
\* where it began.
LEMMA FailSerial ==
  ASSUME IInv, SInv, Serial, NEW t \in Threads, DecoderFails(t)
  PROVE  SInv'
<1>1. (\A u \in Threads : u = t) /\ NoAirPlayStart
  BY DEF Serial
<1>2. /\ InCall(t) /\ call'[t].at = "calling"
      /\ UNCHANGED << currentState, told, views, player, decoder, clock >>
      /\ RowsOK(call[t].from, Row(t))
      /\ call[t].step \in 1..Length(t)
      /\ Row(t).ops[call[t].step] = "createDecoder"
      /\ Listening(t) => (told <=> call[t].from # "Idle")
      /\ Clocked(t) => clock
  BY <1>1, FailFacts
<1>3. Handling(t)
  BY <1>2 DEF SInv
<1>4. ~Done(t, "loadVideo") /\ ~Done(t, "showPhotoView")
  BY <1>2 DEF RowsOK, OwnerRow, Done, Length, Row
<1>5. Settled'
  BY <1>2, <1>3, <1>4 DEF Settled, ClockKept, Handling, Owned
<1>6. QED
  BY <1>1, <1>2, <1>5 DEF SInv, InCall

\* A photo on the screen was there before, unless this operation showed it.
LEMMA PhotoOps ==
  ASSUME mirrorView, NEW op, Perform(op), "photo" \in views', op # "showPhotoView"
  PROVE  "photo" \in views /\ op \notin HidesPhoto
<1>1. CASE op \in HidesPhoto
  BY <1>1 DEF Perform, ShowMirrorView, ShowOnly, Hide, HidesPhoto, StopsVideo
<1>2. CASE op \notin HidesPhoto
  <2>1. views' \subseteq views \cup {"web"}
    BY <1>2 DEF Perform, Hide, KeepViews, HidesPhoto, StopsVideo, screen
  <2>2. QED
    BY <1>2, <2>1
<1>3. QED
  BY <1>1, <1>2

LEMMA StepSerial ==
  ASSUME IInv, SInv, mirrorView, Serial, NEW t \in Threads, Step(t)
  PROVE  SInv'
<1> DEFINE op == Row(t).ops[call[t].step]
<1>1. (\A u \in Threads : u = t) /\ NoAirPlayStart
  BY DEF Serial
<1>2. /\ InCall(t) /\ RowsOK(call[t].from, Row(t))
      /\ call[t].step \in 1..Length(t)
      /\ call'[t].at = "handling" /\ call'[t].from = call[t].from
      /\ currentState' = currentState /\ Perform(op)
      /\ Row(t)' = Row(t) /\ Goal(t)' = Goal(t)
      /\ \A o : Done(t, o)' <=> Done(t, o) \/ o = op
      /\ \A ops : ToCome(t, ops) <=> ToCome(t, ops)' \/ op \in ops
  BY <1>1, StepFacts
<1>3. Handling(t)
  BY <1>2 DEF SInv
<1>4. Listening(t)'
  BY <1>1, <1>3, ListeningStep DEF Handling
<1>5. player' = "airplay" => Owned(t, "loadVideo", StopsVideo, VideoStates)'
  <2>1. player' = "airplay" => op = "loadVideo" \/ (player = "airplay" /\ op \notin StopsVideo)
    BY <1>2 DEF Perform, ShowMirrorView, ShowOnly, Hide, KeepViews, StopsVideo, screen
  <2>2. CASE op = "loadVideo"
    <3>1. Goal(t) \in VideoStates
      BY <2>2, <1>2 DEF RowsOK, OwnerRow, Length, Row, Goal
    <3>2. QED
      BY <3>1, <2>2, <1>2 DEF Owned
  <2>3. CASE player = "airplay" /\ op \notin StopsVideo
    BY <2>3, <1>2, <1>3 DEF Owned, Handling
  <2>4. QED
    BY <2>1, <2>2, <2>3
<1>6. "photo" \in views' => Owned(t, "showPhotoView", HidesPhoto, PhotoStates)'
  <2>1. "photo" \in views' =>
           op = "showPhotoView" \/ ("photo" \in views /\ op \notin HidesPhoto)
    BY <1>2, PhotoOps
  <2>2. CASE op = "showPhotoView"
    <3>1. Goal(t) \in PhotoStates
      BY <2>2, <1>2 DEF RowsOK, OwnerRow, Length, Row, Goal
    <3>2. QED
      BY <3>1, <2>2, <1>2 DEF Owned
  <2>3. CASE "photo" \in views /\ op \notin HidesPhoto
    BY <2>3, <1>2, <1>3 DEF Owned, Handling
  <2>4. QED
    BY <2>1, <2>2, <2>3
<1>7. Clocked(t)'
  BY <1>1, <1>3, ClockedStep DEF Handling
<1>8. QED
  BY <1>1, <1>2, <1>3, <1>4, <1>5, <1>6, <1>7 DEF SInv, Handling, Quiescent, InCall

\* The steps outside StateContext are taken between handlers, or by the main
\* looper inside one.
LEMMA OutsideSerial ==
  ASSUME SInv, Serial, UNCHANGED << currentState, call, told, clock >>,
         player' \in {player, "none"},
         views' \subseteq views \cup {"web"},
         decoder' => decoder \/ "mirror" \in views
  PROVE  SInv'
<1>1. /\ player' = "airplay" => player = "airplay"
      /\ "photo" \in views' => "photo" \in views
      /\ "mirror" \in views' => "mirror" \in views
  OBVIOUS
<1>2. \A t \in Threads : InCall(t)' <=> InCall(t)
  BY DEF InCall
<1>3. ASSUME NEW t \in Threads, Handling(t) PROVE Handling(t)'
  <2>1. /\ Row(t)' = Row(t) /\ Goal(t)' = Goal(t)
        /\ \A ops : ToCome(t, ops)' <=> ToCome(t, ops)
        /\ \A op : Done(t, op)' <=> Done(t, op)
    BY DEF Row, Handler, Goal, ToCome, Done, Length
  <2>2. Listening(t)'
    BY <2>1, <1>3 DEF Handling, Listening
  <2>3. player' = "airplay" => Owned(t, "loadVideo", StopsVideo, VideoStates)'
    BY <2>1, <1>1, <1>3 DEF Handling, Owned
  <2>4. "photo" \in views' => Owned(t, "showPhotoView", HidesPhoto, PhotoStates)'
    BY <2>1, <1>1, <1>3 DEF Handling, Owned
  <2>5. Clocked(t)'
    BY <1>1, <1>3, ClockedStays DEF Handling
  <2>6. QED
    BY <2>2, <2>3, <2>4, <2>5, <1>3 DEF Handling
<1>4. Settled => Settled'
  BY <1>1 DEF Settled, ClockKept
<1>5. QED
  BY <1>2, <1>3, <1>4 DEF SInv, Quiescent

\* With the events one after the other, what is told and shown fits the state.
THEOREM SerialInvariant == ASSUME Serial PROVE Spec => []SInv
<1>1. Init => SInv /\ mirrorView
  BY DEF Init, SInv, InCall, NotInCall, Settled, ClockKept, MirrorStates, Serial
<1>2. mirrorView /\ [Next]_vars => mirrorView'
  BY DEF Next, vars, screen, Call, Enter, Step, DecoderFails, Store, Stop, StopDisplay,
    CodecData, MediaEnded, SurfaceTextureAvailable, SurfaceTextureDestroyed
<1>3. IInv /\ SInv /\ mirrorView /\ [Next]_vars => SInv'
  <2> SUFFICES ASSUME IInv, SInv, mirrorView, [Next]_vars PROVE SInv'
    OBVIOUS
  <2>1. ASSUME NEW t \in Threads, NEW e \in Events, Call(t, e) PROVE SInv'
    <3>1. ~InCall(t) /\ ~InCall(t)' /\ UNCHANGED << currentState, screen, told >>
      BY <2>1 DEF Call, InCall, NotInCall, IInv, TypeOK
    <3>2. \A u \in Threads : u = t
      BY DEF Serial
    <3>3. Settled'
      BY <3>1, <3>2 DEF SInv, Quiescent, Settled, ClockKept, screen
    <3>4. QED
      BY <3>1, <3>2, <3>3 DEF SInv
  <2>2. ASSUME NEW t \in Threads, Enter(t) PROVE SInv'
    BY <2>2, EnterSerial
  <2>3. ASSUME NEW t \in Threads, Step(t) PROVE SInv'
    BY <2>3, StepSerial
  <2>4. ASSUME NEW t \in Threads, DecoderFails(t) PROVE SInv'
    BY <2>4, FailSerial
  <2>5. ASSUME NEW t \in Threads, Store(t) PROVE SInv'
    BY <2>5, StoreSerial
  <2>6. ASSUME NEW t \in Threads, Stop(t) PROVE SInv'
    BY <2>6, OutsideSerial DEF Stop
  <2>7. ASSUME NEW t \in Threads, StopDisplay(t) PROVE SInv'
    BY <2>7, OutsideSerial DEF StopDisplay, ShowOnly
  <2>8. ASSUME NEW t \in Threads, CodecData(t) PROVE SInv'
    BY <2>8, OutsideSerial DEF CodecData, screen
  <2>9. CASE MediaEnded
    BY <2>9, OutsideSerial DEF MediaEnded
  <2>10. CASE SurfaceTextureAvailable
    BY <2>10, OutsideSerial DEF SurfaceTextureAvailable
  <2>11. CASE SurfaceTextureDestroyed
    BY <2>11, OutsideSerial DEF SurfaceTextureDestroyed, StopMirrorDecoding
  <2>12. CASE UNCHANGED vars
    BY <2>12, OutsideSerial DEF vars, screen
  <2>13. QED
    BY <2>1, <2>2, <2>3, <2>4, <2>5, <2>6, <2>7, <2>8, <2>9, <2>10, <2>11, <2>12
       DEF Next
<1>4. QED
  BY <1>1, <1>2, <1>3, InvariantHolds, PTL DEF Spec

\* One event at a time, the listener believes in a connection exactly when the
\* receiver is not idle.
THEOREM ListenerKnowsTheStateHolds ==
  ASSUME Serial PROVE Spec => []ListenerKnowsTheState
<1>1. SInv => ListenerKnowsTheState
  BY DEF SInv, ListenerKnowsTheState, Settled
<1>2. QED
  BY <1>1, SerialInvariant, PTL

\* One event at a time, a video started over AirPlay plays only in the states that can stop it.
THEOREM AirPlayVideoIsOwnedHolds ==
  ASSUME Serial PROVE Spec => []AirPlayVideoIsOwned
<1>1. SInv => AirPlayVideoIsOwned
  BY DEF SInv, AirPlayVideoIsOwned, Settled
<1>2. QED
  BY <1>1, SerialInvariant, PTL

\* One event at a time, a photo is on screen only in the states it can be taken off in.
THEOREM PhotoIsOwnedHolds ==
  ASSUME Serial PROVE Spec => []PhotoIsOwned
<1>1. SInv => PhotoIsOwned
  BY DEF SInv, PhotoIsOwned, Settled
<1>2. QED
  BY <1>1, SerialInvariant, PTL

\* One event at a time, a mirror decoder has the sender's clock.
THEOREM DecoderHasClockHolds ==
  ASSUME Serial PROVE Spec => []DecoderHasClock
<1>1. SInv => DecoderHasClock
  BY DEF SInv, DecoderHasClock, Settled, ClockKept
<1>2. QED
  BY <1>1, SerialInvariant, PTL

\* A handler moves on by its own steps only.
LEMMA OnlyStepSteps ==
  ASSUME IInv, [Next]_vars, NEW t \in Threads,
         call[t].at = "handling", call'[t].step = call[t].step + 1
  PROVE  Step(t)
<1>1. call[t].step \in Nat /\ call[t].step >= 1 /\ DOMAIN call = Threads
  BY DEF IInv, TypeOK, CallOK
<1>2. call'[t] # call[t] /\ call'[t].step >= 2
  BY <1>1
<1>3. ASSUME NEW u \in Threads, NEW e \in Events, Call(u, e) PROVE FALSE
  BY <1>1, <1>2, <1>3 DEF Call
<1>4. ASSUME NEW u \in Threads, Enter(u) PROVE FALSE
  BY <1>1, <1>2, <1>4 DEF Enter
<1>5. ASSUME NEW u \in Threads, DecoderFails(u) PROVE FALSE
  <2>1. call' = [call EXCEPT ![u] = call'[u]] /\ call'[u].step = 0
    BY <1>1, <1>5 DEF DecoderFails, NotInCall
  <2>2. QED
    BY <2>1, <1>1, <1>2
<1>6. ASSUME NEW u \in Threads, Store(u) PROVE FALSE
  <2>1. call' = [call EXCEPT ![u] = NotInCall] /\ NotInCall.step = 0
    BY <1>6 DEF Store, NotInCall
  <2>2. QED
    BY <2>1, <1>1, <1>2
<1>7. ASSUME NEW u \in Threads, Step(u) PROVE Step(t)
  BY <1>1, <1>2, <1>7 DEF Step
<1>8. QED
  BY <1>2, <1>3, <1>4, <1>5, <1>6, <1>7
     DEF Next, vars, Stop, StopDisplay, CodecData, MediaEnded,
         SurfaceTextureAvailable, SurfaceTextureDestroyed

\* A report made while the listener's view fits the row is news to it.
LEMMA ReportStep ==
  ASSUME IInv, NoAirPlayStart, NEW t \in Threads, Step(t), Listening(t),
         Op(call[t]) \in Reports
  PROVE  told' # told
<1> DEFINE op == Row(t).ops[call[t].step]
<1>1. /\ RowsOK(call[t].from, Row(t)) /\ call[t].step \in 1..Length(t)
      /\ call[t].step \in Nat
      /\ told' = (IF op = Connected THEN TRUE ELSE IF op = Disconnected THEN FALSE ELSE told)
  BY StepFacts
<1>2. op \in Reports
  BY DEF Op, Row
<1>3. told <=> call[t].from # "Idle"
  BY <1>1, <1>2 DEF Listening, ToCome
<1>4. /\ op = Connected => call[t].from = "Idle" /\ told'
      /\ op = Disconnected => call[t].from # "Idle" /\ ~told'
  BY <1>1 DEF RowsOK, ReportRow, Length, Row, Connected, Disconnected
<1>5. QED
  BY <1>2, <1>3, <1>4 DEF Reports, IInv, TypeOK

\* One event at a time, no report repeats the one before it.
THEOREM ReportsAlternateHolds ==
  ASSUME Serial PROVE Spec => ReportsAlternate
<1> DEFINE Alternate(t) ==
      /\ call[t].at = "handling" /\ call'[t].step = call[t].step + 1
      /\ Op(call[t]) \in {"informDelegateConnected", "informDelegateDisconnected"}
      => told' # told
<1>1. IInv /\ SInv /\ [Next]_vars => [\A t \in Threads : Alternate(t)]_vars
  <2> SUFFICES ASSUME IInv, SInv, [Next]_vars, NEW t \in Threads,
                      call[t].at = "handling", call'[t].step = call[t].step + 1,
                      Op(call[t]) \in Reports
               PROVE  told' # told
    BY DEF Reports, Connected, Disconnected
  <2>1. Step(t) /\ Listening(t) /\ NoAirPlayStart
    BY OnlyStepSteps DEF SInv, Handling, InCall, Serial
  <2>2. QED
    BY <2>1, ReportStep
<1>2. QED
  BY <1>1, InvariantHolds, SerialInvariant, PTL DEF Spec, ReportsAlternate
-----------------------------------------------------------------------------
(* Two properties that need no order of the events.                        *)

OneView == \A v, w \in Overlays \cap views : v = w

LEMMA StaysOneView ==
  ASSUME OneView, \/ \E v \in Views : views' = {v}
                  \/ views' \subseteq views \cup {"web"}
  PROVE  OneView'
BY DEF OneView, Overlays

\* Whatever threads deliver whatever events, no two overlays cover the page.
THEOREM OneOverlayHolds == Spec => []OneOverlay
<1>1. Init => OneView
  BY DEF Init, OneView, Overlays
<1>2. OneView /\ [Next]_vars => OneView'
  <2> SUFFICES ASSUME OneView, [Next]_vars PROVE OneView'
    OBVIOUS
  <2>1. ASSUME NEW t \in Threads, Step(t) PROVE OneView'
    <3>1. \/ \E v \in Views : views' = {v}
          \/ views' \subseteq views \cup {"web"}
      BY <2>1
         DEF Step, Perform, ShowMirrorView, ShowOnly, Hide, KeepViews, screen, Views
    <3>2. QED
      BY <3>1, StaysOneView
  <2>2. ASSUME NEW t \in Threads, StopDisplay(t) PROVE OneView'
    BY <2>2, StaysOneView DEF StopDisplay, ShowOnly, Views
  <2>3. ASSUME views' = views PROVE OneView'
    BY <2>3 DEF OneView
  <2>4. QED
    BY <2>1, <2>2, <2>3 DEF Next, vars, screen, Call, Enter, DecoderFails, Store, Stop,
      CodecData, MediaEnded, SurfaceTextureAvailable, SurfaceTextureDestroyed
<1>3. OneView => OneOverlay
  BY DEF OneView, OneOverlay
<1>4. QED
  BY <1>1, <1>2, <1>3, PTL DEF Spec

EzEvents ==
  {"onEzScreenClientConnected", "onEzScreenClientDisconnected", "onDisplayUrl",
   "onLoadEzScreenVideo", "onStartMirroring", "onStopMirroring"}
EzStates == {"Idle", "EzScreenConnected", "AirPlayMirror"}

\* Every sender is an EZCast client: AirTunes and the AirPlay server have no thread.
EzScreenOnly == \A t \in Threads : Emits[t] \cap Events \subseteq EzEvents

\* The rows EZCast senders reach: the way to AirPlayMirror reports a connection
\* last, and a disconnection is reported last, on the way to Idle.
LEMMA EzRows ==
  ASSUME NEW s \in EzStates, NEW e \in EzEvents
  PROVE  LET r == Reaction(s, e) IN
         /\ Final(s, r) \in EzStates
         /\ r.next = "AirPlayMirror" =>
              /\ e \in SynchronizedEvents
              /\ Len(r.ops) >= 1 /\ r.ops[Len(r.ops)] = Connected
         /\ \A i \in 1..Len(r.ops) :
              /\ r.ops[i] = Disconnected =>
                   i = Len(r.ops) /\ r.next = "Idle" /\ e \in SynchronizedEvents
              /\ r.ops[i] = "createDecoder" => r.next # "Idle"
<1> USE DEF Final, Reply, Ignore, StartMirrorOps, SynchronizedEvents,
            EzStates, EzEvents, Null, Connected, Disconnected
<1>1. CASE s = "Idle"
  BY <1>1 DEF Reaction, IdleState
<1>2. CASE s = "EzScreenConnected"
  BY <1>2 DEF Reaction, EzScreenConnectedState
<1>3. CASE s = "AirPlayMirror"
  BY <1>3 DEF Reaction, AirPlayMirrorState
<1>4. QED
  BY <1>1, <1>2, <1>3

\* A thread that is only left to store AirPlayMirror.
Arriving(t) == InCall(t) /\ Target(t) = "AirPlayMirror" /\ call[t].step > Length(t)

EzCalls ==
  \A u \in Threads : /\ call[u].at # "idle" => call[u].event \in EzEvents
                     /\ InCall(u) => call[u].from \in EzStates
                     /\ Arriving(u) => told

MirrorTold == currentState = "AirPlayMirror" => told \/ \E u \in Threads : Leaving(u)

EzInv == currentState \in EzStates /\ EzCalls /\ MirrorTold

LEMMA EzStep ==
  ASSUME IInv, EzInv, NEW t \in Threads, Step(t)
  PROVE  EzInv'
<1> DEFINE r == Handler(call[t])
           k == call[t].step
<1>1. /\ \A u \in Threads \ {t} : call'[u] = call[u]
      /\ \A u \in Threads : call'[u].at = call[u].at /\ call'[u].event = call[u].event
                            /\ call'[u].from = call[u].from
      /\ call'[t].step = k + 1 /\ currentState' = currentState
  BY DEF Step, IInv, TypeOK
<1>2. \A u \in Threads : Target(u)' = Target(u) /\ Length(u)' = Length(u)
                         /\ (InCall(u)' <=> InCall(u))
  BY <1>1 DEF Target, Length, Handler, InCall
<1>3. InCall(t) /\ k \in 1..Len(r.ops) /\ Len(r.ops) \in Nat
  BY RowFacts DEF Step, InCall, IInv, TypeOK, CallOK, RowOK
<1>4. /\ r.next = "AirPlayMirror" =>
           call[t].event \in SynchronizedEvents /\ r.ops[Len(r.ops)] = Connected
      /\ r.ops[k] = Disconnected =>
           k = Len(r.ops) /\ r.next = "Idle" /\ call[t].event \in SynchronizedEvents
  BY <1>3, EzRows DEF EzInv, EzCalls, MirrorTold, Handler, InCall
<1>5. told' = (IF r.ops[k] = Connected THEN TRUE
               ELSE IF r.ops[k] = Disconnected THEN FALSE ELSE told)
  BY DEF Step, Op, Connected, Disconnected
<1>6. \A u \in Threads : Leaving(u) => Leaving(u)'
  <2>1. ~Leaving(t)
    BY <1>3 DEF Leaving, Length
  <2>2. QED
    BY <2>1, <1>1, <1>2 DEF Leaving
<1>7. CASE r.ops[k] = Disconnected
  <2>1. Leaving(t)'
    BY <1>1, <1>2, <1>3, <1>4, <1>7 DEF Leaving, Length, Target
  \* Both handlers would own the monitor.
  <2>2. \A u \in Threads : ~Arriving(u)'
    <3> SUFFICES ASSUME NEW u \in Threads, Arriving(u)' PROVE FALSE
      OBVIOUS
    <3>1. InCall(u) /\ Target(u) = "AirPlayMirror" /\ u # t
      BY <2>1, <1>2 DEF Arriving, Leaving
    <3>2. call[u].event \in SynchronizedEvents
      BY <3>1, EzRows DEF EzInv, EzCalls, MirrorTold, InCall, Target, Handler
    <3>3. QED
      BY <3>1, <3>2, <1>3, <1>4, <1>7 DEF IInv, MonitorDiscipline
  <2>3. QED
    BY <2>1, <2>2, <1>1, <1>2 DEF EzInv, EzCalls, MirrorTold
<1>8. CASE r.ops[k] # Disconnected
  <2>1. told => told'
    BY <1>5, <1>8
  <2>2. \A u \in Threads : Arriving(u)' => told'
    <3>1. Arriving(t)' => told'
      <4>1. Arriving(t)' => k = Len(r.ops) /\ r.next = "AirPlayMirror"
        BY <1>1, <1>2, <1>3 DEF Arriving, Target, Length
      <4>2. QED
        BY <4>1, <1>4, <1>5
    <3>2. \A u \in Threads \ {t} : Arriving(u)' => Arriving(u)
      BY <1>1, <1>2 DEF Arriving
    <3>3. QED
      BY <3>1, <3>2, <2>1 DEF EzInv, EzCalls, MirrorTold
  <2>3. QED
    BY <2>1, <2>2, <1>1, <1>2, <1>6 DEF EzInv, EzCalls, MirrorTold
<1>9. QED
  BY <1>7, <1>8

LEMMA EzStore ==
  ASSUME IInv, EzInv, NEW t \in Threads, Store(t)
  PROVE  EzInv'
<1>1. /\ \A u \in Threads \ {t} : call'[u] = call[u]
      /\ call'[t] = NotInCall /\ told' = told
  BY DEF Store, IInv, TypeOK
<1>2. InCall(t) /\ call[t].from \in EzStates /\ call[t].event \in EzEvents
  BY DEF Store, InCall, EzInv, EzCalls, MirrorTold
<1>3. currentState' = IF Target(t) = Null THEN currentState ELSE Target(t)
  BY DEF Store, Target
<1>4. currentState' \in EzStates
  BY <1>2, <1>3, EzRows DEF EzInv, EzCalls, MirrorTold, Final, Target, Handler
<1>5. EzCalls'
  BY <1>1 DEF Arriving, InCall, NotInCall, Target, Length, Handler, EzInv, EzCalls
<1>6. MirrorTold'
  <2>1. CASE Target(t) = "AirPlayMirror"
    BY <2>1, <1>1, <1>2 DEF EzInv, EzCalls, MirrorTold, Arriving, Store, Length
  <2>2. CASE Target(t) = Null
    <3>1. currentState' = currentState /\ ~Leaving(t)
      BY <2>2, <1>3 DEF Leaving, Null
    <3>2. \A u \in Threads : Leaving(u) => Leaving(u)'
      BY <3>1, <1>1 DEF Leaving, InCall, Target, Length, Handler
    <3>3. QED
      BY <3>1, <3>2, <1>1 DEF EzInv, EzCalls, MirrorTold
  <2>3. QED
    BY <2>1, <2>2, <1>3 DEF MirrorTold
<1>7. QED
  BY <1>4, <1>5, <1>6 DEF EzInv

\* A thread that begins a call, or whose decoder fails, was not about to store.
LEMMA EzOtherCall ==
  ASSUME EzInv, NEW t \in Threads, ~Leaving(t), ~Arriving(t)',
         UNCHANGED << currentState, told >>,
         \A u \in Threads \ {t} : call'[u] = call[u],
         call'[t].event \in EzEvents, InCall(t)' => call'[t].from \in EzStates
  PROVE  EzInv'
<1>1. ASSUME NEW u \in Threads \ {t}
      PROVE  /\ Arriving(u)' <=> Arriving(u)
             /\ Leaving(u)' <=> Leaving(u)
             /\ InCall(u)' <=> InCall(u)
  BY DEF Arriving, Leaving, InCall, Target, Length, Handler
<1>2. EzCalls'
  BY <1>1 DEF EzInv, EzCalls
<1>3. MirrorTold'
  BY <1>1 DEF EzInv, MirrorTold
<1>4. QED
  BY <1>2, <1>3 DEF EzInv

\* EZCast senders only, on any number of threads: what is said of AirPlayMirror
\* is inductive.
THEOREM EzInvariant == ASSUME EzScreenOnly PROVE Spec => []EzInv
<1>1. Init => EzInv
  BY DEF Init, EzInv, EzCalls, MirrorTold, EzStates, InCall, Arriving, NotInCall
<1>2. IInv /\ EzInv /\ [Next]_vars => EzInv'
  <2> SUFFICES ASSUME IInv, EzInv, [Next]_vars PROVE EzInv'
    OBVIOUS
  <2>1. ASSUME NEW t \in Threads, NEW e \in Events, Call(t, e) PROVE EzInv'
    <3>1. call'[t].at = "calling" /\ call'[t].event = e
      BY <2>1 DEF Call, NotInCall, IInv, TypeOK
    <3>2. e \in EzEvents
      BY <2>1 DEF Call, EzScreenOnly
    <3>3. \A u \in Threads \ {t} : call'[u] = call[u]
      BY <2>1 DEF Call, IInv, TypeOK
    <3>4. ~Leaving(t) /\ ~Arriving(t)' /\ ~InCall(t)'
      BY <2>1, <3>1 DEF Call, Leaving, Arriving, InCall
    <3>5. QED
      BY <2>1, <3>1, <3>2, <3>3, <3>4, EzOtherCall DEF Call
  <2>2. ASSUME NEW t \in Threads, Enter(t) PROVE EzInv'
    <3>1. /\ call'[t].at = "handling" /\ call'[t].event = call[t].event
          /\ call'[t].from = currentState /\ call'[t].step = 1
          /\ \A u \in Threads \ {t} : call'[u] = call[u]
      BY <2>2 DEF Enter, IInv, TypeOK
    <3>2. call[t].event \in EzEvents /\ currentState \in EzStates
      BY <2>2 DEF Enter, EzInv, EzCalls, MirrorTold
    <3>3. ~Arriving(t)'
      <4>1. Handler(call'[t]) = Reaction(currentState, call[t].event)
        BY <3>1 DEF Handler
      <4>2. Handler(call'[t]).next = "AirPlayMirror" => Len(Handler(call'[t]).ops) >= 1
        BY <3>2, <4>1, EzRows
      <4>3. CallOK(call[t]) /\ currentState \in States
        BY DEF IInv, TypeOK
      <4>4. Len(Handler(call'[t]).ops) \in Nat
        BY <2>2, <4>1, <4>3, TableRows DEF Enter, CallOK, RowOK
      <4>5. QED
        BY <3>1, <4>2, <4>4 DEF Arriving, Target, Length
    <3>4. ~Leaving(t)
      BY <2>2 DEF Enter, Leaving, InCall
    <3>5. QED
      BY <2>2, <3>1, <3>2, <3>3, <3>4, EzOtherCall DEF Enter
  <2>3. ASSUME NEW t \in Threads, Step(t) PROVE EzInv'
    BY <2>3, EzStep
  <2>4. ASSUME NEW t \in Threads, DecoderFails(t) PROVE EzInv'
    <3>1. /\ call'[t].at = "calling" /\ call'[t].event = "onStopMirroring"
          /\ \A u \in Threads \ {t} : call'[u] = call[u]
      BY <2>4 DEF DecoderFails, NotInCall, IInv, TypeOK
    <3>2. ~Leaving(t)
      BY <2>4, RowFacts
         DEF DecoderFails, Leaving, Length, IInv, TypeOK, CallOK, InCall, RowOK
    <3>3. ~InCall(t)' /\ ~Arriving(t)'
      BY <3>1 DEF InCall, Arriving
    <3>4. QED
      BY <2>4, <3>1, <3>2, <3>3, EzOtherCall DEF DecoderFails, EzEvents
  <2>5. ASSUME NEW t \in Threads, Store(t) PROVE EzInv'
    BY <2>5, EzStore
  <2>6. ASSUME UNCHANGED << currentState, call, told >> PROVE EzInv'
    BY <2>6 DEF EzInv, EzCalls, MirrorTold, Arriving, Leaving, InCall, Target, Length, Handler
  <2>7. QED
    BY <2>1, <2>2, <2>3, <2>4, <2>5, <2>6 DEF Next, vars, Stop, StopDisplay, CodecData,
      MediaEnded, SurfaceTextureAvailable, SurfaceTextureDestroyed
<1>3. QED
  BY <1>1, <1>2, InvariantHolds, PTL DEF Spec

\* However the heartbeat timeout races with the requests of EZCast senders, a
\* receiver that mirrors has told its listener of a connection.
THEOREM MirrorMeansConnectedHolds ==
  ASSUME EzScreenOnly PROVE Spec => []MirrorMeansConnected
<1>1. EzInv => MirrorMeansConnected
  BY DEF EzInv, EzCalls, MirrorTold, MirrorMeansConnected, Quiescent, Leaving
<1>2. QED
  BY <1>1, EzInvariant, PTL
-----------------------------------------------------------------------------
(* The wait for the mirror surface.                                        *)

\* The thread that serves mirror connections is the only one that may change
\* the views without the monitor.
OneServer ==
  \A t \in Threads : "onStartMirroring" \in Emits[t] =>
    \A u \in Threads \ {t} :
      Emits[u] \cap (UnsynchronizedEvents \cup {"stop_display"}) = {}

\* A thread is in a call it delivers, or in the one that follows a failed
\* decoder.
Delivered ==
  \A t \in Threads : call[t].at # "idle" =>
    \/ call[t].event \in Emits[t]
    \/ call[t].event = "onStopMirroring" /\ "onStartMirroring" \in Emits[t]

\* From showMirrorView to createDecoder the view is there, if there is one.
Shown(t) ==
  \A i \in 1..Length(t) :
    mirrorView /\ InCall(t) /\ Row(t).ops[i] = "createDecoder" /\ call[t].step \in (i - 2)..i
    => "mirror" \in views

SurfaceInv == Delivered /\ \A t \in Threads : Shown(t)

\* The rows that create a decoder show the mirror first.
LEMMA MirrorRows ==
  ASSUME NEW s \in States, NEW e \in Events
  PROVE  LET r == Reaction(s, e) IN
         \A i \in 1..Len(r.ops) : r.ops[i] = "createDecoder" =>
           /\ i > 3 /\ r.ops[i - 3] = "showMirrorView"
           /\ r.ops[i - 2] = "stopMirrorDecoding" /\ r.ops[i - 1] = "createMirrorClock"
<1> SUFFICES ASSUME e = "onStartMirroring"
             PROVE  LET r == Reaction(s, "onStartMirroring") IN
                    \A i \in 1..Len(r.ops) : r.ops[i] = "createDecoder" =>
                      /\ i > 3 /\ r.ops[i - 3] = "showMirrorView"
                      /\ r.ops[i - 2] = "stopMirrorDecoding"
                      /\ r.ops[i - 1] = "createMirrorClock"
  BY TableRows DEF RowOK
<1> USE DEF Reply, Ignore, StartMirrorOps, Null
<1>1. CASE s = "Idle"
  <2>1. Reaction(s, "onStartMirroring").ops =
          << "showMirrorView", "stopMirrorDecoding", "createMirrorClock",
             "createDecoder", "informDelegateConnected" >>
    BY <1>1 DEF Reaction, IdleState
  <2>2. QED
    BY <2>1
<1>2. CASE s = "EzScreenConnected"
  <2>1. Reaction(s, "onStartMirroring").ops =
          << "stopVideo", "showMirrorView", "stopMirrorDecoding",
             "createMirrorClock", "createDecoder" >>
    BY <1>2 DEF Reaction, EzScreenConnectedState
  <2>2. QED
    BY <2>1
<1>3. CASE s = "AirPlayMirror"
  BY <1>3 DEF Reaction, AirPlayMirrorState
<1>4. CASE s = "AirPlayPhoto"
  BY <1>4 DEF Reaction, AirPlayPhotoState
<1>5. CASE s = "AirPlayPhotoWhenMirror"
  BY <1>5 DEF Reaction, AirPlayPhotoWhenMirrorState
<1>6. CASE s = "AirPlayPlayVideo"
  <2>1. Reaction(s, "onStartMirroring").ops =
          << "stopVideo", "showMirrorView", "stopMirrorDecoding",
             "createMirrorClock", "createDecoder" >>
    BY <1>6 DEF Reaction, AirPlayPlayVideoState
  <2>2. QED
    BY <2>1
<1>7. CASE s = "AirPlayPlayVideoWhenMirror"
  <2>1. Reaction(s, "onStartMirroring").ops =
          << "stopVideo", "showMirrorView", "stopMirrorDecoding",
             "createMirrorClock", "createDecoder" >>
    BY <1>7 DEF Reaction, AirPlayPlayVideoWhenMirrorState
  <2>2. QED
    BY <2>1
<1>8. CASE s = "AirPlayPlayVideoWhenAirTunesConnected"
  <2>1. Reaction(s, "onStartMirroring").ops =
          << "stopVideo", "showMirrorView", "stopMirrorDecoding",
             "createMirrorClock", "createDecoder" >>
    BY <1>8 DEF Reaction, AirPlayPlayVideoWhenAirTunesConnectedState
  <2>2. QED
    BY <2>1
<1>9. CASE s = "AirTunesConnected"
  <2>1. Reaction(s, "onStartMirroring").ops = StartMirrorOps
    BY <1>9 DEF Reaction, AirTunesConnectedState
  <2>2. QED
    BY <2>1
<1>10. CASE s = "AirTunesPlayMusic"
  <2>1. Reaction(s, "onStartMirroring").ops =
          << "hideMusicView", "showMirrorView", "stopMirrorDecoding",
             "createMirrorClock", "createDecoder" >>
    BY <1>10 DEF Reaction, AirTunesPlayMusicState
  <2>2. QED
    BY <2>1
<1>11. CASE s = "AirTunesPlayMusicWhenMirror"
  <2>1. Reaction(s, "onStartMirroring").ops =
          << "hideMusicView", "showMirrorView", "stopMirrorDecoding",
             "createMirrorClock", "createDecoder" >>
    BY <1>11 DEF Reaction, AirTunesPlayMusicWhenMirrorState
  <2>2. QED
    BY <2>1
<1>12. QED
  BY <1>1, <1>2, <1>3, <1>4, <1>5, <1>6, <1>7, <1>8, <1>9, <1>10, <1>11 DEF States

\* What a handler that creates a decoder looks like in flight: it holds the
\* monitor, delivered by the server of mirror connections.
LEMMA WaitingFacts ==
  ASSUME IInv, Delivered, NEW t \in Threads, InCall(t),
         NEW i \in 1..Length(t), Row(t).ops[i] = "createDecoder"
  PROVE  /\ call[t].event = "onStartMirroring" /\ lock = t
         /\ "onStartMirroring" \in Emits[t]
         /\ call[t].step \in Nat /\ i > 3 /\ Row(t).ops[i - 3] = "showMirrorView"
         /\ Row(t).ops[i - 2] = "stopMirrorDecoding"
         /\ Row(t).ops[i - 1] = "createMirrorClock"
<1>1. CallOK(call[t]) /\ TypeOK
  BY DEF IInv
<1>2. call[t].from \in States /\ call[t].event \in Events /\ call[t].step \in Nat
  BY <1>1 DEF CallOK, InCall, TypeOK
<1>3. call[t].event = "onStartMirroring"
  BY <1>1, RowFacts DEF RowOK, Row, Length
<1>4. "onStartMirroring" \in Emits[t]
  BY <1>3 DEF Delivered, InCall
<1>5. lock = t
  BY <1>3 DEF IInv, MonitorDiscipline, SynchronizedEvents
<1>6. QED
  BY <1>2, <1>3, <1>4, <1>5, MirrorRows DEF Row, Handler, Length

LEMMA DeliveredStep ==
  ASSUME IInv, Delivered, [Next]_vars
  PROVE  Delivered'
<1>1. DOMAIN call = Threads
  BY DEF IInv, TypeOK
<1>2. ASSUME NEW t \in Threads, NEW e \in Events, Call(t, e) PROVE Delivered'
  <2>1. call'[t].event = e /\ e \in Emits[t] /\ \A u \in Threads \ {t} : call'[u] = call[u]
    BY <1>1, <1>2 DEF Call, NotInCall
  <2>2. QED
    BY <2>1 DEF Delivered
<1>3. ASSUME NEW t \in Threads, Enter(t) \/ Step(t) PROVE Delivered'
  <2>1. /\ call'[t].event = call[t].event /\ call[t].at # "idle"
        /\ \A u \in Threads \ {t} : call'[u] = call[u]
    <3>1. CASE Enter(t)
      BY <3>1 DEF Enter, IInv, TypeOK
    <3>2. CASE Step(t)
      BY <3>2 DEF Step, IInv, TypeOK
    <3>3. QED
      BY <1>3, <3>1, <3>2
  <2>2. QED
    BY <2>1 DEF Delivered
<1>4. ASSUME NEW t \in Threads, DecoderFails(t) PROVE Delivered'
  <2>1. /\ call'[t].event = "onStopMirroring"
        /\ \A u \in Threads \ {t} : call'[u] = call[u]
    BY <1>1, <1>4 DEF DecoderFails, NotInCall
  <2>2. InCall(t) /\ call[t].step \in 1..Length(t) /\ Row(t).ops[call[t].step] = "createDecoder"
    BY <1>4, RowFacts
       DEF DecoderFails, Length, Op, Row, IInv, TypeOK, CallOK, InCall, RowOK
  <2>3. "onStartMirroring" \in Emits[t]
    BY <2>2, WaitingFacts
  <2>4. QED
    BY <2>1, <2>3 DEF Delivered
<1>5. ASSUME NEW t \in Threads, Store(t) PROVE Delivered'
  <2>1. call'[t].at = "idle" /\ \A u \in Threads \ {t} : call'[u] = call[u]
    BY <1>1, <1>5 DEF Store, NotInCall
  <2>2. QED
    BY <2>1 DEF Delivered
<1>6. CASE UNCHANGED call
  BY <1>6 DEF Delivered
<1>7. QED
  BY <1>2, <1>3, <1>4, <1>5, <1>6
     DEF Next, vars, Stop, StopDisplay, CodecData, MediaEnded,
         SurfaceTextureAvailable, SurfaceTextureDestroyed

\* While a handler waits for the mirror's surface, nobody else moves a view.
LEMMA ViewsStay ==
  ASSUME IInv, Delivered, OneServer, [Next]_vars,
         NEW t \in Threads, InCall(t), call'[t] = call[t],
         NEW i \in 1..Length(t), Row(t).ops[i] = "createDecoder"
  PROVE  views' = views
<1>1. lock = t /\ "onStartMirroring" \in Emits[t]
  BY WaitingFacts
<1>2. ASSUME NEW u \in Threads, Step(u) PROVE views' = views
  <2>1. CASE u = t
    <3>1. call'[t].step = call[t].step + 1 /\ call[t].step \in Nat
      BY <1>2, <2>1 DEF Step, IInv, TypeOK
    <3>2. QED
      BY <3>1
  <2>2. CASE u # t
    <3>1. InCall(u) /\ call[u].event \in Events
      BY <1>2 DEF Step, InCall, IInv, CallOK
    <3>2. call[u].event \notin SynchronizedEvents
      BY <1>1, <2>2, <3>1 DEF IInv, MonitorDiscipline
    <3>3. call[u].event \in UnsynchronizedEvents
      BY <3>1, <3>2 DEF Events
    <3>4. call[u].event \in Emits[u]
      BY <3>1, <3>2 DEF Delivered, InCall, SynchronizedEvents
    <3>5. QED
      BY <1>1, <2>2, <3>3, <3>4 DEF OneServer
  <2>3. QED
    BY <2>1, <2>2
<1>3. ASSUME NEW u \in Threads, StopDisplay(u) PROVE views' = views
  <2>1. u # t
    BY <1>3 DEF StopDisplay, InCall
  <2>2. QED
    BY <1>1, <1>3, <2>1 DEF StopDisplay, OneServer
<1>4. QED
  BY <1>2, <1>3
     DEF Next, vars, screen, Call, Enter, DecoderFails, Store, Stop, CodecData,
         MediaEnded, SurfaceTextureAvailable, SurfaceTextureDestroyed

\* Where the server of mirror connections is the only thread to move views
\* without the monitor, the view it waits for stays on the screen, whatever
\* threads deliver the synchronized events and commands.
THEOREM SurfaceWillComeHolds ==
  ASSUME OneServer PROVE Spec => []SurfaceWillCome
<1>1. Init => SurfaceInv
  BY DEF Init, SurfaceInv, Delivered, Shown, InCall, NotInCall
<1>2. IInv /\ SurfaceInv /\ [Next]_vars => SurfaceInv'
  <2> SUFFICES ASSUME IInv, SurfaceInv, [Next]_vars PROVE SurfaceInv'
    OBVIOUS
  <2>1. Delivered /\ Delivered'
    BY DeliveredStep DEF SurfaceInv
  <2> SUFFICES ASSUME mirrorView', NEW t \in Threads,
                      NEW i \in 1..Length(t)', InCall(t)',
                      Row(t)'.ops[i] = "createDecoder", call'[t].step \in (i - 2)..i
               PROVE  "mirror" \in views'
    BY <2>1 DEF SurfaceInv, Shown
  <2> mirrorView
    BY DEF Next, vars, screen, Call, Enter, Step, DecoderFails, Store, Stop, StopDisplay,
      CodecData, MediaEnded, SurfaceTextureAvailable, SurfaceTextureDestroyed
  <2>2. CASE call'[t] = call[t]
    <3>1. /\ InCall(t) /\ i \in 1..Length(t) /\ Row(t).ops[i] = "createDecoder"
          /\ call[t].step \in (i - 2)..i
      BY <2>2 DEF InCall, Length, Row, Handler
    <3>2. "mirror" \in views
      BY <3>1 DEF SurfaceInv, Shown
    <3>3. QED
      BY <2>1, <2>2, <3>1, <3>2, ViewsStay
  <2>3. CASE Step(t)
    <3>1. /\ call'[t].step = call[t].step + 1 /\ call'[t].event = call[t].event
          /\ call'[t].from = call[t].from /\ InCall(t)
      BY <2>3 DEF Step, InCall, IInv, TypeOK
    <3>2. i \in 1..Length(t) /\ Row(t).ops[i] = "createDecoder"
      BY <3>1 DEF Length, Row, Handler
    <3>3. /\ call[t].step \in Nat /\ i > 3 /\ Row(t).ops[i - 3] = "showMirrorView"
          /\ Row(t).ops[i - 2] = "stopMirrorDecoding"
          /\ Row(t).ops[i - 1] = "createMirrorClock"
      BY <2>1, <3>1, <3>2, WaitingFacts
    <3>4. Perform(Row(t).ops[call[t].step]) /\ call[t].step \in (i - 3)..(i - 1)
      BY <2>3, <3>1, <3>3 DEF Step, Op, Row
    <3>5. CASE call[t].step = i - 3
      BY <3>3, <3>4, <3>5 DEF Perform, ShowMirrorView, ShowOnly
    <3>6. CASE call[t].step \in (i - 2)..(i - 1)
      <4>1. "mirror" \in views
        BY <3>1, <3>2, <3>6 DEF SurfaceInv, Shown
      <4>2. Row(t).ops[call[t].step] \in {"stopMirrorDecoding", "createMirrorClock"}
        BY <3>3, <3>6
      <4>3. views' = views
        BY <3>4, <4>2 DEF Perform, KeepViews
      <4>4. QED
        BY <4>1, <4>3
    <3>7. QED
      BY <3>3, <3>4, <3>5, <3>6
  \* A handler that has just begun has not reached the last three operations.
  <2>4. CASE Enter(t)
    <3>1. call'[t].step = 1
      BY <2>4 DEF Enter, IInv, TypeOK
    <3>2. /\ Row(t)' = Reaction(currentState, call[t].event)
          /\ Length(t)' = Len(Reaction(currentState, call[t].event).ops)
      BY <2>4 DEF Enter, Row, Length, Handler, IInv, TypeOK
    <3>3. currentState \in States /\ call[t].event \in Events
      BY <2>4 DEF Enter, IInv, TypeOK, CallOK
    <3>4. i > 3
      BY <3>2, <3>3, MirrorRows
    <3>5. QED
      BY <3>1, <3>4
  <2>5. QED
    <3>1. DOMAIN call = Threads
      BY DEF IInv, TypeOK
    <3>2. ASSUME NEW u \in Threads, NEW e \in Events, Call(u, e) PROVE "mirror" \in views'
      BY <2>2, <3>1, <3>2 DEF Call, NotInCall, InCall
    <3>3. ASSUME NEW u \in Threads, Enter(u) \/ Step(u) PROVE "mirror" \in views'
      BY <2>2, <2>3, <2>4, <3>1, <3>3 DEF Enter, Step
    <3>4. ASSUME NEW u \in Threads, DecoderFails(u) PROVE "mirror" \in views'
      BY <2>2, <3>1, <3>4 DEF DecoderFails, NotInCall, InCall
    <3>5. ASSUME NEW u \in Threads, Store(u) PROVE "mirror" \in views'
      BY <2>2, <3>1, <3>5 DEF Store, NotInCall, InCall
    <3>6. QED
      BY <2>2, <3>2, <3>3, <3>4, <3>5
         DEF Next, vars, Stop, StopDisplay, CodecData, MediaEnded,
             SurfaceTextureAvailable, SurfaceTextureDestroyed
<1>3. IInv /\ SurfaceInv => SurfaceWillCome
  <2> SUFFICES ASSUME IInv, SurfaceInv, mirrorView, NEW t \in Threads, AsksForSurface(t)
               PROVE  "mirror" \in views
    BY DEF SurfaceWillCome
  <2> USE DEF AsksForSurface
  <2>1. call[t].step \in 1..Length(t) /\ call[t].step \in Nat
    BY RowFacts DEF IInv, TypeOK, CallOK, InCall, RowOK, Length
  <2>2. QED
    BY <2>1 DEF SurfaceInv, Shown, Op, Row
<1>4. QED
  BY <1>1, <1>2, <1>3, InvariantHolds, PTL DEF Spec
-----------------------------------------------------------------------------
(* EZCast senders at this commit: one server thread, which delivers their  *)
(* requests and mirror connections, races with the heartbeat timeouts that *)
(* other threads deliver.                                                  *)

AtThisCommit(server) ==
  /\ EzScreenOnly
  /\ \A t \in Threads \ {server} : Emits[t] \subseteq {"onEzScreenClientDisconnected"}

\* A display or play request that found a client connected, and the timeout that
\* disconnected it has overtaken the request.
Overtaken(t) ==
  /\ call[t].event \notin SynchronizedEvents
  /\ call[t].from = "EzScreenConnected" /\ currentState = "Idle"

Silent(t) == ~Has(Row(t), Reports)

\* A handler in flight began in the current state, unless overtaken ...
UpToDate == \A t \in Threads : InCall(t) => call[t].from = currentState \/ Overtaken(t)

\* ... the one that reports knows what the listener was told, and the server's
\* what becomes of the clock.
ToldInv ==
  /\ \A t \in Threads : InCall(t) /\ ~Silent(t) => Listening(t)
  /\ (\A t \in Threads : InCall(t) => Silent(t)) => (told <=> currentState # "Idle")

ClockInv(server) == IF InCall(server) THEN Clocked(server) ELSE ClockKept

CommitInv(server) == EzInv /\ Delivered /\ UpToDate /\ ToldInv /\ ClockInv(server)

\* A disconnect means something only to EzScreenConnected, where the requests
\* without the monitor report nothing, and keep the state and the clock.
LEMMA CommitRows ==
  /\ \A s \in EzStates : s # "EzScreenConnected" =>
       Reaction(s, "onEzScreenClientDisconnected") = Ignore
  /\ Reaction("EzScreenConnected", "onEzScreenClientDisconnected").next = "Idle"
  /\ \A e \in EzEvents \ SynchronizedEvents :
       LET r == Reaction("EzScreenConnected", e) IN
       r.next = Null /\ ~Has(r, Reports)
<1> USE DEF EzEvents, EzStates, Reports, Has, SynchronizedEvents, Reply, Ignore,
            Connected, Disconnected
<1>1. \A s \in EzStates : s # "EzScreenConnected" =>
        Reaction(s, "onEzScreenClientDisconnected") = Ignore
  BY DEF Reaction, IdleState, AirPlayMirrorState
<1>2. Reaction("EzScreenConnected", "onEzScreenClientDisconnected").next = "Idle"
  BY DEF Reaction, EzScreenConnectedState
<1>3. ASSUME NEW e \in EzEvents \ SynchronizedEvents
      PROVE  LET r == Reaction("EzScreenConnected", e) IN
             r.next = Null /\ ~Has(r, Reports)
  BY DEF Reaction, EzScreenConnectedState
<1>4. QED
  BY <1>1, <1>2, <1>3

\* Only the server's handlers run without the monitor or have to do with the
\* mirror; a thread with the monitor is up to date.
LEMMA CommitFacts ==
  ASSUME NEW server \in Threads, AtThisCommit(server), IInv, CommitInv(server),
         NEW t \in Threads, call[t].at # "idle"
  PROVE  /\ NoAirPlayStart
         /\ call[t].event \in EzEvents
         /\ t # server => call[t].event = "onEzScreenClientDisconnected"
         /\ call[t].event \in SynchronizedEvents =>
              /\ lock = t <=> InCall(t)
              /\ InCall(t) => call[t].from = currentState
         /\ t # server /\ InCall(t) /\ ~Silent(t) => currentState = "EzScreenConnected"
<1>1. NoAirPlayStart
  BY DEF AtThisCommit, EzScreenOnly, NoAirPlayStart, EzEvents, Events, SynchronizedEvents
<1>2. call[t].event \in EzEvents
  BY DEF CommitInv, EzInv, EzCalls
<1>3. t # server => call[t].event = "onEzScreenClientDisconnected"
  BY DEF CommitInv, Delivered, AtThisCommit
<1>4. call[t].event \in SynchronizedEvents =>
        /\ lock = t <=> InCall(t)
        /\ InCall(t) => call[t].from = currentState
  BY DEF CommitInv, UpToDate, Overtaken, IInv, MonitorDiscipline
<1>5. t # server /\ InCall(t) /\ ~Silent(t) => currentState = "EzScreenConnected"
  <2> SUFFICES ASSUME t # server, InCall(t), currentState # "EzScreenConnected"
               PROVE  Silent(t)
    OBVIOUS
  <2>1. Row(t) = Reaction(currentState, "onEzScreenClientDisconnected")
    BY <1>3, <1>4 DEF Row, Handler, SynchronizedEvents
  <2>2. Row(t) = Ignore
    BY <2>1, CommitRows DEF CommitInv, EzInv
  <2>3. QED
    BY <2>2 DEF Silent, Has, Ignore, Reply
<1>6. QED
  BY <1>1, <1>2, <1>3, <1>4, <1>5

\* No two handlers in flight report.
LEMMA OneReports ==
  ASSUME NEW server \in Threads, AtThisCommit(server), IInv, CommitInv(server),
         NEW t \in Threads, InCall(t), ~Silent(t),
         NEW u \in Threads, InCall(u), u # t
  PROVE  Silent(u)
<1> SUFFICES ASSUME ~Silent(u) PROVE FALSE
  OBVIOUS
<1>1. ASSUME NEW v \in Threads, NEW w \in Threads, v # w, v # server,
             InCall(v), InCall(w), ~Silent(v), ~Silent(w)
      PROVE  FALSE
  <2>1. call[v].at # "idle" /\ call[w].at # "idle"
    BY <1>1 DEF InCall
  <2>2. /\ currentState = "EzScreenConnected" /\ lock = v
        /\ call[w].event \in EzEvents
    BY <1>1, <2>1, CommitFacts DEF SynchronizedEvents
  <2>3. call[w].event \notin SynchronizedEvents
    BY <1>1, <2>1, <2>2, CommitFacts
  <2>4. call[w].from = "EzScreenConnected"
    BY <1>1, <2>2 DEF CommitInv, UpToDate, Overtaken
  <2>5. QED
    BY <1>1, <2>2, <2>3, <2>4, CommitRows DEF Silent, Row, Handler
<1>2. QED
  BY <1>1

LEMMA CommitEnter ==
  ASSUME NEW server \in Threads, AtThisCommit(server), IInv, CommitInv(server),
         NEW t \in Threads, Enter(t)
  PROVE  UpToDate' /\ ToldInv' /\ ClockInv(server)'
<1> DEFINE r == Reaction(currentState, call[t].event)
<1>1. call[t].at # "idle" /\ ~InCall(t)
  BY DEF Enter, InCall
<1>2. /\ NoAirPlayStart /\ call[t].event \in EzEvents
      /\ t # server => call[t].event = "onEzScreenClientDisconnected"
  BY <1>1, CommitFacts
<1>3. /\ call'[t].at = "handling" /\ call'[t].event = call[t].event
      /\ call'[t].from = currentState
      /\ UNCHANGED << currentState, told, views, player, decoder, clock >>
      /\ RowsOK(currentState, r) /\ Len(r.ops) \in Nat
      /\ Row(t)' = r /\ Goal(t)' = Final(currentState, r)
      /\ \A ops : ToCome(t, ops)' <=> \E i \in 1..Len(r.ops) : r.ops[i] \in ops
  BY <1>2, EnterFacts
<1>4. \A u \in Threads \ {t} : call'[u] = call[u]
  BY DEF Enter, IInv, TypeOK
<1>5. \A u \in Threads \ {t} :
        /\ InCall(u)' <=> InCall(u)
        /\ Silent(u)' <=> Silent(u)
        /\ Listening(u)' <=> Listening(u)
        /\ Overtaken(u)' <=> Overtaken(u)
  BY <1>3, <1>4 DEF InCall, Silent, Listening, Overtaken, ToCome, Goal, Row, Length, Handler
<1>6. UpToDate'
  BY <1>3, <1>4, <1>5 DEF CommitInv, UpToDate
<1>7. InCall(t)' /\ (Silent(t)' <=> ~Has(r, Reports))
  BY <1>3 DEF InCall, Silent
<1>8. ClockInv(server)'
  <2>1. CASE t = server
    BY <1>1, <1>2, <1>7, <2>1, EnterClocked DEF CommitInv, ClockInv
  <2>2. CASE t # server
    <3>1. CASE InCall(server)
      BY <2>2, <3>1, <1>3, <1>4, <1>5, ClockedStays DEF CommitInv, ClockInv
    <3>2. CASE ~InCall(server)
      BY <2>2, <3>2, <1>3, <1>5 DEF CommitInv, ClockInv, ClockKept
    <3>3. QED
      BY <3>1, <3>2
  <2>3. QED
    BY <2>1, <2>2
<1> HIDE DEF r
<1>9. CASE Silent(t)'
  BY <1>1, <1>3, <1>5, <1>6, <1>7, <1>8, <1>9 DEF CommitInv, ToldInv
\* A handler that is about to report is alone to do so.
<1>10. CASE ~Silent(t)'
  <2>1. ASSUME NEW u \in Threads \ {t}, InCall(u) PROVE Silent(u)
    <3> SUFFICES ASSUME ~Silent(u) PROVE FALSE
      OBVIOUS
    <3>1. call[u].at # "idle"
      BY <2>1 DEF InCall
    <3>2. /\ call[u].event \in EzEvents
          /\ u # server => call[u].event = "onEzScreenClientDisconnected"
          /\ call[u].event \in SynchronizedEvents => lock = u
          /\ u # server => currentState = "EzScreenConnected"
      BY <2>1, <3>1, CommitFacts
    <3>3. call[t].event \in SynchronizedEvents => lock = NoThread
      BY DEF Enter
    <3>4. ~(call[t].event \in SynchronizedEvents /\ call[u].event \in SynchronizedEvents)
      BY <3>2, <3>3, ThreadsAssumption
    <3>5. CASE t = server
      <4>1. currentState = "EzScreenConnected" /\ call[t].event \notin SynchronizedEvents
        BY <3>2, <3>4, <3>5 DEF SynchronizedEvents
      <4>2. QED
        BY <4>1, <1>2, <1>7, <1>10, CommitRows DEF r
    <3>6. CASE t # server
      <4>1. call[t].event = "onEzScreenClientDisconnected"
        BY <1>2, <3>6
      <4>2. currentState = "EzScreenConnected"
        <5>1. currentState # "EzScreenConnected" => r = Ignore
          BY <4>1, CommitRows DEF CommitInv, EzInv, r
        <5>2. QED
          BY <5>1, <1>7, <1>10 DEF Has, Ignore, Reply
      <4>3. call[u].event \notin SynchronizedEvents
        BY <3>4, <4>1 DEF SynchronizedEvents
      <4>4. call[u].from = "EzScreenConnected"
        BY <2>1, <4>2 DEF CommitInv, UpToDate, Overtaken
      <4>5. QED
        BY <3>2, <4>3, <4>4, CommitRows DEF Silent, Row, Handler
    <3>7. QED
      BY <3>5, <3>6
  <2>2. told <=> currentState # "Idle"
    BY <1>1, <2>1 DEF CommitInv, ToldInv
  <2>3. ToCome(t, Reports)'
    BY <1>3, <1>7, <1>10 DEF Has
  <2>4. Listening(t)'
    BY <1>3, <2>2, <2>3 DEF Listening
  <2>5. QED
    BY <1>5, <1>6, <1>7, <1>8, <1>10, <2>1, <2>4 DEF ToldInv
<1>11. QED
  BY <1>9, <1>10

LEMMA CommitStep ==
  ASSUME NEW server \in Threads, AtThisCommit(server), IInv, CommitInv(server),
         NEW t \in Threads, Step(t)
  PROVE  UpToDate' /\ ToldInv' /\ ClockInv(server)'
<1> DEFINE op == Row(t).ops[call[t].step]
<1>1. InCall(t) /\ call[t].at # "idle"
  BY DEF Step, InCall
<1>2. NoAirPlayStart /\ (t # server => call[t].event = "onEzScreenClientDisconnected")
  BY <1>1, CommitFacts
<1>3. /\ call[t].step \in 1..Length(t)
      /\ call'[t].at = "handling" /\ call'[t].event = call[t].event
      /\ call'[t].from = call[t].from /\ currentState' = currentState /\ Perform(op)
      /\ told' = (IF op = Connected THEN TRUE ELSE IF op = Disconnected THEN FALSE ELSE told)
      /\ Row(t)' = Row(t)
      /\ RowsOK(call[t].from, Row(t))
  BY <1>2, StepFacts
<1>4. \A u \in Threads \ {t} : call'[u] = call[u]
  BY DEF Step, IInv, TypeOK
<1>5. \A u \in Threads :
        /\ InCall(u)' <=> InCall(u)
        /\ Silent(u)' <=> Silent(u)
        /\ Overtaken(u)' <=> Overtaken(u)
  BY <1>1, <1>3, <1>4 DEF InCall, Silent, Overtaken, Row, Handler
<1>6. \A u \in Threads \ {t} : told' = told => (Listening(u)' <=> Listening(u))
  BY <1>4 DEF Listening, ToCome, Goal, Row, Length, Handler
<1>7. UpToDate'
  BY <1>3, <1>4, <1>5 DEF CommitInv, UpToDate
<1>8. ClockInv(server)'
  <2>1. CASE t = server
    BY <1>1, <1>2, <1>5, <2>1, ClockedStep DEF CommitInv, ClockInv
  \* A disconnect touches no clock and shows no mirror.
  <2>2. CASE t # server
    <3>1. op \in {"stopVideo", "displayImage", "informDelegateDisconnected"}
      <4>1. CASE call[t].from = "EzScreenConnected"
        <5>1. Row(t).ops = << "stopVideo", "displayImage", "informDelegateDisconnected" >>
          BY <1>2, <2>2, <4>1
             DEF Row, Handler, Reaction, EzScreenConnectedState, Reply
        <5>2. QED
          BY <5>1, <1>3 DEF Length, Row
      <4>2. CASE call[t].from # "EzScreenConnected"
        <5>1. call[t].from \in EzStates
          BY <1>1 DEF CommitInv, EzInv, EzCalls
        <5>2. Row(t) = Ignore
          BY <1>2, <2>2, <4>2, <5>1, CommitRows DEF Row, Handler
        <5>3. QED
          BY <5>2, <1>3 DEF Length, Row, Ignore, Reply
      <4>3. QED
        BY <4>1, <4>2
    <3>2. /\ clock' = clock /\ decoder' = decoder
          /\ "mirror" \in views' => "mirror" \in views
      BY <1>3, <3>1 DEF Perform, ShowOnly, KeepMirror, screen
    <3>3. CASE InCall(server)
      BY <2>2, <3>2, <3>3, <1>4, <1>5, ClockedStays DEF CommitInv, ClockInv
    <3>4. CASE ~InCall(server)
      BY <3>2, <3>4, <1>3, <1>5 DEF CommitInv, ClockInv, ClockKept
    <3>5. QED
      BY <3>3, <3>4
  <2>3. QED
    BY <2>1, <2>2
<1>9. CASE Silent(t)
  <2>1. op \notin Reports
    BY <1>3, <1>9 DEF Silent, Has, Length, Row
  <2>2. told' = told
    BY <1>3, <2>1 DEF Reports
  <2>3. ASSUME NEW u \in Threads, InCall(u)', ~Silent(u)' PROVE Listening(u)'
    <3>1. u # t /\ InCall(u) /\ ~Silent(u)
      BY <2>3, <1>5, <1>9
    <3>2. QED
      BY <3>1, <2>2, <1>6 DEF CommitInv, ToldInv
  <2>4. (\A u \in Threads : InCall(u)' => Silent(u)') => (told' <=> currentState' # "Idle")
    <3>1. (\A u \in Threads : InCall(u) => Silent(u)) => (told <=> currentState # "Idle")
      BY DEF CommitInv, ToldInv
    <3>2. currentState' = currentState
      BY <1>3
    <3>3. QED
      BY <1>5, <2>2, <3>1, <3>2
  <2>5. ToldInv'
    BY <2>3, <2>4 DEF ToldInv
  <2>6. QED
    BY <1>7, <1>8, <2>5
<1>10. CASE ~Silent(t)
  <2>1. \A u \in Threads \ {t} : InCall(u) => Silent(u)
    BY <1>1, <1>10, OneReports
  <2>2. Listening(t)'
    BY <1>1, <1>2, <1>10, ListeningStep DEF CommitInv, ToldInv
  <2>3. ToldInv'
    BY <1>1, <1>5, <1>10, <2>1, <2>2 DEF ToldInv
  <2>4. QED
    BY <1>7, <1>8, <2>3
<1>11. QED
  BY <1>9, <1>10

\* A failed decoder leaves the state and what was told alone: its handler has
\* the monitor, and not yet reported.
LEMMA CommitFail ==
  ASSUME NEW server \in Threads, AtThisCommit(server), IInv, CommitInv(server),
         NEW t \in Threads, DecoderFails(t)
  PROVE  UpToDate' /\ ToldInv' /\ ClockInv(server)'
<1>1. InCall(t) /\ call[t].at # "idle"
  BY DEF DecoderFails, InCall
<1>2. NoAirPlayStart
  BY <1>1, CommitFacts
<1>3. /\ call'[t].at = "calling"
      /\ UNCHANGED << currentState, told, views, decoder, clock >>
      /\ call[t].step \in 1..Length(t)
      /\ Row(t).ops[call[t].step] = "createDecoder"
      /\ Listening(t) => (told <=> call[t].from # "Idle")
      /\ Clocked(t) => clock
  BY <1>2, FailFacts
<1>4. call[t].event = "onStartMirroring" /\ lock = t
  BY <1>1, <1>3, WaitingFacts DEF CommitInv
<1>5. t = server /\ call[t].from = currentState
  BY <1>1, <1>4, CommitFacts DEF SynchronizedEvents
<1>6. \A u \in Threads \ {t} : ~InCall(u) /\ ~InCall(u)'
  <2> SUFFICES ASSUME NEW u \in Threads \ {t} PROVE ~InCall(u) /\ ~InCall(u)'
    OBVIOUS
  <2>1. call'[u] = call[u]
    BY DEF DecoderFails, IInv, TypeOK
  <2>2. InCall(u) => lock = u
    BY <1>5, CommitFacts DEF InCall, SynchronizedEvents
  <2>3. QED
    BY <1>4, <2>1, <2>2 DEF InCall
<1>7. ~InCall(t)'
  BY <1>3 DEF InCall
<1>8. told <=> currentState # "Idle"
  BY <1>1, <1>3, <1>5, <1>6 DEF CommitInv, ToldInv
<1>9. clock
  BY <1>1, <1>3, <1>5 DEF CommitInv, ClockInv
<1>10. QED
  BY <1>3, <1>5, <1>6, <1>7, <1>8, <1>9 DEF UpToDate, ToldInv, ClockInv, ClockKept

LEMMA CommitStore ==
  ASSUME NEW server \in Threads, AtThisCommit(server), IInv, CommitInv(server),
         NEW t \in Threads, Store(t)
  PROVE  UpToDate' /\ ToldInv' /\ ClockInv(server)'
<1>1. InCall(t) /\ call[t].at # "idle"
  BY DEF Store, InCall
<1>2. /\ NoAirPlayStart /\ call[t].event \in EzEvents
      /\ t # server => call[t].event = "onEzScreenClientDisconnected"
      /\ call[t].event \in SynchronizedEvents => call[t].from = currentState
      /\ t # server /\ ~Silent(t) => currentState = "EzScreenConnected"
  BY <1>1, CommitFacts
<1>3. /\ call'[t] = NotInCall
      /\ UNCHANGED << told, views, decoder, clock >>
      /\ \A u \in Threads \ {t} : call'[u] = call[u]
      /\ currentState' = IF Row(t).next = Null THEN currentState ELSE Row(t).next
      /\ lock \in {NoThread, t}
  BY DEF IInv, TypeOK, Store, screen, Row
<1>4. call[t].from \in EzStates /\ currentState \in EzStates
  BY <1>1 DEF CommitInv, EzInv, EzCalls
<1>5. RowsOK(call[t].from, Row(t)) /\ \A ops : ~ToCome(t, ops)
  BY <1>1, <1>2, RowInFlight DEF Store, ToCome, Length, Row
<1>6. Overtaken(t) => Row(t).next = Null
  BY <1>2, CommitRows DEF Overtaken, Row, Handler
<1>7. currentState' # currentState =>
        call[t].from = currentState /\ currentState' = Goal(t)
  BY <1>1, <1>3, <1>6 DEF CommitInv, UpToDate, Goal, Final
\* Whoever else is in a handler is the server, without the monitor: t is a
\* heartbeat timeout, which leaves the state or disconnects it.
<1>8. ASSUME NEW u \in Threads \ {t}, InCall(u)
      PROVE  /\ t # server /\ u = server
             /\ call[u].event \notin SynchronizedEvents
             /\ currentState = "EzScreenConnected" => currentState' = "Idle"
             /\ currentState # "EzScreenConnected" => currentState' = currentState
  <2>1. call[u].at # "idle"
    BY <1>8 DEF InCall
  <2>2. call[u].event \notin SynchronizedEvents
    BY <1>3, <1>8, <2>1, CommitFacts, ThreadsAssumption
  <2>3. u = server
    BY <2>1, <2>2, CommitFacts DEF SynchronizedEvents
  <2>4. Row(t) = Reaction(currentState, "onEzScreenClientDisconnected")
    BY <1>2, <2>3 DEF Row, Handler, SynchronizedEvents
  <2>5. currentState # "EzScreenConnected" => Row(t).next = Null
    BY <1>4, <2>4, CommitRows DEF Ignore, Reply
  <2>6. currentState = "EzScreenConnected" => Row(t).next = "Idle"
    BY <2>4, CommitRows
  <2>7. QED
    BY <1>3, <2>2, <2>3, <2>5, <2>6 DEF Null
<1>9. \A u \in Threads \ {t} :
        /\ InCall(u)' <=> InCall(u)
        /\ Silent(u)' <=> Silent(u)
        /\ Listening(u)' <=> Listening(u)
  BY <1>3 DEF InCall, Silent, Listening, ToCome, Goal, Row, Length, Handler
<1>10. ~InCall(t)'
  BY <1>3 DEF InCall, NotInCall
<1>11. UpToDate'
  <2> SUFFICES ASSUME NEW u \in Threads \ {t}, InCall(u)
               PROVE  call'[u].from = currentState' \/ Overtaken(u)'
    BY <1>9, <1>10 DEF UpToDate
  <2>1. /\ call[u].event \notin SynchronizedEvents
        /\ currentState = "EzScreenConnected" => currentState' = "Idle"
        /\ currentState # "EzScreenConnected" => currentState' = currentState
    BY <1>8
  <2>2. call[u].from = currentState \/ Overtaken(u)
    BY DEF CommitInv, UpToDate
  <2>3. QED
    BY <1>3, <2>1, <2>2 DEF Overtaken
<1>12. ToldInv'
  <2>1. CASE ~Silent(t)
    <3>1. \A u \in Threads \ {t} : InCall(u) => Silent(u)
      BY <1>1, <2>1, OneReports
    <3>2. told <=> Goal(t) # "Idle"
      BY <1>1, <1>5, <2>1 DEF CommitInv, ToldInv, Listening
    <3>3. call[t].from = currentState
      BY <1>1, <1>2, <2>1, CommitRows
         DEF CommitInv, UpToDate, Overtaken, Silent, Row, Handler
    <3>4. currentState' = Goal(t)
      BY <1>3, <3>3 DEF Goal, Final
    <3>5. QED
      BY <1>3, <1>9, <1>10, <3>1, <3>2, <3>4 DEF ToldInv
  <2>2. CASE Silent(t)
    <3>1. (currentState = "Idle") <=> (currentState' = "Idle")
      <4>1. Goal(t) = "Idle" <=> call[t].from = "Idle"
        <5>1. At(Row(t), 1) \notin Reports /\ At(Row(t), Len(Row(t).ops)) \notin Reports
          BY <2>2 DEF Silent, Has, At, Reports, Null, Connected, Disconnected
        <5>2. QED
          BY <5>1, <1>5 DEF RowsOK, ReportRow, Goal
      <4>2. QED
        BY <4>1, <1>7
    <3>2. (\A u \in Threads : InCall(u)' => Silent(u)') => (told <=> currentState # "Idle")
      BY <1>1, <1>9, <2>2 DEF CommitInv, ToldInv
    <3>3. \A u \in Threads : InCall(u)' /\ ~Silent(u)' => Listening(u)'
      BY <1>9, <1>10 DEF CommitInv, ToldInv
    <3>4. QED
      BY <1>3, <3>1, <3>2, <3>3 DEF ToldInv
  <2>3. QED
    BY <2>1, <2>2
<1>13. ClockInv(server)'
  <2>1. CASE t = server
    <3>1. Clocked(t)
      BY <1>1, <2>1 DEF CommitInv, ClockInv
    <3>2. currentState' \in MirrorStates => Goal(t) \in MirrorStates
      <4>1. CASE call[t].from = currentState
        BY <1>3, <4>1 DEF Goal, Final
      <4>2. CASE Overtaken(t)
        BY <1>3, <1>6, <4>2 DEF Overtaken, MirrorStates
      <4>3. QED
        BY <1>1, <4>1, <4>2 DEF CommitInv, UpToDate
    <3>3. QED
      BY <1>3, <1>5, <1>10, <2>1, <3>1, <3>2 DEF ClockInv, ClockKept, Clocked
  <2>2. CASE t # server /\ InCall(server)
    BY <1>3, <1>9, <2>2, ClockedStays DEF CommitInv, ClockInv
  <2>3. CASE t # server /\ ~InCall(server)
    <3>1. currentState' \in MirrorStates => currentState \in MirrorStates
      <4>1. CASE currentState' = currentState
        BY <4>1
      <4>2. CASE currentState' # currentState
        <5>1. Row(t) = Reaction(currentState, "onEzScreenClientDisconnected")
          BY <1>2, <1>7, <2>3, <4>2 DEF Row, Handler
        <5>2. Row(t).next \in {"Idle", Null}
          BY <1>4, <5>1, CommitRows DEF Ignore, Reply
        <5>3. QED
          BY <1>3, <4>2, <5>2 DEF MirrorStates
      <4>3. QED
        BY <4>1, <4>2
    <3>2. QED
      BY <1>3, <1>9, <2>3, <3>1 DEF CommitInv, ClockInv, ClockKept
  <2>4. QED
    BY <2>1, <2>2, <2>3
<1>14. QED
  BY <1>11, <1>12, <1>13

LEMMA CommitOutside ==
  ASSUME NEW server \in Threads, CommitInv(server),
         UNCHANGED << currentState, call, told, clock >>,
         "mirror" \in views' => "mirror" \in views,
         decoder' => decoder \/ "mirror" \in views
  PROVE  UpToDate' /\ ToldInv' /\ ClockInv(server)'
<1>1. \A u \in Threads :
        /\ InCall(u)' <=> InCall(u)
        /\ Silent(u)' <=> Silent(u)
        /\ Listening(u)' <=> Listening(u)
        /\ Overtaken(u)' <=> Overtaken(u)
  BY DEF InCall, Silent, Listening, Overtaken, ToCome, Goal, Row, Length, Handler
<1>2. UpToDate' /\ ToldInv'
  BY <1>1 DEF CommitInv, UpToDate, ToldInv
<1>3. ClockInv(server)'
  BY <1>1, ClockedStays DEF CommitInv, ClockInv, ClockKept
<1>4. QED
  BY <1>2, <1>3

LEMMA CommitCall ==
  ASSUME NEW server \in Threads, IInv, CommitInv(server),
         NEW t \in Threads, NEW e \in Events, Call(t, e)
  PROVE  UpToDate' /\ ToldInv' /\ ClockInv(server)'
<1>1. /\ ~InCall(t) /\ ~InCall(t)'
      /\ UNCHANGED << currentState, told, views, decoder, clock >>
      /\ \A u \in Threads \ {t} : call'[u] = call[u]
  BY DEF Call, InCall, NotInCall, IInv, TypeOK, screen
<1>2. \A u \in Threads \ {t} :
        /\ InCall(u)' <=> InCall(u)
        /\ Silent(u)' <=> Silent(u)
        /\ Listening(u)' <=> Listening(u)
        /\ Overtaken(u)' <=> Overtaken(u)
  BY <1>1 DEF InCall, Silent, Listening, Overtaken, ToCome, Goal, Row, Length, Handler
<1>3. UpToDate' /\ ToldInv'
  BY <1>1, <1>2 DEF CommitInv, UpToDate, ToldInv
<1>4. ClockInv(server)'
  BY <1>1, <1>2, ClockedStays DEF CommitInv, ClockInv, ClockKept
<1>5. QED
  BY <1>3, <1>4

\* One server thread and any number of heartbeat timeouts: every handler in
\* flight is up to date or overtaken, and what is told and clocked follows.
THEOREM CommitInvariant ==
  ASSUME NEW server \in Threads, AtThisCommit(server)
  PROVE  Spec => []CommitInv(server)
<1> DEFINE J == UpToDate /\ ToldInv /\ ClockInv(server)
<1>1. Init => Delivered /\ J
  BY DEF Init, Delivered, UpToDate, ToldInv, ClockInv, ClockKept, MirrorStates,
         InCall, NotInCall
<1>2. EzScreenOnly
  BY DEF AtThisCommit
<1>3. IInv /\ EzInv /\ Delivered /\ J /\ [Next]_vars => Delivered' /\ J'
  <2> SUFFICES ASSUME IInv, EzInv, Delivered, J, [Next]_vars PROVE Delivered' /\ J'
    OBVIOUS
  <2>1. CommitInv(server) /\ Delivered'
    BY DeliveredStep DEF CommitInv
  <2>2. ASSUME NEW t \in Threads, NEW e \in Events, Call(t, e) PROVE J'
    BY <2>1, <2>2, CommitCall
  <2>3. ASSUME NEW t \in Threads, Enter(t) PROVE J'
    BY <2>1, <2>3, CommitEnter
  <2>4. ASSUME NEW t \in Threads, Step(t) PROVE J'
    BY <2>1, <2>4, CommitStep
  <2>5. ASSUME NEW t \in Threads, DecoderFails(t) PROVE J'
    BY <2>1, <2>5, CommitFail
  <2>6. ASSUME NEW t \in Threads, Store(t) PROVE J'
    BY <2>1, <2>6, CommitStore
  <2>7. ASSUME NEW t \in Threads, Stop(t) PROVE J'
    BY <2>1, <2>7, CommitOutside DEF Stop
  <2>8. ASSUME NEW t \in Threads, StopDisplay(t) PROVE J'
    BY <2>1, <2>8, CommitOutside DEF StopDisplay, ShowOnly
  <2>9. ASSUME NEW t \in Threads, CodecData(t) PROVE J'
    BY <2>1, <2>9, CommitOutside DEF CodecData, screen
  <2>10. CASE MediaEnded
    BY <2>1, <2>10, CommitOutside DEF MediaEnded
  <2>11. CASE SurfaceTextureAvailable
    BY <2>1, <2>11, CommitOutside DEF SurfaceTextureAvailable
  <2>12. CASE SurfaceTextureDestroyed
    BY <2>1, <2>12, CommitOutside DEF SurfaceTextureDestroyed, StopMirrorDecoding
  <2>13. CASE UNCHANGED vars
    BY <2>1, <2>13, CommitOutside DEF vars, screen
  <2> HIDE DEF J
  <2>14. QED
    BY <2>1, <2>2, <2>3, <2>4, <2>5, <2>6, <2>7, <2>8, <2>9, <2>10, <2>11, <2>12, <2>13
       DEF Next
<1>4. EzInv /\ Delivered /\ J => CommitInv(server)
  BY DEF CommitInv
<1> HIDE DEF J
<1>5. QED
  BY <1>1, <1>2, <1>3, <1>4, InvariantHolds, EzInvariant, PTL DEF Spec

\* However the heartbeat timeout races with the requests of EZCast senders, the
\* listener believes in a connection exactly when the receiver is not idle.
THEOREM ListenerKnowsTheStateAtThisCommit ==
  ASSUME NEW server \in Threads, AtThisCommit(server)
  PROVE  Spec => []ListenerKnowsTheState
<1>1. CommitInv(server) => ListenerKnowsTheState
  BY DEF CommitInv, ToldInv, ListenerKnowsTheState, Quiescent
<1>2. QED
  BY <1>1, CommitInvariant, PTL

\* However the heartbeat timeout races with them, a mirror decoder has the
\* sender's clock between handlers.
THEOREM DecoderHasClockAtThisCommit ==
  ASSUME NEW server \in Threads, AtThisCommit(server)
  PROVE  Spec => []DecoderHasClock
<1>1. CommitInv(server) => DecoderHasClock
  BY DEF CommitInv, ClockInv, ClockKept, DecoderHasClock, Quiescent
<1>2. QED
  BY <1>1, CommitInvariant, PTL

\* However the heartbeat timeout races with them, the listener never hears the
\* same report twice in a row.
THEOREM ReportsAlternateAtThisCommit ==
  ASSUME NEW server \in Threads, AtThisCommit(server)
  PROVE  Spec => ReportsAlternate
<1> DEFINE Alternate(t) ==
      /\ call[t].at = "handling" /\ call'[t].step = call[t].step + 1
      /\ Op(call[t]) \in {"informDelegateConnected", "informDelegateDisconnected"}
      => told' # told
<1>1. IInv /\ CommitInv(server) /\ [Next]_vars => [\A t \in Threads : Alternate(t)]_vars
  <2> SUFFICES ASSUME IInv, CommitInv(server), [Next]_vars, NEW t \in Threads,
                      call[t].at = "handling", call'[t].step = call[t].step + 1,
                      Op(call[t]) \in Reports
               PROVE  told' # told
    BY DEF Reports, Connected, Disconnected
  <2>1. Step(t) /\ InCall(t)
    BY OnlyStepSteps DEF InCall
  <2>2. NoAirPlayStart
    BY CommitFacts
  <2>3. call[t].step \in 1..Length(t)
    BY <2>1, <2>2, StepFacts
  <2>4. ~Silent(t)
    BY <2>3 DEF Silent, Has, Op, Row, Length
  <2>5. Listening(t)
    BY <2>1, <2>4 DEF CommitInv, ToldInv
  <2>6. QED
    BY <2>1, <2>2, <2>5, ReportStep
<1>2. QED
  BY <1>1, InvariantHolds, CommitInvariant, PTL DEF Spec, ReportsAlternate
=============================================================================
