------------------------------ MODULE Receiver ------------------------------
(***************************************************************************)
(* The EZCast screen receiver: StateContext, the threads that deliver      *)
(* events to it, and the screen resources EZScreenHelper drives for it     *)
(* (views, media player, mirror decoder and clock, connection listener).   *)
(*                                                                         *)
(* Events arrive on the thread of the shared AsyncServer (JSON-RPC and     *)
(* mirror connections), on the main looper (heartbeat timeout) and, when   *)
(* the AirPlay server runs (its start is commented out at this commit), on *)
(* the RAOP thread.  A view is shown or hidden by a post to the main       *)
(* looper; `views' is what it will show.  Most handlers hold the           *)
(* StateContext monitor; the five UnsynchronizedEvents do not, so that     *)
(* their operations, and the state they read first and store last,         *)
(* interleave with everything else.                                        *)
(***************************************************************************)
EXTENDS ReceiverStates

CONSTANTS
  Threads,   \* the threads that call StateContext
  Emits,     \* the events (and direct commands) each thread delivers
  Main,      \* the main looper, which may also be one of Threads
  NoThread

Commands == {"stop", "stop_display"}   \* RPCs that bypass StateContext

\* What EZCast senders and their heartbeat deliver; the rest is AirPlay's.
EzScreenEvents ==
  {"onEzScreenClientConnected", "onEzScreenClientDisconnected",
   "onDisplayUrl", "onLoadEzScreenVideo"}
MirrorEvents == {"onStartMirroring", "onStopMirroring"}
AirPlayEvents == Events \ (EzScreenEvents \cup MirrorEvents)
ServesAirPlay == \E t \in Threads : Emits[t] \cap AirPlayEvents # {}

ASSUME ThreadsAssumption ==
  /\ NoThread \notin Threads
  /\ Emits \in [Threads -> SUBSET (Events \cup Commands)]

VARIABLES
  currentState,  \* StateContext.currentState
  lock,          \* owner of the StateContext monitor
  call,          \* the handler each thread is in
  mirrorView,    \* mirrorView # null
  views,         \* the visible views
  player,        \* what mediaPlayerHelper plays
  decoder,       \* decoder # null
  clock,         \* playbackClock # null
  surface,       \* mirrorSurfaceTexture # null
  sps,           \* mSps # null
  told           \* what ConnectionListener was told last

screen == << mirrorView, views, player, decoder, clock >>
vars == << currentState, lock, call, screen, surface, sps, told >>

Views == {"web", "mjpeg", "music", "mirror", "photo"}
Players == {"none", "airplay", "ezscreen"}

NotInCall == [at |-> "idle", event |-> Null, from |-> Null, step |-> 0]

Init ==
  /\ currentState = "Idle"
  /\ lock = NoThread
  /\ call = [t \in Threads |-> NotInCall]
  \* The view is created with the AirPlay server, and never without Android 4.1.
  /\ mirrorView \in BOOLEAN /\ (ServesAirPlay => mirrorView)
  /\ views = {"web"}
  /\ player = "none"
  /\ decoder = FALSE
  /\ clock = FALSE
  /\ surface = FALSE
  /\ sps = FALSE
  /\ told = FALSE

-----------------------------------------------------------------------------
(* What a StateContext operation does to the screen.  Every showXView ends *)
(* in hideAllViewsExcept, which also stops the media player.               *)

ShowOnly(v) == views' = {v} /\ player' = "none"

Hide(v) == views' = views \ {v} /\ UNCHANGED player

\* Mutant: releaseDecoder is forgotten.
ForgetDecoder == UNCHANGED decoder

StopMirrorDecoding == decoder' = FALSE

KeepMirror == UNCHANGED << decoder, clock >>
KeepViews == UNCHANGED << views, player >>

ShowMirrorView == IF mirrorView THEN ShowOnly("mirror") ELSE KeepViews

Perform(op) ==
  \/ op = "stopVideo" /\ player' = "none" /\ UNCHANGED views /\ KeepMirror
  \/ op = "loadVideo" /\ player' = "airplay" /\ UNCHANGED views /\ KeepMirror
  \/ /\ op = "loadEzScreenVideo"
     /\ views' = {} /\ player' = "ezscreen" /\ KeepMirror
  \/ op = "displayImage" /\ ShowOnly("web") /\ KeepMirror
  \* Motion JPEG for an http URL, the web page otherwise.
  \/ op = "displayUrl" /\ (\E v \in {"mjpeg", "web"} : ShowOnly(v)) /\ KeepMirror
  \/ op = "showMusicView" /\ ShowOnly("music") /\ KeepMirror
  \/ op = "showPhotoView" /\ ShowOnly("photo") /\ KeepMirror
  \/ op = "showMirrorView" /\ ShowMirrorView /\ KeepMirror
  \/ op = "hideMusicView" /\ Hide("music") /\ KeepMirror
  \/ op = "hidePhotoView" /\ Hide("photo") /\ KeepMirror
  \/ /\ op = "hideMirrorView"
     /\ views' = (views \ {"mirror"}) \cup {"web"}
     /\ UNCHANGED player /\ KeepMirror
  \/ op = "stopMirrorDecoding" /\ StopMirrorDecoding /\ KeepViews /\ UNCHANGED clock
  \/ op = "createMirrorClock" /\ clock' = TRUE /\ KeepViews /\ UNCHANGED decoder
  \* createMirrorSurface sleeps until the surface texture exists.
  \/ op = "createDecoder" /\ surface /\ decoder' = TRUE /\ KeepViews /\ UNCHANGED clock
  \/ /\ op = "stopMirror"
     /\ StopMirrorDecoding /\ clock' = FALSE
     /\ views' = (views \ {"mirror"}) \cup {"web"} /\ UNCHANGED player
  \/ /\ op \in {"informDelegateConnected", "informDelegateDisconnected"}
     /\ UNCHANGED screen

-----------------------------------------------------------------------------
(* One call of StateContext.onX: wait for the monitor, read currentState,  *)
(* perform the handler's operations, store the State it returned.          *)

\* Mutants: one row of the table goes wrong.
Instead(c, s, e, reply) ==
  IF c.from = s /\ c.event = e THEN reply ELSE Reaction(c.from, c.event)
HandlerSilentGoodbye(c) ==
  Instead(c, "EzScreenConnected", "onEzScreenClientDisconnected",
          Reply(<< "stopVideo", "displayImage" >>, "Idle"))
HandlerSilentMirrorStart(c) ==
  Instead(c, "Idle", "onStartMirroring", Reply(StartMirrorOps, "AirPlayMirror"))
HandlerReportsTwice(c) ==
  Instead(c, "EzScreenConnected", "onStartAirTunes",
          Reply(<< "informDelegateConnected" >>, "AirTunesConnected"))
HandlerVideoGoesOn(c) ==
  Instead(c, "AirPlayPlayVideo", "onStopAirPlayVideo",
          Reply(<< "informDelegateDisconnected" >>, "Idle"))
HandlerPhotoStays(c) ==
  Instead(c, "AirPlayPhoto", "onLoadAirPlayVideo",
          Reply(<< "loadVideo" >>, "AirPlayPlayVideo"))

Handler(c) == Reaction(c.from, c.event)

Op(c) == Handler(c).ops[c.step]

Call(t, e) ==
  /\ call[t].at = "idle"
  /\ e \in Emits[t] \cap Events
  /\ call' = [call EXCEPT ![t] = [NotInCall EXCEPT !.at = "calling", !.event = e]]
  /\ UNCHANGED << currentState, lock, screen, surface, sps, told >>

\* Mutant: the handler is not synchronized.
EnterAtOnce(t) ==
  /\ call[t].at = "calling"
  /\ lock' = IF call[t].event \in SynchronizedEvents THEN t ELSE lock
  /\ call' = [call EXCEPT ![t] = [at |-> "handling", event |-> call[t].event,
                                  from |-> currentState, step |-> 1]]
  /\ UNCHANGED << currentState, screen, surface, sps, told >>

Enter(t) ==
  /\ call[t].at = "calling"
  /\ IF call[t].event \in SynchronizedEvents
     THEN lock = NoThread /\ lock' = t
     ELSE UNCHANGED lock
  /\ call' = [call EXCEPT ![t] = [at |-> "handling", event |-> call[t].event,
                                  from |-> currentState, step |-> 1]]
  /\ UNCHANGED << currentState, screen, surface, sps, told >>

Step(t) ==
  /\ call[t].at = "handling"
  /\ call[t].step <= Len(Handler(call[t]).ops)
  /\ Perform(Op(call[t]))
  /\ told' = CASE Op(call[t]) = "informDelegateConnected" -> TRUE
               [] Op(call[t]) = "informDelegateDisconnected" -> FALSE
               [] OTHER -> told
  /\ call' = [call EXCEPT ![t].step = @ + 1]
  /\ UNCHANGED << currentState, lock, mirrorView, surface, sps >>

\* createDecoder throws when no resolution works: the handler is left without
\* storing a State, and the mirror socket's catch block calls onStopMirroring.
DecoderFails(t) ==
  /\ call[t].at = "handling"
  /\ call[t].step <= Len(Handler(call[t]).ops)
  /\ Op(call[t]) = "createDecoder" /\ surface
  /\ lock' = NoThread
  /\ call' = [call EXCEPT ![t] = [NotInCall EXCEPT !.at = "calling",
                                                   !.event = "onStopMirroring"]]
  /\ UNCHANGED << currentState, screen, surface, sps, told >>

\* Mutant: setCurrentState stores a null.
StoreAnything(t) ==
  LET c == call[t] IN
  /\ c.at = "handling"
  /\ c.step > Len(Handler(c).ops)
  /\ lock \in {NoThread, t}
  /\ lock' = NoThread
  /\ currentState' = Handler(c).next
  /\ sps' = (sps /\ c.event # "onStopMirroring")
  /\ call' = [call EXCEPT ![t] = NotInCall]
  /\ UNCHANGED << screen, surface, told >>

\* setCurrentState, itself synchronized.  onStopMirroring then forgets the
\* codec data.
Store(t) ==
  LET c == call[t] IN
  /\ c.at = "handling"
  /\ c.step > Len(Handler(c).ops)
  /\ lock \in {NoThread, t}
  /\ lock' = NoThread
  /\ currentState' = IF Handler(c).next = Null THEN currentState ELSE Handler(c).next
  /\ sps' = (sps /\ c.event # "onStopMirroring")
  /\ call' = [call EXCEPT ![t] = NotInCall]
  /\ UNCHANGED << screen, surface, told >>

-----------------------------------------------------------------------------
(* What happens outside StateContext.                                      *)

\* The "stop" and "stop_display" RPCs act on the player and the views whatever
\* the current state is.
Stop(t) ==
  /\ call[t].at = "idle" /\ "stop" \in Emits[t]
  /\ player' = "none"
  /\ UNCHANGED << currentState, lock, call, mirrorView, views, decoder, clock, surface, sps,
                  told >>

StopDisplay(t) ==
  /\ call[t].at = "idle" /\ "stop_display" \in Emits[t]
  /\ ShowOnly("web")
  /\ UNCHANGED << currentState, lock, call, mirrorView, decoder, clock, surface, sps,
                  told >>

\* The mirror connection delivers the codec data.
CodecData(t) ==
  /\ call[t].at = "idle" /\ "onStartMirroring" \in Emits[t]
  /\ sps' = TRUE
  /\ UNCHANGED << currentState, lock, call, screen, surface, told >>

MainIsFree == Main \in Threads => call[Main].at = "idle"

MediaEnded ==
  /\ MainIsFree /\ player # "none"
  /\ player' = "none"
  /\ UNCHANGED << currentState, lock, call, mirrorView, views, decoder, clock, surface, sps,
                  told >>

\* A TextureView gets its surface when it is first drawn, hence visible.
SurfaceTextureAvailable ==
  /\ MainIsFree /\ ~surface /\ "mirror" \in views
  /\ surface' = TRUE
  /\ decoder' = (decoder \/ sps)
  /\ UNCHANGED << currentState, lock, call, mirrorView, views, player, clock, sps, told >>

SurfaceTextureDestroyed ==
  /\ MainIsFree /\ surface
  /\ surface' = FALSE
  /\ StopMirrorDecoding
  /\ UNCHANGED << currentState, lock, call, mirrorView, views, player, clock, sps, told >>

Next ==
  \/ \E t \in Threads :
       \/ \E e \in Events : Call(t, e)
       \/ Enter(t) \/ Step(t) \/ DecoderFails(t) \/ Store(t)
       \/ Stop(t) \/ StopDisplay(t) \/ CodecData(t)
  \/ MediaEnded \/ SurfaceTextureAvailable \/ SurfaceTextureDestroyed

Spec == Init /\ [][Next]_vars

\* Every thread runs, and the main looper draws a visible view.  A surface
\* outlives the 10 ms between two polls of createMirrorSurface, hence SF.
Fairness ==
  /\ \A t \in Threads : /\ WF_vars(Enter(t))
                        /\ SF_vars(Step(t) \/ DecoderFails(t))
                        /\ WF_vars(Store(t))
  /\ WF_vars(SurfaceTextureAvailable)

FairSpec == Spec /\ Fairness
-----------------------------------------------------------------------------
InCall(t) == call[t].at = "handling"
Quiescent == \A t \in Threads : ~InCall(t)

VideoStates == {"AirPlayPlayVideo", "AirPlayPlayVideoWhenMirror",
                "AirPlayPlayVideoWhenAirTunesConnected"}
PhotoStates == {"AirPlayPhoto", "AirPlayPhotoWhenMirror"}
Overlays == Views \ {"web"}

TypeOK ==
  /\ currentState \in States
  /\ lock \in Threads \cup {NoThread}
  /\ call \in [Threads -> [at : {"idle", "calling", "handling"},
                           event : Events \cup {Null},
                           from : States \cup {Null},
                           step : Nat]]
  /\ mirrorView \in BOOLEAN
  /\ views \subseteq Views
  /\ player \in Players
  /\ decoder \in BOOLEAN /\ clock \in BOOLEAN
  /\ surface \in BOOLEAN /\ sps \in BOOLEAN /\ told \in BOOLEAN

\* Between handlers, an idle receiver has told its listener that nobody is
\* connected (informDelegateDisconnected is never skipped or overtaken), even
\* with display and play requests racing with connects and disconnects.
IdleMeansDisconnected ==
  Quiescent /\ currentState = "Idle" => ~told

\* With EZCast senders only, and however the heartbeat timeout races with their
\* requests, a receiver that is mirroring by itself has told it that somebody is
\* connected: the state is stored after the report and only a handler that
\* leaves it may take the report back.
MirrorMeansConnected ==
  Quiescent /\ currentState = "AirPlayMirror" => told

\* Between handlers the listener's view is exact: it believes that a client is
\* connected just when the receiver is not idle.
ListenerKnowsTheState == Quiescent => (told <=> currentState # "Idle")

\* ... and it never hears the same notification twice in a row.
ReportsAlternate ==
  [][\A t \in Threads :
       /\ call[t].at = "handling" /\ call'[t].step = call[t].step + 1
       /\ Op(call[t]) \in {"informDelegateConnected", "informDelegateDisconnected"}
       => told' # told]_vars

\* A video started over AirPlay never outlives the states that can stop it.
AirPlayVideoIsOwned ==
  Quiescent /\ player = "airplay" => currentState \in VideoStates

\* At most one overlay (photo, music, mirror, Motion JPEG) covers the web page.
OneOverlay ==
  Quiescent => \A v, w \in Overlays \cap views : v = w

\* An AirPlay photo is on screen only in the states a photo can be taken off in.
PhotoIsOwned ==
  Quiescent /\ "photo" \in views => currentState \in PhotoStates

\* A mirror decoder always has the sender's clock: without one the first frame
\* would install a SimplePlaybackClock and lose the sender's timing.
DecoderHasClock == Quiescent /\ decoder => clock

\* createMirrorSurface sleeps until the main looper has drawn the mirror view,
\* with the monitor held: while it does, nobody takes that view off the screen.
\* A receiver without AirPlay has no such view, and nothing to wait for.
AsksForSurface(t) ==
  /\ InCall(t) /\ call[t].step <= Len(Handler(call[t]).ops)
  /\ Op(call[t]) = "createDecoder"

SurfaceWillCome ==
  mirrorView => \A t \in Threads : AsksForSurface(t) => "mirror" \in views

\* Whoever owns the monitor lets go of it: the wait for the mirror surface in
\* createMirrorSurface, made with the monitor held, comes to an end.  There are
\* two ways for it not to, and no third: the looper that would bring the surface
\* waits for the monitor itself, or there is no view to bring one.
WaitsForEver(t) ==
  /\ lock = t /\ AsksForSurface(t) /\ ~surface
  /\ \/ /\ Main \in Threads /\ call[Main].at = "calling"
        /\ call[Main].event \in SynchronizedEvents
     \/ ~mirrorView

MonitorIsFreed == \A t \in Threads : lock = t ~> lock # t \/ WaitsForEver(t)
=============================================================================
