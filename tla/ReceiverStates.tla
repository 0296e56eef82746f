--------------------------- MODULE ReceiverStates ---------------------------
(***************************************************************************)
(* The receiver's state pattern (androidrx/app/state): what each State     *)
(* class does with each event of the State interface.                      *)
(*                                                                         *)
(* A reaction is the sequence of StateContext operations the handler calls *)
(* and the State it returns; Null stands for "return null", which keeps    *)
(* the current state.  The operations that only change texts, cover art or *)
(* the photo cache (updateAirTunesMetadata, updateAirTunesCoverArt,        *)
(* cacheImage) touch nothing the specification tracks and are left out.    *)
(***************************************************************************)
EXTENDS Naturals, Sequences

Null == "null"

States ==
  {"Idle", "EzScreenConnected", "AirPlayMirror", "AirPlayPhoto",
   "AirPlayPlayVideo", "AirPlayPhotoWhenMirror", "AirPlayPlayVideoWhenMirror",
   "AirPlayPlayVideoWhenAirTunesConnected", "AirTunesConnected",
   "AirTunesPlayMusic", "AirTunesPlayMusicWhenMirror"}

\* The handlers StateContext declares synchronized ...
SynchronizedEvents ==
  {"onEzScreenClientConnected", "onEzScreenClientDisconnected",
   "onLoadAirPlayVideo", "onStartAirTunes", "onStopAirTunes",
   "onReceiveAirTunesMetadata", "onReceiveAirTunesCoverArt",
   "onStartMirroring", "onStopMirroring", "onStopAirPlayVideo",
   "onAirPlayStart", "onAirPlayStop"}

\* ... and those it does not.
UnsynchronizedEvents ==
  {"onDisplayPhoto", "onDisplayCached", "onCachePhoto", "onDisplayUrl",
   "onLoadEzScreenVideo"}

Events == SynchronizedEvents \cup UnsynchronizedEvents

Reply(ops, next) == [ops |-> ops, next |-> next]

Ignore == Reply(<< >>, Null)

\* Mutant: the decoder is asked for before its view is shown.
StartMirrorOpsViewLast ==
  << "stopMirrorDecoding", "createMirrorClock", "createDecoder", "showMirrorView" >>

\* doAirPlayMirror and doEZScreenMirror call these in order, and differ only
\* in the clock's port and latency.
StartMirrorOps ==
  << "showMirrorView", "stopMirrorDecoding", "createMirrorClock",
     "createDecoder" >>

IdleState(e) ==
  CASE e = "onEzScreenClientConnected" ->
         Reply(<< "displayImage", "informDelegateConnected" >>, "EzScreenConnected")
    [] e = "onLoadAirPlayVideo" ->
         Reply(<< "loadVideo", "informDelegateConnected" >>, "AirPlayPlayVideo")
    [] e = "onStartAirTunes" ->
         Reply(<< "displayImage", "informDelegateConnected" >>, "AirTunesConnected")
    [] e = "onReceiveAirTunesMetadata" ->
         Reply(<< "showMusicView", "informDelegateConnected" >>, "AirTunesPlayMusic")
    [] e = "onReceiveAirTunesCoverArt" ->
         Reply(<< "informDelegateConnected" >>, "AirTunesConnected")
    [] e = "onStartMirroring" ->
         Reply(Append(StartMirrorOps, "informDelegateConnected"), "AirPlayMirror")
    [] e = "onDisplayPhoto" ->
         Reply(<< "informDelegateConnected", "showPhotoView" >>, "AirPlayPhoto")
    [] e = "onDisplayCached" ->
         Reply(<< "showPhotoView", "informDelegateConnected" >>, "AirPlayPhoto")
    [] e = "onDisplayUrl" ->
         Reply(<< "informDelegateConnected", "displayUrl" >>, "EzScreenConnected")
    [] e = "onLoadEzScreenVideo" ->
         Reply(<< "informDelegateConnected", "loadEzScreenVideo" >>, "EzScreenConnected")
    [] e = "onAirPlayStart" -> Reply(<< "informDelegateConnected" >>, Null)
    [] OTHER -> Ignore

EzScreenConnectedState(e) ==
  CASE e = "onEzScreenClientDisconnected" ->
         Reply(<< "stopVideo", "displayImage", "informDelegateDisconnected" >>, "Idle")
    [] e = "onLoadAirPlayVideo" -> Reply(<< "loadVideo" >>, "AirPlayPlayVideo")
    [] e = "onStartAirTunes" -> Reply(<< >>, "AirTunesConnected")
    [] e = "onStartMirroring" ->
         Reply(<< "stopVideo" >> \o StartMirrorOps, "EzScreenConnected")
    [] e = "onStopMirroring" -> Reply(<< "stopMirror" >>, "EzScreenConnected")
    [] e = "onDisplayUrl" -> Reply(<< "displayUrl" >>, Null)
    [] e = "onLoadEzScreenVideo" -> Reply(<< "loadEzScreenVideo" >>, Null)
    [] OTHER -> Ignore

AirPlayMirrorState(e) ==
  CASE e = "onEzScreenClientConnected" ->
         Reply(<< "stopMirror", "displayImage" >>, "EzScreenConnected")
    [] e = "onLoadAirPlayVideo" ->
         Reply(<< "hideMirrorView", "loadVideo" >>, "AirPlayPlayVideoWhenMirror")
    [] e = "onReceiveAirTunesMetadata" ->
         Reply(<< "showMusicView" >>, "AirTunesPlayMusicWhenMirror")
    [] e = "onStopMirroring" ->
         Reply(<< "stopMirror", "informDelegateDisconnected" >>, "Idle")
    [] e \in {"onDisplayPhoto", "onDisplayCached"} ->
         Reply(<< "showPhotoView" >>, "AirPlayPhotoWhenMirror")
    [] e = "onCachePhoto" -> Reply(<< >>, "AirPlayPhotoWhenMirror")
    [] e = "onDisplayUrl" ->
         Reply(<< "stopMirror", "displayUrl" >>, "EzScreenConnected")
    [] e = "onLoadEzScreenVideo" ->
         Reply(<< "stopMirror", "loadEzScreenVideo" >>, "EzScreenConnected")
    [] OTHER -> Ignore

AirPlayPhotoState(e) ==
  CASE e = "onEzScreenClientConnected" ->
         Reply(<< "hidePhotoView", "displayImage" >>, "EzScreenConnected")
    [] e = "onLoadAirPlayVideo" ->
         Reply(<< "hidePhotoView", "loadVideo" >>, "AirPlayPlayVideo")
    [] e \in {"onStopAirPlayVideo", "onAirPlayStop"} ->
         Reply(<< "hidePhotoView", "informDelegateDisconnected" >>, "Idle")
    [] e \in {"onDisplayPhoto", "onDisplayCached"} ->
         Reply(<< "showPhotoView" >>, Null)
    [] e = "onDisplayUrl" ->
         Reply(<< "hidePhotoView", "displayUrl" >>, "EzScreenConnected")
    [] e = "onLoadEzScreenVideo" ->
         Reply(<< "hidePhotoView", "loadEzScreenVideo" >>, "EzScreenConnected")
    [] OTHER -> Ignore

AirPlayPhotoWhenMirrorState(e) ==
  CASE e = "onEzScreenClientConnected" ->
         Reply(<< "hidePhotoView", "stopMirror", "displayImage" >>, "EzScreenConnected")
    [] e = "onStopMirroring" -> Reply(<< "stopMirror" >>, "AirPlayPhoto")
    [] e = "onStopAirPlayVideo" ->
         Reply(<< "hidePhotoView", "showMirrorView" >>, "AirPlayMirror")
    [] e \in {"onDisplayPhoto", "onDisplayCached"} ->
         Reply(<< "showPhotoView" >>, Null)
    [] e = "onDisplayUrl" ->
         Reply(<< "hidePhotoView", "stopMirror", "displayUrl" >>, "EzScreenConnected")
    [] e = "onLoadEzScreenVideo" ->
         Reply(<< "hidePhotoView", "stopMirror", "loadEzScreenVideo" >>,
               "EzScreenConnected")
    [] OTHER -> Ignore

AirPlayPlayVideoState(e) ==
  CASE e = "onEzScreenClientConnected" ->
         Reply(<< "stopVideo", "displayImage" >>, "EzScreenConnected")
    [] e = "onLoadAirPlayVideo" -> Reply(<< "loadVideo" >>, Null)
    [] e = "onStartAirTunes" ->
         Reply(<< >>, "AirPlayPlayVideoWhenAirTunesConnected")
    [] e = "onStartMirroring" ->
         Reply(<< "stopVideo" >> \o StartMirrorOps, "AirPlayMirror")
    [] e \in {"onStopAirPlayVideo", "onAirPlayStop"} ->
         Reply(<< "stopVideo", "informDelegateDisconnected" >>, "Idle")
    [] e \in {"onDisplayPhoto", "onDisplayCached"} ->
         Reply(<< "showPhotoView" >>, "AirPlayPhoto")
    [] e = "onDisplayUrl" ->
         Reply(<< "stopVideo", "displayUrl" >>, "EzScreenConnected")
    [] e = "onLoadEzScreenVideo" ->
         Reply(<< "stopVideo", "loadEzScreenVideo" >>, "EzScreenConnected")
    [] OTHER -> Ignore

AirPlayPlayVideoWhenMirrorState(e) ==
  CASE e = "onEzScreenClientConnected" ->
         Reply(<< "stopVideo", "displayImage" >>, "EzScreenConnected")
    [] e = "onLoadAirPlayVideo" -> Reply(<< "loadVideo" >>, Null)
    [] e = "onStartMirroring" ->
         Reply(<< "stopVideo" >> \o StartMirrorOps, "AirPlayMirror")
    [] e = "onStopMirroring" -> Reply(<< >>, "AirPlayPlayVideo")
    [] e \in {"onStopAirPlayVideo", "onAirPlayStop"} ->
         Reply(<< "stopVideo", "showMirrorView" >>, "AirPlayMirror")
    [] e = "onDisplayUrl" ->
         Reply(<< "stopVideo", "displayUrl" >>, "EzScreenConnected")
    [] e = "onLoadEzScreenVideo" ->
         Reply(<< "stopVideo", "loadEzScreenVideo" >>, "EzScreenConnected")
    [] OTHER -> Ignore

AirPlayPlayVideoWhenAirTunesConnectedState(e) ==
  CASE e = "onEzScreenClientConnected" ->
         Reply(<< "stopVideo", "displayImage" >>, "EzScreenConnected")
    [] e = "onLoadAirPlayVideo" -> Reply(<< "loadVideo" >>, Null)
    [] e = "onStopAirTunes" -> Reply(<< >>, "AirPlayPlayVideo")
    [] e = "onStartMirroring" ->
         Reply(<< "stopVideo" >> \o StartMirrorOps, "AirPlayMirror")
    [] e = "onStopAirPlayVideo" -> Reply(<< "stopVideo" >>, "AirTunesConnected")
    [] e = "onDisplayUrl" ->
         Reply(<< "stopVideo", "displayUrl" >>, "EzScreenConnected")
    [] e = "onLoadEzScreenVideo" ->
         Reply(<< "stopVideo", "loadEzScreenVideo" >>, "EzScreenConnected")
    [] OTHER -> Ignore

AirTunesConnectedState(e) ==
  CASE e = "onEzScreenClientConnected" ->
         Reply(<< "displayImage" >>, "EzScreenConnected")
    [] e = "onLoadAirPlayVideo" ->
         Reply(<< "loadVideo" >>, "AirPlayPlayVideoWhenAirTunesConnected")
    [] e = "onStopAirTunes" -> Reply(<< "informDelegateDisconnected" >>, "Idle")
    [] e = "onReceiveAirTunesMetadata" ->
         Reply(<< "showMusicView" >>, "AirTunesPlayMusic")
    [] e = "onStartMirroring" -> Reply(StartMirrorOps, "AirPlayMirror")
    [] e = "onDisplayUrl" -> Reply(<< "displayUrl" >>, "EzScreenConnected")
    [] e = "onLoadEzScreenVideo" ->
         Reply(<< "loadEzScreenVideo" >>, "EzScreenConnected")
    [] OTHER -> Ignore

\* stopMusic is hideMusicView (EZScreenHelper, "TODO force to disconnect").
AirTunesPlayMusicState(e) ==
  CASE e = "onEzScreenClientConnected" ->
         Reply(<< "hideMusicView", "displayImage" >>, "EzScreenConnected")
    [] e = "onLoadAirPlayVideo" ->
         Reply(<< "hideMusicView", "loadVideo" >>,
               "AirPlayPlayVideoWhenAirTunesConnected")
    [] e = "onStopAirTunes" ->
         Reply(<< "hideMusicView", "informDelegateDisconnected" >>, "Idle")
    [] e = "onStartMirroring" ->
         Reply(<< "hideMusicView" >> \o StartMirrorOps, "AirPlayMirror")
    [] e = "onDisplayUrl" ->
         Reply(<< "hideMusicView", "displayUrl" >>, "EzScreenConnected")
    [] e = "onLoadEzScreenVideo" ->
         Reply(<< "hideMusicView", "loadEzScreenVideo" >>, "EzScreenConnected")
    [] OTHER -> Ignore

AirTunesPlayMusicWhenMirrorState(e) ==
  CASE e = "onEzScreenClientConnected" ->
         Reply(<< "hideMusicView", "displayImage" >>, "EzScreenConnected")
    [] e = "onLoadAirPlayVideo" ->
         Reply(<< "loadVideo" >>, "AirPlayPlayVideoWhenMirror")
    [] e = "onStartMirroring" ->
         Reply(<< "hideMusicView" >> \o StartMirrorOps, "AirPlayMirror")
    [] e = "onStopMirroring" -> Reply(<< >>, "AirTunesPlayMusic")
    [] e = "onDisplayUrl" ->
         Reply(<< "hideMusicView", "displayUrl" >>, "EzScreenConnected")
    [] e = "onLoadEzScreenVideo" ->
         Reply(<< "hideMusicView", "loadEzScreenVideo" >>, "EzScreenConnected")
    [] OTHER -> Ignore

\* The dynamic dispatch of currentState.onX(stateContext).
Reaction(s, e) ==
  CASE s = "Idle" -> IdleState(e)
    [] s = "EzScreenConnected" -> EzScreenConnectedState(e)
    [] s = "AirPlayMirror" -> AirPlayMirrorState(e)
    [] s = "AirPlayPhoto" -> AirPlayPhotoState(e)
    [] s = "AirPlayPhotoWhenMirror" -> AirPlayPhotoWhenMirrorState(e)
    [] s = "AirPlayPlayVideo" -> AirPlayPlayVideoState(e)
    [] s = "AirPlayPlayVideoWhenMirror" -> AirPlayPlayVideoWhenMirrorState(e)
    [] s = "AirPlayPlayVideoWhenAirTunesConnected" ->
         AirPlayPlayVideoWhenAirTunesConnectedState(e)
    [] s = "AirTunesConnected" -> AirTunesConnectedState(e)
    [] s = "AirTunesPlayMusic" -> AirTunesPlayMusicState(e)
    [] s = "AirTunesPlayMusicWhenMirror" -> AirTunesPlayMusicWhenMirrorState(e)
=============================================================================
