----------------------------- MODULE MCReceiver -----------------------------
(***************************************************************************)
(* Instances of Receiver: which thread delivers which events.  All JSON-   *)
(* RPC requests and mirror connections are served by the one thread of the *)
(* shared AsyncServer (see JsonRpcOverHttpServer:142), the heartbeat timer *)
(* by the main looper.                                                     *)
(***************************************************************************)
EXTENDS Receiver

CONSTANT asyncServer

\* One sender at a time, every protocol: one thread delivers every event but
\* onAirPlayStart, which reports a connection and stays idle.
SerialEmits == [t \in Threads |-> (Events \ {"onAirPlayStart"}) \cup Commands]

\* EZCast senders only, as at this commit, where the AirPlay server is not
\* started: AirTunes has no thread.
EzScreenEmits ==
  [t \in Threads |->
    IF t = Main THEN {"onEzScreenClientDisconnected"}
    ELSE EzScreenEvents \cup MirrorEvents \cup Commands]
=============================================================================
