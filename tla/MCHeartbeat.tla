---------------------------- MODULE MCHeartbeat ----------------------------
(***************************************************************************)
(* An instance of HeartbeatSession with one client, which comes back under *)
(* the same name after every disconnect and crash.                         *)
(***************************************************************************)
EXTENDS HeartbeatSession

CONSTANT client1

OneClient == {client1}
=============================================================================
