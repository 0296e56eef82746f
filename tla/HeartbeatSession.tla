-------------------------- MODULE HeartbeatSession --------------------------
(***************************************************************************)
(* How an EZCast receiver (EzScreenServer) notices that a sender           *)
(* (AndroidRxClient) is gone, and a sender that the receiver is.           *)
(*                                                                         *)
(* A client's looper thread sends the notifications connect, heartbeat and *)
(* disconnect and the requests display and play, one at a time and each a  *)
(* synchronous HTTP request.  The AsyncServer thread of the receiver       *)
(* handles them one at a time, in two operations each; the main looper     *)
(* runs resetToStandby when it was not removed in time.  A display or play *)
(* request takes up an idle receiver as a connect does, but starts no      *)
(* timer.  Time passes in ticks.  Any number of clients talk to the same   *)
(* receiver, which does not tell them apart.                               *)
(***************************************************************************)
EXTENDS Integers, Sequences, FiniteSets

CONSTANTS
  Clients,
  Timeout,    \* HEARTBEAT_TIMEOUT, 13 s
  Period,     \* HEARTBEAT_PERIOD, 1 s
  MaxTimers,  \* no "connect" is read while this many timers are pending
  MaxLate,    \* this many interrupted requests may be on their way
  None

ASSUME TimesAssumption ==
  /\ Timeout \in Nat \ {0} /\ Period \in 0..Timeout
  /\ MaxTimers \in Nat /\ MaxLate \in Nat
  /\ None \notin Clients

\* What a client sends; "display" is the request to display or to play a URL.
Requests == {"connect", "heartbeat", "disconnect", "display"}
NoCall == [from |-> None, method |-> "none", step |-> 0]
Never == -1

VARIABLES
  api,        \* where each client's user is in connect and disconnect
  posted,     \* connects and disconnects posted to networkThread
  sending,    \* the request jsonRpcSession.send is busy with
  failed,     \* whether a heartbeat failed and connection managers were told
  net,        \* the requests on their way
  rpc,        \* the request the AsyncServer thread handles
  timers,     \* ticks until each posted resetToStandby, in posting order
  main,       \* whether the main looper runs one
  connected,  \* whether the receiver is EzScreenConnected, not Idle
  walkIn,     \* whether a display found it idle with no timer pending, and none
              \* was started since
  serving,    \* whether the server was not stopped
  since,      \* ticks since each client was last heard from, up to Timeout
  quiet       \* ticks since the last connect or heartbeat of any, up to Timeout

client == << api, posted, sending, failed >>
server == << rpc, timers, main, connected, walkIn, serving >>
vars == << client, net, server, since, quiet >>

Init ==
  /\ api = [c \in Clients |-> "disconnected"]
  /\ posted = [c \in Clients |-> << >>]
  /\ sending = [c \in Clients |-> "none"]
  /\ failed = [c \in Clients |-> FALSE]
  /\ net = {}
  /\ rpc = NoCall
  /\ timers = << >>
  /\ main = "idle"
  /\ connected = FALSE
  /\ walkIn = FALSE
  /\ serving = TRUE
  /\ since = [c \in Clients |-> Never]
  /\ quiet = Timeout

-----------------------------------------------------------------------------
(* connect and disconnect of AndroidRxClient, by the API user's thread.    *)

\* networkThread exists from connect until stopLooper.
Running(c) == api[c] # "disconnected"

\* The new looper schedules the heartbeat and notifies the caller: a caller that
\* waits posts "connect", one that does not yet will wait for ever.
Connect(c) ==
  /\ api[c] = "disconnected"
  /\ \/ /\ api' = [api EXCEPT ![c] = "connected"]
        /\ posted' = [posted EXCEPT ![c] = << "connect" >>]
     \/ api' = [api EXCEPT ![c] = "waiting"] /\ UNCHANGED posted
  /\ UNCHANGED << sending, failed, net, server, since, quiet >>

Disconnect(c) ==
  /\ api[c] = "connected"
  /\ api' = [api EXCEPT ![c] = "disconnecting"]
  /\ posted' = [posted EXCEPT ![c] = Append(@, "disconnect")]
  /\ UNCHANGED << sending, failed, net, server, since, quiet >>

\* An interrupted request reaches the receiver, perhaps late, or does not.
Interrupt(c) ==
  \/ net' = net \ {<< c, sending[c] >>}
  \/ Cardinality(net) <= MaxLate /\ UNCHANGED net

Silence(c) ==
  /\ api' = [api EXCEPT ![c] = "disconnected"]
  /\ posted' = [posted EXCEPT ![c] = << >>]
  /\ sending' = [sending EXCEPT ![c] = "none"]
  /\ failed' = [failed EXCEPT ![c] = FALSE]
  /\ since' = [since EXCEPT ![c] = Never]
  /\ Interrupt(c)
  /\ UNCHANGED << server, quiet >>

\* "disconnect" was sent or 3 s have passed: the looper quits.
StopLooper(c) == api[c] = "disconnecting" /\ Silence(c)

\* The client's process dies.
Crash(c) == Running(c) /\ Silence(c)

-----------------------------------------------------------------------------
(* networkThread: one synchronous request after the other.                 *)

Send(c, method) ==
  /\ Running(c) /\ sending[c] = "none"
  /\ sending' = [sending EXCEPT ![c] = method]
  /\ net' = net \cup {<< c, method >>}
  /\ UNCHANGED << api, failed, server, since, quiet >>

SendPosted(c) ==
  /\ posted[c] # << >>
  /\ Send(c, Head(posted[c]))
  /\ posted' = [posted EXCEPT ![c] = Tail(@)]

\* Any thread may post a display at any time: one is next in the queue or not.
SendDisplay(c) == Send(c, "display") /\ UNCHANGED posted

SendHeartbeat(c) ==
  /\ ~failed[c]
  /\ since[c] = Never \/ since[c] >= Period
  /\ Send(c, "heartbeat")
  /\ UNCHANGED posted

\* Mutant: a failed heartbeat is scheduled again and nobody is told.
SendFailsQuietly(c) ==
  /\ sending[c] # "none"
  /\ Interrupt(c)
  /\ sending' = [sending EXCEPT ![c] = "none"]
  /\ UNCHANGED << api, posted, failed, server, since, quiet >>

\* JSONRPC2SessionException.  Only the heartbeat tells the connection managers,
\* and is not scheduled again.
SendFails(c) ==
  /\ sending[c] # "none"
  /\ Interrupt(c)
  /\ sending' = [sending EXCEPT ![c] = "none"]
  /\ IF sending[c] = "heartbeat"
     THEN /\ failed' = [failed EXCEPT ![c] = TRUE]
          /\ since' = [since EXCEPT ![c] = Never]
     ELSE UNCHANGED << failed, since >>
  /\ UNCHANGED << api, posted, server, quiet >>

-----------------------------------------------------------------------------
(* The receiver.                                                           *)


\* Mutant: a heartbeat removes the timer after it renewed it.
SwappedOperations ==
  [connect    |-> << "onConnected", "postDelayed" >>,
   heartbeat  |-> << "postDelayed", "removeCallbacks" >>,
   disconnect |-> << "onDisconnected", "removeCallbacks" >>,
   display    |-> << "onDisplayUrl", "none" >>]

\* Mutant: a heartbeat does not remove the timer it renews.
HoardingOperations ==
  [connect    |-> << "onConnected", "postDelayed" >>,
   heartbeat  |-> << "none", "postDelayed" >>,
   disconnect |-> << "onDisconnected", "removeCallbacks" >>,
   display    |-> << "onDisplayUrl", "none" >>]

\* onDisplayUrl has no monitor: it connects if the state it read was idle.  Only a
\* reset can come in between, and means nothing to an idle receiver, so that all
\* of it falls on the instant of the store, or of a read that finds a connection.
Operations ==
  [connect    |-> << "onConnected", "postDelayed" >>,
   heartbeat  |-> << "removeCallbacks", "postDelayed" >>,
   disconnect |-> << "onDisconnected", "removeCallbacks" >>,
   display    |-> << "onDisplayUrl", "none" >>]

Receive(request) ==
  /\ serving /\ rpc = NoCall /\ request \in net
  /\ request[2] = "connect" => Len(timers) < MaxTimers
  /\ net' = net \ {request}
  /\ rpc' = [from |-> request[1], method |-> request[2], step |-> 1]
  /\ UNCHANGED << client, timers, main, connected, walkIn, serving, since, quiet >>

Occupy(op) ==
  /\ connected' = CASE op \in {"onConnected", "onDisplayUrl"} -> TRUE
                    [] op = "onDisconnected" -> FALSE
                    [] OTHER -> connected
  /\ walkIn' = CASE op = "onDisplayUrl" -> walkIn \/ (~connected /\ timers = << >>)
                 [] op \in {"postDelayed", "onDisconnected"} -> FALSE
                 [] OTHER -> walkIn

\* Mutant: a timer that is pending is prolonged by the delay.
PerformProlonging(op) ==
  /\ Occupy(op)
  /\ timers' = CASE op = "postDelayed" ->
                      Append(timers, Timeout + IF timers = << >> THEN 0 ELSE Head(timers))
                 [] op = "removeCallbacks" -> << >>
                 [] OTHER -> timers

Perform(op) ==
  /\ Occupy(op)
  /\ timers' = CASE op = "postDelayed" -> Append(timers, Timeout)
                 [] op = "removeCallbacks" -> << >>
                 [] OTHER -> timers

Awaited == sending[rpc.from] = rpc.method

Process ==
  /\ rpc # NoCall /\ rpc.step = 1
  /\ Perform(Operations[rpc.method][1])
  /\ rpc' = [rpc EXCEPT !.step = 2]
  /\ UNCHANGED << client, net, main, serving, since, quiet >>

\* The second operation, and the response, which may get lost.  With it, send
\* returns; a heartbeat is then scheduled again.
Respond ==
  LET c == rpc.from IN
  /\ rpc # NoCall /\ rpc.step = 2
  /\ Perform(Operations[rpc.method][2])
  /\ rpc' = NoCall
  /\ \/ Awaited /\ sending' = [sending EXCEPT ![c] = "none"]
     \/ UNCHANGED sending
  /\ since' = IF Awaited /\ rpc.method = "heartbeat"
              THEN [since EXCEPT ![c] = 0] ELSE since
  /\ quiet' = IF rpc.method \in {"connect", "heartbeat"} THEN 0 ELSE quiet
  /\ UNCHANGED << api, posted, failed, net, main, serving >>

\* The main looper takes a due message from its queue, and then runs it.
TimerDue ==
  /\ main = "idle" /\ timers # << >> /\ Head(timers) = 0
  /\ main' = "resetToStandby"
  /\ timers' = Tail(timers)
  /\ UNCHANGED << client, net, rpc, connected, walkIn, serving, since, quiet >>

\* onEzScreenClientDisconnected, once the main looper has the monitor.
ResetToStandby ==
  /\ main = "resetToStandby"
  /\ main' = "idle"
  /\ connected' = FALSE /\ walkIn' = FALSE
  /\ UNCHANGED << client, net, rpc, timers, serving, since, quiet >>

\* EzScreenServer.stop.  A handler that has started runs on.
StopServer ==
  /\ serving
  /\ serving' = FALSE
  /\ timers' = << >>
  /\ UNCHANGED << client, net, rpc, main, connected, walkIn, since, quiet >>

-----------------------------------------------------------------------------
Tick ==
  /\ timers' = [i \in DOMAIN timers |-> IF timers[i] > 0 THEN timers[i] - 1 ELSE 0]
  /\ since' = [c \in Clients |->
       IF since[c] \in 0..Timeout-1 THEN since[c] + 1 ELSE since[c]]
  /\ quiet' = IF quiet < Timeout THEN quiet + 1 ELSE quiet
  /\ UNCHANGED << client, net, rpc, main, connected, walkIn, serving >>

Next ==
  \/ \E c \in Clients :
       \/ Connect(c) \/ Disconnect(c) \/ StopLooper(c) \/ Crash(c)
       \/ SendPosted(c) \/ SendDisplay(c) \/ SendHeartbeat(c) \/ SendFails(c)
  \/ \E request \in Clients \X Requests : Receive(request)
  \/ Process \/ Respond \/ TimerDue \/ ResetToStandby \/ StopServer
  \/ Tick

Spec == Init /\ [][Next]_vars

\* The request of c is not being handled, nor on its way to a running server.
Unheard(c) ==
  sending[c] # "none" /\ rpc.from # c /\ (serving => << c, sending[c] >> \notin net)

\* Threads run, time passes, the receiver reads what reaches it, and TCP reports
\* a request that will not be answered.  A looper takes its messages in the order
\* in which they are due, so that no request posted later overtakes a heartbeat.
\* Nobody has to connect, display, disconnect, crash or stop, no other request has
\* to fail, and the main looper need not get the monitor that resetToStandby waits
\* for: the mirror connection may keep it (see MonitorIsFreed of Receiver).
Fairness ==
  /\ \A c \in Clients :
       /\ WF_vars(StopLooper(c)) /\ WF_vars(SendPosted(c)) /\ SF_vars(SendHeartbeat(c))
       /\ WF_vars(Unheard(c) /\ SendFails(c))
       /\ SF_vars(\E m \in Requests : Receive(<< c, m >>))
  /\ WF_vars(Process) /\ WF_vars(Respond)
  /\ WF_vars(TimerDue) /\ WF_vars(Tick)

FairSpec == Spec /\ Fairness

\* ... where nothing keeps the monitor.
FreeMonitorSpec == FairSpec /\ WF_vars(ResetToStandby)
-----------------------------------------------------------------------------
TypeOK ==
  /\ api \in [Clients -> {"disconnected", "waiting", "connected", "disconnecting"}]
  /\ posted \in [Clients -> Seq(Requests)]
  /\ sending \in [Clients -> Requests \cup {"none"}]
  /\ failed \in [Clients -> BOOLEAN]
  /\ net \subseteq Clients \X Requests
  /\ rpc \in [from : Clients, method : Requests, step : {1, 2}] \cup {NoCall}
  /\ timers \in Seq(0..Timeout)
  /\ main \in {"idle", "resetToStandby"}
  /\ connected \in BOOLEAN /\ walkIn \in BOOLEAN /\ serving \in BOOLEAN
  /\ since \in [Clients -> {Never} \cup 0..Timeout]
  /\ quiet \in 0..Timeout

\* A client whose heartbeats get through is not taken for gone: no resetToStandby
\* becomes due less than HEARTBEAT_TIMEOUT after one, whichever timers connects
\* and disconnects of others, late requests and lost responses left behind.
AliveIsKept ==
  [][TimerDue => \A c \in Clients : since[c] \in {Never, Timeout}]_vars

\* A connected receiver has a way out: between two requests there is a timer that
\* will reset it, although any client's requests remove the timers.  The one way to
\* be connected without a timer is a walk-in: a display or play request that found
\* the receiver idle with no timer pending (IdleState.onDisplayUrl).
ConnectedIsTimed ==
  connected /\ serving /\ rpc = NoCall /\ main = "idle" => timers # << >> \/ walkIn

\* A receiver that nobody talks to resets itself in time: HEARTBEAT_TIMEOUT after
\* the last connect or heartbeat of any client it is disconnected, or a walk-in, or
\* has its reset at the head of the queue, whichever timers requests removed or
\* left before it.
SilenceIsNoticed ==
  connected /\ ~walkIn /\ serving /\ rpc = NoCall /\ main = "idle" /\ quiet = Timeout
    => timers # << >> /\ Head(timers) = 0


\* When the receiver is stopped, every client is told so or disconnects, also
\* the one that lost its connect or waits in it.
LossIsReported ==
  \A c \in Clients : ~serving /\ Running(c) ~> failed[c] \/ ~Running(c)

\* "Called when connection between API object and the device has failed"
\* (ConnectionManager:10): a client the receiver has dropped is told, unless it
\* is accepted again or disconnects itself.
DropIsReported ==
  \A c \in Clients :
    api[c] = "connected" /\ connected /\ main = "resetToStandby"
      ~> failed[c] \/ (connected /\ main = "idle") \/ api[c] # "connected"
=============================================================================
