---------------------------- MODULE PigeonSession ----------------------------
(***************************************************************************)
(* Permission to display, between a Pigeon client (ClientV2) and an EZCast *)
(* device.  The receiving thread handles the device's answers itself, but  *)
(* posts its notifications to a handler, so that a later answer is handled *)
(* before an earlier notification.  Two of the notifications make the      *)
(* handler ask the device again and wait for the answer, as the app does   *)
(* in threads of its own: any answer ends every wait.                      *)
(*                                                                         *)
(* The device is external: it answers a request or not, withdraws its      *)
(* permission by a notification, and never by an answer.                   *)
(***************************************************************************)
EXTENDS Integers, Sequences

CONSTANTS
  Apps,        \* threads of the app that ask for permission
  Handler,     \* the thread of the handler
  Places,      \* where on the screen, and on how many regions
  NoPlace,     \* (0, 0)
  MaxPending,  \* bounds the messages to the client that are not handled
  MaxAsked     \* bounds the requests the device has not seen; it misses more

ASSUME SessionAssumption ==
  /\ Handler \notin Apps
  /\ NoPlace \notin Places
  /\ MaxPending \in Nat /\ MaxAsked \in Nat

VARIABLES
  state, request_result,
  place,     \* requestedNumberOfWindow and requestedPosition
  at,        \* where a thread is in requestStreaming
  asked,     \* the requests the device has not seen
  wire,      \* what the device has sent, on the socket
  posted,    \* notifications on the handler
  allowed,   \* the device: whether the client may display
  given      \* the device: the place of its last permission

client == << state, request_result, place >>
device == << allowed, given >>
vars == << client, at, asked, wire, posted, device >>

Threads == Apps \cup {Handler}
Results == {"allow", "deny"}    \* every other result is a kind of "deny"

Answers == [tag : {"answer"}, place : Places, result : Results]
Notifications == [tag : {"start", "change"}, place : Places]
                 \cup [tag : {"stop", "disconnect"}, place : {NoPlace}]

Init ==
  /\ state = "INITIAL" /\ request_result = "invalid" /\ place = NoPlace
  /\ at = [t \in Threads |-> "idle"]
  /\ asked = 0
  /\ wire = << >> /\ posted = << >>
  /\ allowed = FALSE /\ given = NoPlace

-----------------------------------------------------------------------------
(* The device.                                                             *)

Pends == Len(wire) + Len(posted) < MaxPending

DeviceAnswers(m) ==
  /\ asked > 0 /\ Pends
  /\ asked' = asked - 1
  /\ wire' = Append(wire, m)
  /\ IF m.result = "allow" THEN allowed' = TRUE /\ given' = m.place ELSE UNCHANGED device
  /\ UNCHANGED << client, at, posted >>

DeviceMissesRequest ==
  /\ asked > 0
  /\ asked' = asked - 1
  /\ UNCHANGED << client, at, wire, posted, device >>

DeviceNotifies(n) ==
  /\ Pends
  /\ wire' = Append(wire, n)
  /\ allowed' = (allowed /\ n.tag = "start")
  /\ UNCHANGED << client, at, asked, posted, given >>

-----------------------------------------------------------------------------
(* requestStreaming(numberOfRegions, position), in a thread t.             *)

\* A thread is started that sends the request.
Ask(t) ==
  /\ at' = [at EXCEPT ![t] = "asking"]
  /\ asked' = IF asked < MaxAsked THEN asked + 1 ELSE asked

BeginsToWait(t) ==
  /\ at[t] = "asking"
  /\ at' = [at EXCEPT ![t] = "waiting"]
  /\ UNCHANGED << client, asked, wire, posted, device >>

\* Mutant: wait() instead of wait(5000).
WaitsForEver(t) == FALSE /\ UNCHANGED vars

TimesOut(t) ==
  /\ at[t] = "waiting"
  /\ at' = [at EXCEPT ![t] = "woken"]
  /\ UNCHANGED << client, asked, wire, posted, device >>

\* It reads request_result, whosever it is; the handler then makes its callback.
Returns(t) ==
  /\ at[t] = "woken"
  /\ at' = [at EXCEPT ![t] = "idle"]
  /\ UNCHANGED << client, asked, wire, posted, device >>

requestToDisplay(t) ==
  /\ t \in Apps /\ at[t] = "idle"
  /\ Ask(t)
  /\ UNCHANGED << client, wire, posted, device >>

-----------------------------------------------------------------------------
(* The receiving thread.                                                   *)

Receives(m) == wire # << >> /\ m = Head(wire) /\ wire' = Tail(wire)

handleRequestResponse(m) ==
  /\ m.tag = "answer" /\ Receives(m)
  /\ place' = m.place /\ request_result' = m.result
  /\ state' = IF m.result = "allow" THEN "STREAMING" ELSE state
  /\ at' = [t \in Threads |-> IF at[t] = "waiting" THEN "woken" ELSE at[t]]
  /\ UNCHANGED << asked, posted, device >>

handleNotification(m) ==
  /\ m.tag # "answer" /\ Receives(m)
  /\ posted' = Append(posted, m)
  /\ UNCHANGED << client, at, asked, device >>

-----------------------------------------------------------------------------
(* The handler.                                                            *)

\* Mutant: a result of before the notification stays.
PlaceOnly(p) == place' = p /\ UNCHANGED << state, request_result >>

\* Mutant: the result is written into the state.
ResultIntoState(p) == state' = "invalid" /\ place' = p /\ UNCHANGED request_result

startStreaming(p) ==
  /\ request_result' = "invalid" /\ place' = p
  /\ UNCHANGED state

\* Mutant: the client goes on until it is asked for the new position.
ResultAndPlace(p) ==
  /\ request_result' = "invalid" /\ place' = p
  /\ UNCHANGED state

changePosition(p) ==
  state' = "CONNECTED" /\ request_result' = "invalid" /\ place' = p

stopStreaming ==
  state' = "CONNECTED" /\ request_result' = "invalid" /\ place' = NoPlace

disconnect ==
  state' = "DISCONNECTED" /\ request_result' = "invalid" /\ place' = NoPlace

Runs(n) ==
  /\ at[Handler] = "idle" /\ posted # << >> /\ n = Head(posted)
  /\ posted' = Tail(posted)
  /\ \/ n.tag = "start" /\ startStreaming(n.place) /\ Ask(Handler)
     \/ n.tag = "change" /\ changePosition(n.place) /\ Ask(Handler)
     \/ n.tag = "stop" /\ stopStreaming /\ UNCHANGED << at, asked >>
     \/ n.tag = "disconnect" /\ disconnect /\ UNCHANGED << at, asked >>
  /\ UNCHANGED << wire, device >>

-----------------------------------------------------------------------------
requestStreaming(t) == BeginsToWait(t) \/ TimesOut(t) \/ Returns(t)

Receiver ==
  \/ \E m \in Answers : handleRequestResponse(m)
  \/ \E m \in Notifications : handleNotification(m)

HandlerRuns == \E n \in Notifications : Runs(n)

Device ==
  \/ \E m \in Answers : DeviceAnswers(m)
  \/ \E n \in Notifications : DeviceNotifies(n)
  \/ DeviceMissesRequest

Next ==
  \/ Device \/ Receiver \/ HandlerRuns
  \/ \E t \in Apps : requestToDisplay(t)
  \/ \E t \in Threads : requestStreaming(t)

Spec == Init /\ [][Next]_vars

\* The threads of the client go on.  The device need not do anything.
Fairness ==
  /\ WF_vars(Receiver) /\ WF_vars(HandlerRuns)
  /\ \A t \in Threads : WF_vars(requestStreaming(t))

FairSpec == Spec /\ Fairness
-----------------------------------------------------------------------------
TypeOK ==
  /\ state \in {"INITIAL", "CONNECTED", "STREAMING", "DISCONNECTED"}
  /\ request_result \in Results \cup {"invalid"}
  /\ place \in Places \cup {NoPlace}
  /\ at \in [Threads -> {"idle", "asking", "waiting", "woken"}]
  /\ asked \in 0..MaxAsked
  /\ wire \in Seq(Answers \cup Notifications)
  /\ posted \in Seq(Notifications)
  /\ allowed \in BOOLEAN
  /\ given \in Places \cup {NoPlace}

Answered == \A i \in DOMAIN wire : wire[i].tag # "answer"

\* What a caller of requestStreaming reads goes together: after an "allow" the
\* client displays, at the place the device has given it last, whatever
\* notifications have been handled since the answer came.
GrantAgrees ==
  request_result = "allow" =>
    /\ state = "STREAMING"
    /\ Answered => place = given

\* When everything the device has sent is handled, the client does not display
\* against its will: no earlier answer or request undoes what a notification
\* has withdrawn.
WithdrawnIsHeeded ==
  ~allowed /\ wire = << >> /\ posted = << >> => state # "STREAMING"

\* The client heeds a withdrawal in the end, though its handler waits for
\* answers that may never come.
WithdrawalIsHeeded == ~allowed ~> allowed \/ state # "STREAMING"

\* requestToDisplay returns, answered or not.
RequestReturns == \A t \in Apps : at[t] # "idle" ~> at[t] = "idle"
=============================================================================
