--------------------------- MODULE HeartbeatProofs ---------------------------
(***************************************************************************)
(* Proofs about HeartbeatSession, for any number of clients, any times and *)
(* any bounds.                                                             *)
(***************************************************************************)
EXTENDS HeartbeatSession, SequenceTheorems, TLAPS

\* The timer queue keeps its type under what handlers, looper and time do to it.
LEMMA TimersType ==
  ASSUME NEW ts \in Seq(0..Timeout)
  PROVE  /\ << >> \in Seq(0..Timeout)
         /\ Append(ts, Timeout) \in Seq(0..Timeout)
         /\ ts # << >> => Tail(ts) \in Seq(0..Timeout)
         /\ [i \in DOMAIN ts |-> IF ts[i] > 0 THEN ts[i] - 1 ELSE 0] \in Seq(0..Timeout)
<1>. Timeout \in Nat  BY TimesAssumption
<1>1. << >> \in Seq(0..Timeout)  OBVIOUS
<1>2. Append(ts, Timeout) \in Seq(0..Timeout)  OBVIOUS
<1>3. ts # << >> => Tail(ts) \in Seq(0..Timeout)  OBVIOUS
<1>4. [i \in DOMAIN ts |-> IF ts[i] > 0 THEN ts[i] - 1 ELSE 0] \in Seq(0..Timeout)
  <2>1. Len(ts) \in Nat /\ DOMAIN ts = 1..Len(ts)  OBVIOUS
  <2>2. \A i \in 1..Len(ts) : (IF ts[i] > 0 THEN ts[i] - 1 ELSE 0) \in 0..Timeout
    BY <2>1
  <2>. QED  BY <2>1, <2>2
<1>. QED  BY <1>1, <1>2, <1>3, <1>4

\* Every pending timer has a remaining delay of at most Timeout.
LEMMA TimerType ==
  ASSUME NEW ts \in Seq(0..Timeout), NEW i \in DOMAIN ts
  PROVE  ts[i] \in 0..Timeout
<1>1. i \in 1..Len(ts)  OBVIOUS
<1>. QED  BY <1>1, ElementOfSeq

\* What the operations of a handler are, and what one does.
LEMMA OperationsType ==
  ASSUME NEW m \in Requests
  PROVE  /\ Operations[m][1] = CASE m = "connect" -> "onConnected"
                                 [] m = "heartbeat" -> "removeCallbacks"
                                 [] m = "disconnect" -> "onDisconnected"
                                 [] m = "display" -> "onDisplayUrl"
         /\ Operations[m][2] = CASE m = "disconnect" -> "removeCallbacks"
                                 [] m = "display" -> "none"
                                 [] OTHER -> "postDelayed"
BY DEF Operations, Requests

LEMMA PerformType ==
  ASSUME TypeOK, NEW op, Perform(op)
  PROVE  connected' \in BOOLEAN /\ walkIn' \in BOOLEAN /\ timers' \in Seq(0..Timeout)
<1>1. timers \in Seq(0..Timeout)  BY DEF TypeOK
<1>2. timers' \in {Append(timers, Timeout), << >>, timers}  BY DEF Perform
<1>3. timers' \in Seq(0..Timeout)  BY <1>1, <1>2, TimersType
<1>4. connected' \in BOOLEAN /\ walkIn' \in BOOLEAN  BY DEF Perform, Occupy, TypeOK
<1>. QED  BY <1>3, <1>4

LEMMA InterruptType ==
  ASSUME TypeOK, NEW c \in Clients, Interrupt(c)
  PROVE  net' \subseteq Clients \X Requests
BY DEF TypeOK, Interrupt

\* Type correctness of clients, network and receiver.
LEMMA TypeStep ==
  ASSUME TypeOK, [Next]_vars
  PROVE  TypeOK'
<1>. USE DEF TypeOK
<1>a. ASSUME NEW c \in Clients, Connect(c)  PROVE TypeOK'
  <2>1. << "connect" >> \in Seq(Requests)  BY DEF Requests
  <2>. QED  BY <1>a, <2>1 DEF Connect, server
<1>b. ASSUME NEW c \in Clients, Disconnect(c)  PROVE TypeOK'
  <2>1. Append(posted[c], "disconnect") \in Seq(Requests)  BY DEF Requests
  <2>. QED  BY <1>b, <2>1 DEF Disconnect, server
<1>c. ASSUME NEW c \in Clients, Silence(c)  PROVE TypeOK'
  <2>1. << >> \in Seq(Requests)  OBVIOUS
  <2>. QED  BY <1>c, <2>1, InterruptType DEF Silence, server
<1>d. ASSUME NEW c \in Clients, SendPosted(c)  PROVE TypeOK'
  <2>1. /\ Head(posted[c]) \in Requests
        /\ Tail(posted[c]) \in Seq(Requests)
    BY <1>d DEF SendPosted
  <2>. QED  BY <1>d, <2>1 DEF SendPosted, Send, server
<1>e. ASSUME NEW c \in Clients, SendHeartbeat(c) \/ SendDisplay(c)  PROVE TypeOK'
  <2>1. /\ \E m \in Requests : Send(c, m)
        /\ UNCHANGED posted
    BY <1>e DEF SendHeartbeat, SendDisplay, Requests
  <2>. QED  BY <2>1 DEF Send, server
<1>f. ASSUME NEW c \in Clients, SendFails(c)  PROVE TypeOK'
  BY <1>f, InterruptType DEF SendFails, server
<1>g. ASSUME NEW r \in Clients \X Requests, Receive(r)  PROVE TypeOK'
  BY <1>g DEF Receive, client
<1>h. CASE Process
  <2>1. connected' \in BOOLEAN /\ walkIn' \in BOOLEAN /\ timers' \in Seq(0..Timeout)
    BY <1>h, PerformType DEF Process
  <2>2. rpc' \in [from : Clients, method : Requests, step : {1, 2}]
    BY <1>h DEF Process
  <2>. QED  BY <1>h, <2>1, <2>2 DEF Process, client
<1>i. CASE Respond
  <2>1. connected' \in BOOLEAN /\ walkIn' \in BOOLEAN /\ timers' \in Seq(0..Timeout)
    BY <1>i, PerformType DEF Respond
  <2>2. 0 \in 0..Timeout  BY TimesAssumption
  <2>3. rpc.from \in Clients  BY <1>i DEF Respond
  <2>4. sending' \in [Clients -> Requests \cup {"none"}]
    BY <1>i, <2>3 DEF Respond
  <2>5. since' \in [Clients -> {Never} \cup 0..Timeout]
    BY <1>i, <2>2, <2>3 DEF Respond
  <2>6. quiet' \in 0..Timeout
    BY <1>i, <2>2 DEF Respond
  <2>. QED  BY <1>i, <2>1, <2>4, <2>5, <2>6 DEF Respond
<1>j. CASE TimerDue
  BY <1>j, TimersType DEF TimerDue, client
<1>k. CASE ResetToStandby
  BY <1>k DEF ResetToStandby, client
<1>l. CASE StopServer
  BY <1>l, TimersType DEF StopServer, client
<1>m. CASE Tick
  <2>1. timers' \in Seq(0..Timeout)  BY <1>m, TimersType DEF Tick
  <2>2. Timeout \in Nat  BY TimesAssumption
  <2>3. since' \in [Clients -> {Never} \cup 0..Timeout]
    BY <1>m, <2>2 DEF Tick, Never
  <2>4. quiet' \in 0..Timeout
    BY <1>m, <2>2 DEF Tick
  <2>. QED  BY <1>m, <2>1, <2>3, <2>4 DEF Tick, client
<1>n. CASE UNCHANGED vars
  BY <1>n DEF vars, client, server
<1>. QED
  BY <1>a, <1>b, <1>c, <1>d, <1>e, <1>f, <1>g, <1>h, <1>i, <1>j, <1>k, <1>l,
     <1>m, <1>n DEF Next, StopLooper, Crash

\* Every variable keeps its type: no timer runs longer than HEARTBEAT_TIMEOUT
\* and the handler only serves notifications.
THEOREM TypeCorrect == Spec => []TypeOK
<1>1. Init => TypeOK
  <2>. SUFFICES ASSUME Init PROVE TypeOK  OBVIOUS
  <2>1. << >> \in Seq(Requests) /\ << >> \in Seq(0..Timeout)  OBVIOUS
  <2>2. Timeout \in 0..Timeout  BY TimesAssumption
  <2>. QED  BY <2>1, <2>2 DEF Init, TypeOK
<1>2. TypeOK /\ [Next]_vars => TypeOK'  BY TypeStep
<1>. QED  BY <1>1, <1>2, PTL DEF Spec

-----------------------------------------------------------------------------
(* A connected receiver is timed, once its handlers are through, or taken  *)
(* up by a walk-in: a connect reports the connection before it starts the  *)
(* timer, a disconnect reports its end before it removes the timers.       *)

Timed ==
  /\ connected /\ serving /\ main = "idle" =>
       \/ timers # << >> \/ walkIn
       \/ rpc.step = 2 /\ rpc.method \in {"connect", "heartbeat"}
  /\ rpc.step = 2 /\ rpc.method = "disconnect" => ~connected

LEMMA TimedStep ==
  ASSUME TypeOK, Timed, [Next]_vars
  PROVE  Timed'
<1>. USE DEF Timed
<1>a. CASE UNCHANGED << rpc, timers, main, connected, walkIn, serving >>
  BY <1>a
<1>b. ASSUME NEW r \in Clients \X Requests, Receive(r)  PROVE Timed'
  BY <1>b DEF Receive, NoCall
<1>c. CASE Process
  <2>1. rpc.method \in Requests /\ rpc'.method = rpc.method /\ rpc'.step = 2
    BY <1>c DEF Process, TypeOK
  <2>2. CASE rpc.method = "connect"
    BY <2>1, <2>2
  <2>3. CASE rpc.method = "heartbeat"
    BY <2>1, <2>3
  <2>4. CASE rpc.method = "disconnect"
    <3>1. Perform("onDisconnected")
      BY <1>c, <2>1, <2>4, OperationsType DEF Process
    <3>. QED  BY <3>1 DEF Perform, Occupy
  <2>5. CASE rpc.method = "display"
    <3>1. Perform("onDisplayUrl") /\ UNCHANGED << main, serving >> /\ rpc.step = 1
      BY <1>c, <2>1, <2>5, OperationsType DEF Process
    <3>2. /\ timers' = timers
          /\ walkIn' <=> walkIn \/ (~connected /\ timers = << >>)
      BY <3>1 DEF Perform, Occupy, TypeOK
    <3>. QED  BY <2>1, <2>5, <3>1, <3>2
  <2>. QED  BY <2>1, <2>2, <2>3, <2>4, <2>5 DEF Requests
<1>d. CASE Respond
  <2>1. rpc.method \in Requests /\ rpc.step = 2 /\ rpc' = NoCall
    BY <1>d DEF Respond, TypeOK
  <2>2. CASE rpc.method = "disconnect"
    <3>1. Perform("removeCallbacks")
      BY <1>d, <2>1, <2>2, OperationsType DEF Respond
    <3>. QED  BY <2>1, <2>2, <3>1 DEF Perform, Occupy, NoCall
  <2>3. CASE rpc.method = "display"
    <3>1. Perform("none") /\ UNCHANGED << main, serving >>
      BY <1>d, <2>1, <2>3, OperationsType DEF Respond
    <3>. QED  BY <2>1, <2>3, <3>1 DEF Perform, Occupy, NoCall
  <2>4. CASE rpc.method \in {"connect", "heartbeat"}
    <3>1. Perform("postDelayed")
      BY <1>d, <2>1, <2>4, OperationsType DEF Respond
    <3>2. timers' # << >>
      BY <3>1 DEF Perform, TypeOK
    <3>. QED  BY <2>1, <3>2 DEF NoCall
  <2>. QED  BY <2>1, <2>2, <2>3, <2>4 DEF Requests
<1>e. CASE TimerDue
  BY <1>e DEF TimerDue
<1>f. CASE ResetToStandby
  BY <1>f DEF ResetToStandby
<1>g. CASE StopServer
  BY <1>g DEF StopServer
<1>h. CASE Tick
  <2>1. timers # << >> => timers' # << >>
    BY <1>h DEF Tick, TypeOK
  <2>. QED  BY <1>h, <2>1 DEF Tick
<1>. QED
  BY <1>a, <1>b, <1>c, <1>d, <1>e, <1>f, <1>g, <1>h
  DEF Next, vars, server, StopLooper, Crash, Silence, Connect, Disconnect,
      SendPosted, SendDisplay, SendHeartbeat, Send, SendFails

\* However the requests of any number of clients, late ones included, interleave
\* with the timer, a connected receiver has a timer that will reset it, or was idle
\* when a display or play request walked in, with no timer started since.
THEOREM ConnectedIsTimedHolds == Spec => []ConnectedIsTimed
<1>1. Init => Timed  BY DEF Init, Timed, NoCall
<1>2. TypeOK /\ Timed /\ [Next]_vars => Timed'  BY TimedStep
<1>3. Timed => ConnectedIsTimed  BY DEF Timed, ConnectedIsTimed, NoCall
<1>. QED  BY <1>1, <1>2, <1>3, TypeCorrect, PTL DEF Spec

-----------------------------------------------------------------------------
(* No timer is older than the last heartbeat of any client: its handler    *)
(* removed them all before it posted its own.                              *)

Fresh ==
  /\ rpc.step = 2 /\ rpc.method = "heartbeat" => timers = << >>
  /\ \A c \in Clients : since[c] # Never =>
       \A i \in DOMAIN timers : timers[i] + since[c] >= Timeout

LEMMA FreshStep ==
  ASSUME TypeOK, Fresh, [Next]_vars
  PROVE  Fresh'
<1>. USE DEF Fresh
<1>t. Timeout \in Nat  BY TimesAssumption
<1>s. timers \in Seq(0..Timeout) /\ since \in [Clients -> {Never} \cup 0..Timeout]
  BY DEF TypeOK
<1>a. CASE UNCHANGED << rpc, timers, since >>
  BY <1>a
<1>b. ASSUME NEW c \in Clients, Silence(c)  PROVE Fresh'
  BY <1>b, <1>s DEF Silence, server
<1>c. ASSUME NEW c \in Clients, SendFails(c)  PROVE Fresh'
  BY <1>c, <1>s DEF SendFails, server
<1>d. ASSUME NEW r \in Clients \X Requests, Receive(r)  PROVE Fresh'
  BY <1>d DEF Receive, NoCall
<1>e. CASE Process
  <2>1. rpc.method \in Requests /\ rpc'.method = rpc.method /\ since' = since
    BY <1>e DEF Process, TypeOK
  <2>2. CASE rpc.method = "heartbeat"
    <3>1. Perform("removeCallbacks")
      BY <1>e, <2>1, <2>2, OperationsType DEF Process
    <3>2. timers' = << >>  BY <3>1 DEF Perform
    <3>. QED  BY <3>2
  <2>3. CASE rpc.method # "heartbeat"
    <3>1. Operations[rpc.method][1] \in {"onConnected", "onDisconnected", "onDisplayUrl"}
      BY <2>1, <2>3, OperationsType DEF Requests
    <3>2. timers' = timers  BY <1>e, <3>1 DEF Process, Perform
    <3>. QED  BY <2>1, <2>3, <3>2
  <2>. QED  BY <2>2, <2>3
<1>f. CASE Respond
  <2>1. rpc.method \in Requests /\ rpc.step = 2 /\ rpc' = NoCall
    BY <1>f DEF Respond, TypeOK
  <2>2. CASE rpc.method = "disconnect"
    <3>1. timers' = << >>
      BY <1>f, <2>1, <2>2, OperationsType DEF Respond, Perform
    <3>. QED  BY <2>1, <3>1 DEF NoCall
  <2>5. CASE rpc.method = "display"
    <3>1. timers' = timers /\ since' = since
      BY <1>f, <2>1, <2>5, OperationsType DEF Respond, Perform
    <3>. QED  BY <2>1, <3>1 DEF NoCall
  <2>3. CASE rpc.method = "connect"
    <3>1. timers' = Append(timers, Timeout)
      BY <1>f, <2>1, <2>3, OperationsType DEF Respond, Perform
    <3>2. since' = since  BY <1>f, <2>3 DEF Respond
    <3>3. \A i \in DOMAIN timers' : timers'[i] = Timeout \/ (i \in DOMAIN timers /\ timers'[i] = timers[i])
      BY <3>1, <1>s
    <3>4. ASSUME NEW c \in Clients, since[c] # Never, NEW i \in DOMAIN timers'
          PROVE  timers'[i] + since[c] >= Timeout
      <4>1. since[c] \in Nat  BY <1>s, <1>t, <3>4
      <4>. QED  BY <1>t, <3>3, <3>4, <4>1
    <3>. QED  BY <2>1, <3>2, <3>4 DEF NoCall
  <2>4. CASE rpc.method = "heartbeat"
    <3>1. timers' = Append(<< >>, Timeout)
      BY <1>f, <2>1, <2>4, OperationsType DEF Respond, Perform
    <3>2. \A i \in DOMAIN timers' : timers'[i] = Timeout
      BY <3>1
    <3>3. \A c \in Clients : since'[c] = Never \/ since'[c] \in Nat
      BY <1>f, <1>s, <1>t DEF Respond
    <3>. QED  BY <2>1, <3>2, <3>3, <1>t DEF NoCall
  <2>. QED  BY <2>1, <2>2, <2>3, <2>4, <2>5 DEF Requests
<1>g. CASE TimerDue
  <2>1. timers' = Tail(timers) /\ since' = since /\ rpc' = rpc /\ timers # << >>
    BY <1>g DEF TimerDue
  <2>2. \A i \in DOMAIN timers' : i + 1 \in DOMAIN timers /\ timers'[i] = timers[i + 1]
    BY <2>1, <1>s
  <2>. QED  BY <2>1, <2>2
<1>h. CASE ResetToStandby
  BY <1>h DEF ResetToStandby
<1>i. CASE StopServer
  BY <1>i DEF StopServer
<1>j. CASE Tick
  <2>1. /\ rpc' = rpc
        /\ timers' = [i \in DOMAIN timers |-> IF timers[i] > 0 THEN timers[i] - 1 ELSE 0]
    BY <1>j DEF Tick
  <2>2. timers = << >> => timers' = << >>
    BY <2>1
  <2>3. ASSUME NEW c \in Clients, since'[c] # Never, NEW i \in DOMAIN timers'
        PROVE  timers'[i] + since'[c] >= Timeout
    <3>1. since[c] \in 0..Timeout
      BY <1>j, <1>s, <2>3 DEF Tick, Never
    <3>2. since'[c] = IF since[c] < Timeout THEN since[c] + 1 ELSE since[c]
      BY <1>j, <1>s, <1>t, <3>1 DEF Tick
    <3>3. i \in DOMAIN timers /\ timers[i] \in 0..Timeout
      <4>1. DOMAIN timers' = DOMAIN timers  BY <2>1
      <4>2. \A j \in DOMAIN timers : timers[j] \in 0..Timeout  BY <1>s, TimerType
      <4>. QED  BY <4>1, <4>2
    <3>4. timers[i] + since[c] >= Timeout
      BY <3>1, <3>3 DEF Never
    <3>5. timers'[i] = IF timers[i] > 0 THEN timers[i] - 1 ELSE 0
      BY <2>1, <3>3
    <3>. QED  BY <1>t, <3>1, <3>2, <3>3, <3>4, <3>5
  <2>. QED  BY <2>1, <2>2, <2>3
<1>. QED
  BY <1>a, <1>b, <1>c, <1>d, <1>e, <1>f, <1>g, <1>h, <1>i, <1>j
  DEF Next, vars, client, server, StopLooper, Crash, Connect, Disconnect,
      SendPosted, SendDisplay, SendHeartbeat, Send

\* No timer becomes due less than HEARTBEAT_TIMEOUT after a heartbeat of any
\* client, whatever timers and requests other clients left behind.
THEOREM AliveIsKeptHolds == Spec => AliveIsKept
<1>1. Init => Fresh  BY DEF Init, Fresh, NoCall
<1>2. TypeOK /\ Fresh /\ [Next]_vars => Fresh'  BY FreshStep
<1>3. TypeOK /\ Fresh => (TimerDue => \A c \in Clients : since[c] \in {Never, Timeout})
  <2>. SUFFICES ASSUME TypeOK, Fresh, TimerDue, NEW c \in Clients, since[c] # Never
                PROVE  since[c] = Timeout
    OBVIOUS
  <2>1. 1 \in DOMAIN timers /\ timers[1] = 0
    BY DEF TypeOK, TimerDue
  <2>2. since[c] \in 0..Timeout /\ Timeout \in Nat
    BY TimesAssumption DEF TypeOK
  <2>. QED  BY <2>1, <2>2 DEF Fresh
<1>. QED  BY <1>1, <1>2, <1>3, TypeCorrect, PTL DEF Spec, AliveIsKept

-----------------------------------------------------------------------------
(* The timers stand in the order in which they become due, and none was    *)
(* posted after the last connect or heartbeat.                             *)

InOrder ==
  /\ \A i, j \in DOMAIN timers : i <= j => timers[i] <= timers[j]
  /\ \A i \in DOMAIN timers : timers[i] + quiet <= Timeout

LEMMA InOrderStep ==
  ASSUME TypeOK, InOrder, [Next]_vars
  PROVE  InOrder'
<1>. USE DEF InOrder
<1>t. Timeout \in Nat  BY TimesAssumption
<1>s. timers \in Seq(0..Timeout) /\ quiet \in 0..Timeout
  BY DEF TypeOK
<1>r. \A i \in DOMAIN timers : timers[i] \in 0..Timeout
  BY <1>s, TimerType
<1>a. CASE UNCHANGED << timers, quiet >>
  BY <1>a
<1>b. CASE timers' = << >>
  BY <1>b
<1>c. CASE Process
  <2>1. rpc.method \in Requests /\ quiet' = quiet
    BY <1>c DEF Process, TypeOK
  <2>2. Operations[rpc.method][1] 
          \in {"onConnected", "onDisconnected", "onDisplayUrl", "removeCallbacks"}
    BY <2>1, OperationsType DEF Requests
  <2>3. timers' \in {timers, << >>}  BY <1>c, <2>2 DEF Process, Perform
  <2>. QED  BY <1>a, <1>b, <2>1, <2>3
<1>d. CASE Respond
  <2>1. rpc.method \in Requests  BY <1>d DEF Respond, TypeOK
  <2>2. CASE rpc.method = "disconnect"
    <3>1. timers' = << >>
      BY <1>d, <2>1, <2>2, OperationsType DEF Respond, Perform
    <3>. QED  BY <1>b, <3>1
  <2>3. CASE rpc.method = "display"
    <3>1. timers' = timers /\ quiet' = quiet
      BY <1>d, <2>1, <2>3, OperationsType DEF Respond, Perform
    <3>. QED  BY <1>a, <3>1
  <2>4. CASE rpc.method \in {"connect", "heartbeat"}
    <3>1. timers' = Append(timers, Timeout) /\ quiet' = 0
      BY <1>d, <2>1, <2>4, OperationsType DEF Respond, Perform, Requests
    <3>2. DOMAIN timers = 1..Len(timers) /\ DOMAIN timers' = 1..(Len(timers) + 1)
          /\ Len(timers) \in Nat
      BY <1>s, <3>1
    <3>3. \A i \in DOMAIN timers' :
            timers'[i] = IF i <= Len(timers) THEN timers[i] ELSE Timeout
      BY <1>s, <3>1
    <3>. QED  BY <1>r, <1>t, <3>1, <3>2, <3>3
  <2>. QED  BY <2>1, <2>2, <2>3, <2>4 DEF Requests
<1>e. CASE TimerDue
  <2>1. timers' = Tail(timers) /\ timers # << >> /\ quiet' = quiet
    BY <1>e DEF TimerDue
  <2>2. \A i \in DOMAIN timers' :
          i \in Nat /\ i + 1 \in DOMAIN timers /\ timers'[i] = timers[i + 1]
    BY <2>1, <1>s
  <2>. QED  BY <2>1, <2>2
<1>f. CASE StopServer
  BY <1>b, <1>f DEF StopServer
<1>g. CASE Tick
  <2>1. /\ DOMAIN timers' = DOMAIN timers
        /\ \A i \in DOMAIN timers :
             timers'[i] = IF timers[i] > 0 THEN timers[i] - 1 ELSE 0
        /\ quiet' = IF quiet < Timeout THEN quiet + 1 ELSE quiet
    BY <1>g DEF Tick
  <2>2. ASSUME NEW i \in DOMAIN timers, NEW j \in DOMAIN timers, i <= j
        PROVE  timers'[i] <= timers'[j]
    <3>1. timers[i] \in Nat /\ timers[j] \in Nat /\ timers[i] <= timers[j]
      BY <1>r, <1>t, <2>2
    <3>. QED  BY <2>1, <3>1
  <2>3. ASSUME NEW i \in DOMAIN timers PROVE timers'[i] + quiet' <= Timeout
    <3>1. timers[i] \in Nat /\ quiet \in 0..Timeout /\ timers[i] + quiet <= Timeout
      BY <1>r, <1>s, <1>t
    <3>. QED  BY <1>t, <2>1, <3>1
  <2>. QED  BY <2>1, <2>2, <2>3
<1>. QED
  BY <1>a, <1>c, <1>d, <1>e, <1>f, <1>g
  DEF Next, vars, server, StopLooper, Crash, Silence, Connect, Disconnect,
      SendPosted, SendDisplay, SendHeartbeat, Send, SendFails, Receive, ResetToStandby

\* The head of the queue is the timer that becomes due first, as in the looper's
\* queue: TimerDue passes no message over.
THEOREM TimersInOrder ==
  Spec => [](\A i, j \in DOMAIN timers : i <= j => timers[i] <= timers[j])
<1>1. Init => InOrder  BY DEF Init, InOrder
<1>2. TypeOK /\ InOrder /\ [Next]_vars => InOrder'  BY InOrderStep
<1>3. InOrder => \A i, j \in DOMAIN timers : i <= j => timers[i] <= timers[j]
  BY DEF InOrder
<1>. QED  BY <1>1, <1>2, <1>3, TypeCorrect, PTL DEF Spec

\* For any number of clients and any interleaving of their requests, late ones
\* included: HEARTBEAT_TIMEOUT after the last of them a receiver that is still
\* connected, and not by a walk-in, has its reset due at the head of the queue,
\* behind no later one.
THEOREM SilenceIsNoticedHolds == Spec => []SilenceIsNoticed
<1>1. Init => Timed  BY DEF Init, Timed, NoCall
<1>2. TypeOK /\ Timed /\ [Next]_vars => Timed'  BY TimedStep
<1>3. Init => InOrder  BY DEF Init, InOrder
<1>4. TypeOK /\ InOrder /\ [Next]_vars => InOrder'  BY InOrderStep
<1>5. TypeOK /\ Timed /\ InOrder => SilenceIsNoticed
  <2>. SUFFICES ASSUME TypeOK, Timed, InOrder, connected, ~walkIn, serving, rpc = NoCall,
                       main = "idle", quiet = Timeout
                PROVE  timers # << >> /\ Head(timers) = 0
    BY DEF SilenceIsNoticed
  <2>1. timers # << >>  BY DEF Timed, NoCall
  <2>2. 1 \in DOMAIN timers /\ Head(timers) = timers[1]  BY <2>1 DEF TypeOK
  <2>3. timers[1] \in 0..Timeout  BY <2>2, TimerType DEF TypeOK
  <2>. QED  BY <2>1, <2>2, <2>3, TimesAssumption DEF InOrder
<1>. QED  BY <1>1, <1>2, <1>3, <1>4, <1>5, TypeCorrect, PTL DEF Spec
=============================================================================
