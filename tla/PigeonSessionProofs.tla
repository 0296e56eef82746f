------------------------- MODULE PigeonSessionProofs -------------------------
(***************************************************************************)
(* Proofs about PigeonSession, for any number of threads of the app and of *)
(* messages that are not handled.                                          *)
(***************************************************************************)
EXTENDS PigeonSession, TLAPS

Messages == Answers \cup Notifications

\* A message at the end of a queue, and the one that is taken from its head.
LEMMA Appended ==
  ASSUME NEW S, NEW s \in Seq(S), NEW x \in S
  PROVE  /\ Append(s, x) \in Seq(S) /\ Append(s, x) # << >>
         /\ Len(s) \in Nat /\ DOMAIN s = 1..Len(s) /\ DOMAIN Append(s, x) = 1..Len(s) + 1
         /\ \A i \in DOMAIN s : Append(s, x)[i] = s[i] /\ i < Len(s) + 1
         /\ Append(s, x)[Len(s) + 1] = x
         /\ \A i \in DOMAIN Append(s, x) : i \in DOMAIN s \/ i = Len(s) + 1
         /\ Len(s) + 1 \in DOMAIN Append(s, x) /\ DOMAIN s \subseteq DOMAIN Append(s, x)
OBVIOUS

LEMMA Removed ==
  ASSUME NEW S, NEW s \in Seq(S), s # << >>
  PROVE  /\ Tail(s) \in Seq(S) /\ Head(s) = s[1] /\ Head(s) \in S /\ 1 \in DOMAIN s
         /\ DOMAIN s \subseteq Nat
         /\ \A i \in DOMAIN Tail(s) : i + 1 \in DOMAIN s /\ Tail(s)[i] = s[i + 1]
         /\ \A i \in DOMAIN s : i # 1 => i - 1 \in DOMAIN Tail(s) /\ Tail(s)[i - 1] = s[i]
OBVIOUS

LEMMA Tags ==
  /\ \A m \in Answers : m.tag = "answer" /\ m.place \in Places /\ m.result \in Results
  /\ \A n \in Notifications : /\ n.tag \in {"start", "change", "stop", "disconnect"}
                              /\ n.place \in Places \cup {NoPlace}
BY DEF Answers, Notifications

\* Every action keeps the types.
LEMMA TypeStep ==
  ASSUME TypeOK, [Next]_vars
  PROVE  TypeOK'
<1>. USE SessionAssumption DEF TypeOK, client, device
<1>1. ASSUME NEW m \in Answers, DeviceAnswers(m)  PROVE TypeOK'
  <2>1. Append(wire, m) \in Seq(Answers \cup Notifications)  BY Appended
  <2>2. m.place \in Places  BY Tags
  <2>3. asked' \in 0..MaxAsked  BY <1>1 DEF DeviceAnswers
  <2>4. allowed' \in BOOLEAN  BY <1>1 DEF DeviceAnswers
  <2>5. given' \in Places \cup {NoPlace}  BY <1>1, <2>2 DEF DeviceAnswers
  <2>6. wire' \in Seq(Answers \cup Notifications)  BY <1>1, <2>1 DEF DeviceAnswers
  <2>. QED  BY <1>1, <2>3, <2>4, <2>5, <2>6 DEF DeviceAnswers
<1>2. ASSUME NEW n \in Notifications, DeviceNotifies(n)  PROVE TypeOK'
  <2>1. Append(wire, n) \in Seq(Answers \cup Notifications)  BY Appended
  <2>2. allowed' \in BOOLEAN  BY <1>2 DEF DeviceNotifies
  <2>. QED  BY <1>2, <2>1, <2>2 DEF DeviceNotifies
<1>3. CASE DeviceMissesRequest
  BY <1>3 DEF DeviceMissesRequest
<1>4. ASSUME NEW m \in Answers, handleRequestResponse(m)  PROVE TypeOK'
  <2>1. Tail(wire) \in Seq(Answers \cup Notifications)
    BY <1>4, Removed DEF handleRequestResponse, Receives
  <2>2. m.place \in Places /\ m.result \in Results  BY Tags
  <2>. QED  BY <1>4, <2>1, <2>2 DEF handleRequestResponse, Receives
<1>5. ASSUME NEW n \in Notifications, handleNotification(n)  PROVE TypeOK'
  <2>1. Tail(wire) \in Seq(Answers \cup Notifications)
    BY <1>5, Removed DEF handleNotification, Receives
  <2>2. Append(posted, n) \in Seq(Notifications)  BY Appended
  <2>. QED  BY <1>5, <2>1, <2>2 DEF handleNotification, Receives
<1>6. ASSUME NEW n \in Notifications, Runs(n)  PROVE TypeOK'
  <2>1. Tail(posted) \in Seq(Notifications)  BY <1>6, Removed DEF Runs
  <2>2. n.place \in Places \cup {NoPlace}  BY Tags
  <2>. QED
    BY <1>6, <2>1, <2>2
    DEF Runs, startStreaming, changePosition, stopStreaming, disconnect, Ask, Threads
<1>7. ASSUME NEW t \in Apps, requestToDisplay(t)  PROVE TypeOK'
  BY <1>7 DEF requestToDisplay, Ask, Threads
<1>8. ASSUME NEW t \in Threads, requestStreaming(t)  PROVE TypeOK'
  BY <1>8 DEF requestStreaming, BeginsToWait, TimesOut, Returns
<1>9. CASE UNCHANGED vars
  BY <1>9 DEF vars
<1>. QED
  BY <1>1, <1>2, <1>3, <1>4, <1>5, <1>6, <1>7, <1>8, <1>9 DEF Next, Device, Receiver, HandlerRuns

LEMMA InitType ==
  Init => TypeOK
<1>1. << >> \in Seq(Answers \cup Notifications) /\ << >> \in Seq(Notifications)  OBVIOUS
<1>2. 0 \in 0..MaxAsked  BY SessionAssumption
<1>. QED  BY <1>1, <1>2 DEF Init, TypeOK

\* The types hold for any number of threads, requests and messages.
THEOREM TypeCorrect == Spec => []TypeOK
BY InitType, TypeStep, PTL DEF Spec

-----------------------------------------------------------------------------
Grants(m) == m.tag = "answer" /\ m.result = "allow"
Withdraws(m) == m.tag \in {"change", "stop", "disconnect"}

\* The last permission that is on its way is the one the device has given last.
LastGrant ==
  \A i \in DOMAIN wire :
    Grants(wire[i]) /\ (\A j \in DOMAIN wire : i < j => ~Grants(wire[j]))
    => wire[i].place = given

GrantInv ==
  /\ LastGrant
  /\ request_result = "allow" =>
       /\ state = "STREAMING"
       /\ (\A i \in DOMAIN wire : ~Grants(wire[i])) => place = given

\* The device has sent the withdrawal after every permission that is on its
\* way, and the one the client acts on has a withdrawal behind it.
WithdrawInv ==
  ~allowed =>
    /\ \A i \in DOMAIN wire : Grants(wire[i]) =>
         \E j \in DOMAIN wire : i < j /\ Withdraws(wire[j])
    /\ state = "STREAMING" =>
         \/ \E i \in DOMAIN wire : Withdraws(wire[i])
         \/ \E i \in DOMAIN posted : Withdraws(posted[i])

LEMMA GrantStep ==
  ASSUME TypeOK, GrantInv, [Next]_vars
  PROVE  GrantInv'
<1>. USE DEF client, device
<1>0. wire \in Seq(Messages)  BY DEF TypeOK, Messages
<1>1. ASSUME NEW m \in Messages, wire' = Append(wire, m), ~Grants(m), UNCHANGED << client, given >>
      PROVE  GrantInv'
  <2>. DEFINE n == Len(wire) + 1
  <2>1. /\ \A i \in DOMAIN wire : wire'[i] = wire[i] /\ i \in DOMAIN wire'
        /\ \A i \in DOMAIN wire' : i \in DOMAIN wire \/ wire'[i] = m
    BY <1>0, <1>1, Appended
  <2>2. \A i \in DOMAIN wire' : Grants(wire'[i]) => i \in DOMAIN wire /\ wire'[i] = wire[i]
    BY <1>1, <2>1
  <2>3. LastGrant'  BY <1>1, <2>1, <2>2 DEF GrantInv, LastGrant
  <2>. QED  BY <1>1, <2>1, <2>3 DEF GrantInv
<1>2. ASSUME NEW m \in Answers, DeviceAnswers(m)  PROVE GrantInv'
  <2>1. CASE m.result = "allow"
    <3>1. /\ DOMAIN wire = 1..Len(wire) /\ Len(wire) \in Nat
          /\ Len(wire) + 1 \in DOMAIN wire' /\ wire'[Len(wire) + 1] = m
          /\ \A i \in DOMAIN wire' : i = Len(wire) + 1 \/ i < Len(wire) + 1
      BY <1>0, <1>2, Appended DEF DeviceAnswers, Messages
    <3>2. Grants(m) /\ given' = m.place  BY <1>2, <2>1, Tags DEF Grants, DeviceAnswers
    <3>3. LastGrant'  BY <3>1, <3>2 DEF LastGrant
    <3>. QED  BY <1>2, <3>1, <3>2, <3>3 DEF GrantInv, DeviceAnswers
  <2>2. CASE m.result # "allow"
    BY <1>1, <1>2, <2>2 DEF DeviceAnswers, Grants, Messages
  <2>. QED  BY <2>1, <2>2
<1>3. ASSUME NEW n \in Notifications, DeviceNotifies(n)  PROVE GrantInv'
  <2>1. ~Grants(n) /\ n \in Messages  BY Tags DEF Grants, Messages
  <2>. QED  BY <1>1, <1>3, <2>1 DEF DeviceNotifies
<1>4. ASSUME NEW m \in Messages, Receives(m), given' = given  PROVE LastGrant'
  <2>1. /\ DOMAIN wire \subseteq Nat
        /\ \A i \in DOMAIN wire' : i + 1 \in DOMAIN wire /\ wire'[i] = wire[i + 1] /\ i \in Nat
        /\ \A i \in DOMAIN wire : i # 1 => i - 1 \in DOMAIN wire' /\ wire'[i - 1] = wire[i]
    BY <1>0, <1>4, Removed DEF Receives
  <2>2. SUFFICES ASSUME NEW i \in DOMAIN wire', Grants(wire'[i]),
                        \A j \in DOMAIN wire' : i < j => ~Grants(wire'[j])
                 PROVE  wire'[i].place = given'
    BY DEF LastGrant, Grants
  <2>3. ASSUME NEW j \in DOMAIN wire, i + 1 < j  PROVE ~Grants(wire[j])
    <3>1. j # 1 /\ i < j - 1  BY <2>1, <2>3
    <3>. QED  BY <2>1, <2>2, <3>1
  <2>. QED  BY <1>4, <2>1, <2>2, <2>3 DEF GrantInv, LastGrant
<1>5. ASSUME NEW m \in Answers, handleRequestResponse(m)  PROVE GrantInv'
  <2>1. Receives(m) /\ UNCHANGED given /\ m \in Messages
    BY <1>5 DEF handleRequestResponse, Messages
  <2>2. /\ m = wire[1] /\ 1 \in DOMAIN wire /\ DOMAIN wire \subseteq Nat
        /\ \A i \in DOMAIN wire : i # 1 => i - 1 \in DOMAIN wire' /\ wire'[i - 1] = wire[i]
    BY <1>0, <2>1, Removed DEF Receives
  <2>3. ASSUME request_result' = "allow", \A i \in DOMAIN wire' : ~Grants(wire'[i])
        PROVE  place' = given'
    <3>1. Grants(m) /\ place' = m.place  BY <1>5, <2>3, Tags DEF handleRequestResponse, Grants
    <3>2. \A j \in DOMAIN wire : 1 < j => ~Grants(wire[j])  BY <2>2, <2>3
    <3>. QED  BY <2>1, <2>2, <3>1, <3>2 DEF GrantInv, LastGrant
  <2>4. request_result' = "allow" => state' = "STREAMING"  BY <1>5 DEF handleRequestResponse
  <2>5. LastGrant'  BY <1>4, <2>1
  <2>. QED  BY <2>3, <2>4, <2>5 DEF GrantInv, Grants
<1>6. ASSUME NEW n \in Notifications, handleNotification(n)  PROVE GrantInv'
  <2>1. Receives(n) /\ UNCHANGED << client, given >> /\ n \in Messages /\ ~Grants(n)
    BY <1>6, Tags DEF handleNotification, Messages, Grants
  <2>2. /\ n = wire[1] /\ DOMAIN wire \subseteq Nat
        /\ \A i \in DOMAIN wire : i # 1 => i - 1 \in DOMAIN wire' /\ wire'[i - 1] = wire[i]
    BY <1>0, <2>1, Removed DEF Receives
  <2>3. (\A i \in DOMAIN wire' : ~Grants(wire'[i])) => \A i \in DOMAIN wire : ~Grants(wire[i])
    BY <2>1, <2>2
  <2>4. LastGrant'  BY <1>4, <2>1
  <2>. QED  BY <2>1, <2>3, <2>4 DEF GrantInv, Grants
<1>7. ASSUME NEW n \in Notifications, Runs(n)  PROVE GrantInv'
  <2>1. request_result' = "invalid" /\ UNCHANGED << wire, given >>
    BY <1>7 DEF Runs, startStreaming, changePosition, stopStreaming, disconnect
  <2>. QED  BY <2>1 DEF GrantInv, LastGrant, Grants
<1>8. ASSUME UNCHANGED << client, wire, given >>  PROVE GrantInv'
  BY <1>8 DEF GrantInv, LastGrant, Grants
<1>9. CASE \/ DeviceMissesRequest \/ UNCHANGED vars
           \/ \E t \in Apps : requestToDisplay(t)
           \/ \E t \in Threads : requestStreaming(t)
  BY <1>8, <1>9
  DEF DeviceMissesRequest, vars, requestToDisplay, requestStreaming, BeginsToWait, TimesOut, Returns
<1>. QED
  BY <1>2, <1>3, <1>5, <1>6, <1>7, <1>9 DEF Next, Device, Receiver, HandlerRuns

\* For any number of threads that ask, each with its own request, and of
\* messages on their way: whoever reads an "allow" reads it with the state and
\* the place that belong to it.
THEOREM GrantAgreesHolds == Spec => []GrantAgrees
<1>1. Init => GrantInv
  BY DEF Init, GrantInv, LastGrant
<1>2. TypeOK /\ GrantInv => GrantAgrees
  <2>1. Answered => \A i \in DOMAIN wire : ~Grants(wire[i])  BY DEF Answered, Grants
  <2>. QED  BY <2>1 DEF GrantInv, GrantAgrees
<1>3. TypeOK /\ GrantInv /\ [Next]_vars => GrantInv'
  BY GrantStep
<1>. QED  BY <1>1, <1>2, <1>3, TypeCorrect, PTL DEF Spec

LEMMA WithdrawStep ==
  ASSUME TypeOK, WithdrawInv, [Next]_vars
  PROVE  WithdrawInv'
<1>. USE DEF client, device
<1>0. wire \in Seq(Messages) /\ posted \in Seq(Notifications)  BY DEF TypeOK, Messages
<1>1. ASSUME NEW m \in Messages, wire' = Append(wire, m), UNCHANGED << state, posted >>,
             ~Grants(m), ~allowed' => ~allowed \/ Withdraws(m)
      PROVE  WithdrawInv'
  <2>1. /\ Len(wire) + 1 \in DOMAIN wire' /\ wire'[Len(wire) + 1] = m
        /\ \A i \in DOMAIN wire : wire'[i] = wire[i] /\ i \in DOMAIN wire' /\ i < Len(wire) + 1
        /\ \A i \in DOMAIN wire' : i \in DOMAIN wire \/ i = Len(wire) + 1
    BY <1>0, <1>1, Appended
  <2>2. CASE Withdraws(m)
    BY <1>1, <2>1, <2>2 DEF WithdrawInv, Grants, Withdraws
  <2>3. CASE allowed'
    BY <2>3 DEF WithdrawInv
  <2>4. CASE ~allowed /\ ~allowed'
    <3>1. \A i \in DOMAIN wire' : Grants(wire'[i]) => i \in DOMAIN wire /\ Grants(wire[i])
      BY <1>1, <2>1
    <3>2. \A i \in DOMAIN wire' : Grants(wire'[i]) =>
            \E j \in DOMAIN wire' : i < j /\ Withdraws(wire'[j])
      BY <2>1, <2>4, <3>1 DEF WithdrawInv
    <3>3. state' = "STREAMING" => \/ \E i \in DOMAIN wire' : Withdraws(wire'[i])
                                  \/ \E i \in DOMAIN posted' : Withdraws(posted'[i])
      BY <1>1, <2>1, <2>4 DEF WithdrawInv
    <3>. QED  BY <3>2, <3>3 DEF WithdrawInv, Grants, Withdraws
  <2>. QED  BY <1>1, <2>2, <2>3, <2>4
<1>2. ASSUME NEW m \in Answers, DeviceAnswers(m)  PROVE WithdrawInv'
  <2>1. CASE m.result = "allow"
    BY <1>2, <2>1 DEF DeviceAnswers, WithdrawInv
  <2>2. CASE m.result # "allow"
    BY <1>1, <1>2, <2>2 DEF DeviceAnswers, Grants, Messages
  <2>. QED  BY <2>1, <2>2
<1>3. ASSUME NEW n \in Notifications, DeviceNotifies(n)  PROVE WithdrawInv'
  <2>1. ~Grants(n) /\ n \in Messages /\ (n.tag # "start" => Withdraws(n))
    BY Tags DEF Grants, Withdraws, Messages
  <2>2. ~allowed' => ~allowed \/ Withdraws(n)  BY <1>3, <2>1 DEF DeviceNotifies, TypeOK
  <2>. QED  BY <1>1, <1>3, <2>1, <2>2 DEF DeviceNotifies
<1>4. ASSUME NEW m \in Messages, Receives(m), WithdrawInv, ~allowed
      PROVE  /\ \A i \in DOMAIN wire' : Grants(wire'[i]) =>
                  \E j \in DOMAIN wire' : i < j /\ Withdraws(wire'[j])
             /\ Grants(m) => \E i \in DOMAIN wire' : Withdraws(wire'[i])
             /\ (\E i \in DOMAIN wire : Withdraws(wire[i])) =>
                  Withdraws(m) \/ \E i \in DOMAIN wire' : Withdraws(wire'[i])
  <2>1. /\ m = wire[1] /\ 1 \in DOMAIN wire /\ DOMAIN wire \subseteq Nat
        /\ \A i \in DOMAIN wire' : i + 1 \in DOMAIN wire /\ wire'[i] = wire[i + 1] /\ i \in Nat
        /\ \A i \in DOMAIN wire : i # 1 => i - 1 \in DOMAIN wire' /\ wire'[i - 1] = wire[i]
    BY <1>0, <1>4, Removed DEF Receives
  <2>2. ASSUME NEW i \in DOMAIN wire', Grants(wire'[i])
        PROVE  \E j \in DOMAIN wire' : i < j /\ Withdraws(wire'[j])
    <3>1. PICK j \in DOMAIN wire : i + 1 < j /\ Withdraws(wire[j])
      BY <1>4, <2>1, <2>2 DEF WithdrawInv
    <3>2. j # 1 /\ i < j - 1  BY <2>1, <3>1
    <3>. QED  BY <2>1, <3>1, <3>2
  <2>3. ASSUME Grants(m)  PROVE \E i \in DOMAIN wire' : Withdraws(wire'[i])
    <3>1. PICK j \in DOMAIN wire : 1 < j /\ Withdraws(wire[j])
      BY <1>4, <2>1, <2>3 DEF WithdrawInv
    <3>. QED  BY <2>1, <3>1
  <2>4. ASSUME NEW i \in DOMAIN wire, Withdraws(wire[i])
        PROVE  Withdraws(m) \/ \E j \in DOMAIN wire' : Withdraws(wire'[j])
    BY <2>1, <2>4
  <2>. QED  BY <2>2, <2>3, <2>4
<1>5. ASSUME NEW m \in Answers, handleRequestResponse(m)  PROVE WithdrawInv'
  <2>1. /\ Receives(m) /\ m \in Messages /\ UNCHANGED << posted, allowed >> /\ ~Withdraws(m)
        /\ state' = "STREAMING" => state = "STREAMING" \/ Grants(m)
    BY <1>5, Tags DEF handleRequestResponse, Messages, Withdraws, Grants
  <2>2. CASE allowed
    BY <2>1, <2>2 DEF WithdrawInv
  <2>3. CASE ~allowed
    <3>1. state' = "STREAMING" => \/ \E i \in DOMAIN wire' : Withdraws(wire'[i])
                                  \/ \E i \in DOMAIN posted' : Withdraws(posted'[i])
      BY <1>4, <2>1, <2>3 DEF WithdrawInv
    <3>. QED  BY <1>4, <2>1, <2>3, <3>1 DEF WithdrawInv, Grants, Withdraws
  <2>. QED  BY <2>2, <2>3
<1>6. ASSUME NEW n \in Notifications, handleNotification(n)  PROVE WithdrawInv'
  <2>1. /\ Receives(n) /\ n \in Messages /\ UNCHANGED << state, allowed >>
        /\ posted' = Append(posted, n)
    BY <1>6 DEF handleNotification, Messages
  <2>2. /\ \A i \in DOMAIN posted : posted'[i] = posted[i] /\ i \in DOMAIN posted'
        /\ \E i \in DOMAIN posted' : posted'[i] = n
    BY <1>0, <2>1, Appended
  <2>3. CASE allowed
    BY <2>1, <2>3 DEF WithdrawInv
  <2>4. CASE ~allowed
    <3>1. state' = "STREAMING" => \/ \E i \in DOMAIN wire' : Withdraws(wire'[i])
                                  \/ \E i \in DOMAIN posted' : Withdraws(posted'[i])
      BY <1>4, <2>1, <2>2, <2>4 DEF WithdrawInv
    <3>. QED  BY <1>4, <2>1, <2>4, <3>1 DEF WithdrawInv, Grants, Withdraws
  <2>. QED  BY <2>3, <2>4
<1>7. ASSUME NEW n \in Notifications, Runs(n)  PROVE WithdrawInv'
  <2>1. UNCHANGED << wire, allowed >> /\ (state' = "STREAMING" => n.tag = "start" /\ state = state')
    BY <1>7 DEF Runs, startStreaming, changePosition, stopStreaming, disconnect
  <2>2. /\ n = posted[1]
        /\ \A i \in DOMAIN posted : i # 1 => i - 1 \in DOMAIN posted' /\ posted'[i - 1] = posted[i]
    BY <1>0, <1>7, Removed DEF Runs
  <2>3. ASSUME state' = "STREAMING", NEW i \in DOMAIN posted, Withdraws(posted[i])
        PROVE  \E j \in DOMAIN posted' : Withdraws(posted'[j])
    <3>1. i # 1  BY <2>1, <2>2, <2>3 DEF Withdraws
    <3>. QED  BY <2>2, <2>3, <3>1
  <2>. QED  BY <2>1, <2>3 DEF WithdrawInv, Grants, Withdraws
<1>8. ASSUME UNCHANGED << state, wire, posted, allowed >>  PROVE WithdrawInv'
  BY <1>8 DEF WithdrawInv, Grants, Withdraws
<1>9. CASE \/ DeviceMissesRequest \/ UNCHANGED vars
           \/ \E t \in Apps : requestToDisplay(t)
           \/ \E t \in Threads : requestStreaming(t)
  BY <1>8, <1>9
  DEF DeviceMissesRequest, vars, requestToDisplay, requestStreaming, BeginsToWait, TimesOut, Returns
<1>. QED
  BY <1>2, <1>3, <1>5, <1>6, <1>7, <1>9 DEF Next, Device, Receiver, HandlerRuns

\* However many messages are on their way, handled out of order by the
\* receiving thread and the handler: what the device has withdrawn stays so.
THEOREM WithdrawnIsHeededHolds == Spec => []WithdrawnIsHeeded
<1>1. Init => WithdrawInv
  BY DEF Init, WithdrawInv
<1>2. TypeOK /\ WithdrawInv => WithdrawnIsHeeded
  BY DEF WithdrawInv, WithdrawnIsHeeded
<1>3. TypeOK /\ WithdrawInv /\ [Next]_vars => WithdrawInv'
  BY WithdrawStep
<1>. QED  BY <1>1, <1>2, <1>3, TypeCorrect, PTL DEF Spec
=============================================================================
