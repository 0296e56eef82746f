------------------------- MODULE FileStreamingProofs -------------------------
(***************************************************************************)
(* Proofs about FileStreaming, for files of every length and any number of *)
(* files, worker threads and races.                                        *)
(***************************************************************************)
EXTENDS FileStreaming, TLAPS

USE DEF Threads, Alive, Dead, At, Idle, NoCall, Gone, Sources

Calls == [op : {"none", "read", "start", "pause", "stop"},
          at : {"idle", "check", "join", "clear", "stopped"},
          source : Sources, offset : 0..Length]

Moved(c, at) == [op |-> c.op, at |-> at, source |-> c.source, offset |-> c.offset]

\* A thread that goes on in stopWorkerThread, or enters or leaves a call, keeps
\* the type of the calls.
LEMMA GotoType ==
  ASSUME TypeOK, NEW t \in Threads, NEW at \in {"join", "clear", "stopped"}, Goto(t, at)
  PROVE  /\ call' \in [Threads -> Calls]
         /\ call' = [call EXCEPT ![t] = Moved(call[t], at)]
         /\ Moved(call[t], at) \in Calls
<1>. call \in [Threads -> Calls]  BY DEF TypeOK, Calls
<1>1. [call[t] EXCEPT !.at = at] = Moved(call[t], at)  BY DEF Calls, Moved
<1>2. call' = [call EXCEPT ![t] = Moved(call[t], at)]  BY <1>1 DEF Goto
<1>3. Moved(call[t], at) \in Calls  BY DEF Calls, Moved
<1>. QED  BY <1>2, <1>3

LEMMA EnterLeaveType ==
  ASSUME TypeOK, NEW t \in Threads
  PROVE  /\ Leave(t) => call' \in [Threads -> Calls]
         /\ \A op \in {"read", "start", "pause", "stop"}, s \in Sources, offset \in 0..Length :
              Enter(t, op, s, offset) => call' \in [Threads -> Calls]
<1>. call \in [Threads -> Calls]  BY DEF TypeOK, Calls
<1>0. 0 \in 0..Length /\ 0 \in Sources  BY FileAssumption
<1>1. NoCall \in Calls  BY <1>0 DEF Calls
<1>2. \A op \in {"read", "start", "pause", "stop"}, s \in Sources, offset \in 0..Length :
        [op |-> op, at |-> "check", source |-> s, offset |-> offset] \in Calls
  BY DEF Calls
<1>. QED  BY <1>1, <1>2 DEF Enter, Leave

WorkerStates == [at : {"seek", "read", "send", "loop", "ended", "failed"},
                 source : Sources, block : 0..Length]

\* A worker that goes on keeps its source.
LEMMA AdvanceType ==
  ASSUME TypeOK, NEW w \in Workers, NEW at \in {"read", "loop"}, Advance(w, at)
  PROVE  /\ worker' \in [Workers -> WorkerStates]
         /\ worker' = [worker EXCEPT ![w] = At(at, worker[w].source, 0)]
<1>. worker \in [Workers -> WorkerStates]  BY DEF TypeOK, WorkerStates
<1>0. 0 \in 0..Length  BY FileAssumption
<1>2. worker' = [worker EXCEPT ![w] = At(at, worker[w].source, 0)]
  BY DEF Advance, WorkerStates, At
<1>3. At(at, worker[w].source, 0) \in WorkerStates  BY <1>0 DEF WorkerStates, At
<1>. QED  BY <1>2, <1>3

\* The same for one that has read a block.
LEMMA ReadType ==
  ASSUME TypeOK, NEW w \in Workers, Read(w)
  PROVE  /\ worker' \in [Workers -> WorkerStates]
         /\ worker' = [worker EXCEPT
              ![w] = At("send", worker[w].source, position[worker[w].source])]
<1>. worker \in [Workers -> WorkerStates] /\ position \in [Sources -> 0..Length]
  BY DEF TypeOK, WorkerStates
<1>1. worker[w].source \in Sources  BY DEF WorkerStates
<1>2. worker' = [worker EXCEPT ![w] = At("send", worker[w].source, position[worker[w].source])]
  BY DEF Read, WorkerStates, At
<1>3. At("send", worker[w].source, position[worker[w].source]) \in WorkerStates
  BY <1>1 DEF WorkerStates, At
<1>. QED  BY <1>2, <1>3

\* What is written keeps the type of the wire.
LEMMA WriteType ==
  ASSUME TypeOK, NEW kind \in {"start", "answer", "contents", "eof", "stop"},
         NEW offset \in 0..Length, Write(Stream!Packet(kind, offset))
  PROVE  wire' \in Stream!Packets
BY DEF TypeOK, Write, Stream!Packet, Stream!Packets

\* What is noted of races keeps its type.
LEMMA RaceType ==
  ASSUME TypeOK, NEW overlap \in BOOLEAN, Race(overlap)
  PROVE  raced' \in BOOLEAN /\ races' \in 0..MaxRaces
BY FileAssumption DEF TypeOK, Race, Quiet

LEMMA TypeStep ==
  ASSUME TypeOK, [Next]_vars
  PROVE  TypeOK'
<1>. USE FileAssumption DEF TypeOK
<1>z. call' \in [Threads -> Calls] => call' \in [Threads ->
       [op : {"none", "read", "start", "pause", "stop"},
        at : {"idle", "check", "join", "clear", "stopped"},
        source : Sources, offset : 0..Length]]
  BY DEF Calls
<1>y. worker' \in [Workers -> WorkerStates] => worker' \in [Workers ->
       [at : {"seek", "read", "send", "loop", "ended", "failed"},
        source : Sources, block : 0..Length]]
  BY DEF WorkerStates
<1>x. 0 \in 0..Length /\ Length \in 0..Length /\ 0 \in Sources  OBVIOUS
<1>w. Dead("ended") \in WorkerStates /\ Dead("failed") \in WorkerStates
  BY <1>x DEF WorkerStates
<1>v. \A t \in Threads : call[t].source \in Sources /\ call[t].offset \in 0..Length
  OBVIOUS
<1>b. CASE Break
  <2>1. wire' \in Stream!Packets  BY <1>b, <1>x DEF Break, Stream!Packet, Stream!Packets
  <2>. QED  BY <1>b, <2>1 DEF Break, data, ghosts
<1>c. CASE StartMediaStreaming
  <2>1. wire' \in Stream!Packets  BY <1>c, <1>x, WriteType DEF StartMediaStreaming
  <2>2. raced' \in BOOLEAN /\ races' \in 0..MaxRaces
    BY <1>c, RaceType DEF StartMediaStreaming, Quiet
  <2>3. current' \in Sources  BY <1>c DEF StartMediaStreaming
  <2>. QED  BY <1>c, <2>1, <2>2, <2>3 DEF StartMediaStreaming
<1>d. CASE StopMediaStreaming
  <2>1. raced' \in BOOLEAN /\ races' \in 0..MaxRaces
    BY <1>d, RaceType DEF StopMediaStreaming
  <2>2. call' \in [Threads -> Calls]
    BY <1>d, <1>x, EnterLeaveType DEF StopMediaStreaming
  <2>. QED  BY <1>d, <1>z, <2>1, <2>2 DEF StopMediaStreaming, data
<1>e. ASSUME NEW command \in Commands, HandleAVStreamCmd(command)  PROVE TypeOK'
  <2>1. raced' \in BOOLEAN /\ races' \in 0..MaxRaces
    BY <1>e, RaceType DEF HandleAVStreamCmd
  <2>2. command.offset \in 0..Length /\ command.cmd \in {"read", "pause", "stop"}
    BY <1>e DEF HandleAVStreamCmd, Ignored, Commands
  <2>3. call' \in [Threads -> Calls]
    BY <1>e, <2>2, EnterLeaveType DEF HandleAVStreamCmd
  <2>. QED  BY <1>e, <1>z, <2>1, <2>3 DEF HandleAVStreamCmd, data
<1>f. ASSUME NEW t \in Threads, StopCheck(t)  PROVE TypeOK'
  <2>1. call' \in [Threads -> Calls]  BY <1>f, GotoType DEF StopCheck
  <2>2. shouldRead' \in [Sources -> BOOLEAN]  BY <1>f, <1>v DEF StopCheck
  <2>. QED  BY <1>f, <1>z, <2>1, <2>2 DEF StopCheck, ghosts
<1>g. ASSUME NEW t \in Threads, Join(t)  PROVE TypeOK'
  <2>1. raced' \in BOOLEAN /\ races' \in 0..MaxRaces
    BY <1>g, RaceType DEF Join, ghosts
  <2>2. call' \in [Threads -> Calls]  BY <1>g, GotoType, EnterLeaveType DEF Join
  <2>. QED  BY <1>g, <1>z, <2>1, <2>2 DEF Join, data
<1>h. ASSUME NEW t \in Threads, Clear(t)  PROVE TypeOK'
  <2>1. call' \in [Threads -> Calls]  BY <1>h, GotoType DEF Clear
  <2>. QED  BY <1>h, <1>z, <1>v, <2>1 DEF Clear, ghosts
<1>i. ASSUME NEW t \in Threads, SendFileStop(t)  PROVE TypeOK'
  BY <1>i, <1>x, <1>z, EnterLeaveType, WriteType DEF SendFileStop, data, ghosts
<1>j. CASE Pause
  BY <1>j, <1>z, EnterLeaveType DEF Pause, data, ghosts
<1>k. CASE AnswerRead
  <2>1. call' \in [Threads -> Calls]  BY <1>k, <1>v, EnterLeaveType DEF AnswerRead
  <2>2. wire' \in Stream!Packets  BY <1>k, <1>v, WriteType DEF AnswerRead
  <2>. QED  BY <1>k, <1>z, <2>1, <2>2 DEF AnswerRead, data, ghosts
<1>l. ASSUME NEW w \in Workers, StartStreamingContents(w)  PROVE TypeOK'
  <2>1. call' \in [Threads -> Calls]
    BY <1>l, EnterLeaveType DEF StartStreamingContents, Launch
  <2>2. At("seek", call["receiver"].source, call["receiver"].offset) \in WorkerStates
    BY <1>v DEF At, WorkerStates
  <2>3. worker \in [Workers -> WorkerStates]  BY DEF WorkerStates
  <2>4. worker' \in [Workers -> WorkerStates]
    BY <1>l, <2>2, <2>3 DEF StartStreamingContents, Launch, At
  <2>. QED  BY <1>l, <1>v, <1>y, <1>z, <2>1, <2>4 DEF StartStreamingContents, Launch, ghosts
<1>m. ASSUME NEW w \in Workers, Seek(w)  PROVE TypeOK'
  <2>1. worker[w].block \in 0..Length  OBVIOUS
  <2>2. position' \in [Sources -> 0..Length]  BY <1>m, <2>1 DEF Seek
  <2>. QED  BY <1>m, <1>y, <2>2, AdvanceType DEF Seek, ghosts
<1>n. ASSUME NEW w \in Workers, Read(w)  PROVE TypeOK'
  <2>1. position' \in [Sources -> 0..Length]
    BY <1>n DEF Read
  <2>. QED  BY <1>n, <1>y, <2>1, ReadType DEF Read, ghosts
<1>o. ASSUME NEW w \in Workers, ReadFails(w)  PROVE TypeOK'
  <2>1. worker \in [Workers -> WorkerStates]  BY DEF WorkerStates
  <2>2. worker' \in [Workers -> WorkerStates]  BY <1>o, <1>w, <2>1 DEF ReadFails
  <2>. QED  BY <1>o, <1>y, <2>2 DEF ReadFails, ghosts
<1>p. ASSUME NEW w \in Workers, SendContents(w)  PROVE TypeOK'
  <2>1. worker[w].block \in 0..Length  OBVIOUS
  <2>2. wire' \in Stream!Packets  BY <1>p, <2>1, WriteType DEF SendContents
  <2>. QED  BY <1>p, <1>y, <2>2, AdvanceType DEF SendContents, ghosts
<1>q. ASSUME NEW w \in Workers, SendEof(w)  PROVE TypeOK'
  <2>1. wire' \in Stream!Packets  BY <1>q, <1>x, WriteType DEF SendEof
  <2>2. shouldRead' \in [Sources -> BOOLEAN]  BY <1>q DEF SendEof
  <2>. QED  BY <1>q, <1>y, <2>1, <2>2, AdvanceType DEF SendEof, ghosts
<1>r. ASSUME NEW w \in Workers, Loop(w)  PROVE TypeOK'
  <2>1. worker \in [Workers -> WorkerStates]  BY DEF WorkerStates
  <2>2. worker' \in [Workers -> WorkerStates]
    BY <1>r, <1>w, <2>1, AdvanceType DEF Loop
  <2>. QED  BY <1>r, <1>y, <2>2 DEF Loop, ghosts
<1>s. CASE UNCHANGED vars
  BY <1>s DEF vars, data, ghosts
<1>. QED
  BY <1>b, <1>c, <1>d, <1>e, <1>f, <1>g, <1>h, <1>i, <1>j, <1>k, <1>l,
     <1>m, <1>n, <1>o, <1>p, <1>q, <1>r, <1>s DEF Next

\* The types hold at the start.
LEMMA InitType == Init => TypeOK
<1>. SUFFICES ASSUME Init PROVE TypeOK  OBVIOUS
<1>. USE FileAssumption DEF Init
<1>1. wire \in Stream!Packets  BY DEF Stream!Packet, Stream!Packets
<1>2. worker \in [Workers ->
     [at : {"seek", "read", "send", "loop", "ended", "failed"},
      source : Sources, block : 0..Length]]
  OBVIOUS
<1>3. call \in [Threads ->
     [op : {"none", "read", "start", "pause", "stop"},
      at : {"idle", "check", "join", "clear", "stopped"},
      source : Sources, offset : 0..Length]]
  OBVIOUS
<1>4. /\ current \in Sources /\ workerThread \in [Sources -> Workers \cup {None}]
      /\ position \in [Sources -> 0..Length] /\ races \in 0..MaxRaces
  OBVIOUS
<1>5. shouldRead \in [Sources -> BOOLEAN] /\ raced \in BOOLEAN  OBVIOUS
<1>. QED  BY <1>1, <1>2, <1>3, <1>4, <1>5 DEF TypeOK

\* Every variable keeps its type, races included: no worker is given an offset
\* outside the file.
THEOREM TypeCorrect == Spec => []TypeOK
<1>1. Init => TypeOK  BY InitType
<1>2. TypeOK /\ [Next]_vars => TypeOK'  BY TypeStep
<1>. QED  BY <1>1, <1>2, PTL DEF Spec

-----------------------------------------------------------------------------
(* Outside races: while one thread stops or answers there is no worker it  *)
(* does not know of, and what an unstopped worker sends next is what has   *)
(* to follow on the wire.                                                  *)

\* Nobody else is in a call.
Alone == \E t \in Threads : \A u \in Threads : u # t => Idle(u)

\* Calls and workers are about the current data source.
OfCurrent ==
  /\ \A t \in Threads : ~Idle(t) => call[t].source = current
  /\ \A w \in Workers : Alive(w) => worker[w].source = current

\* The only worker that may run.
Known == \A w \in Workers : Alive(w) => workerThread[current] = w

\* What each place in a call implies.
Placed ==
  \A t \in Threads :
    /\ call[t].at = "clear" => \A w \in Workers : ~Alive(w)
    /\ call[t].at = "stopped" => workerThread[current] = None
    /\ call[t].op = "start" =>
         /\ workerThread[current] = None
         /\ call[t].at \in {"check", "stopped"}
         /\ Gone \/ wire = Stream!Packet("answer", call[t].offset)

\* What follows on the wire.
Expects(block) == wire.kind \in {"answer", "contents"} /\ Stream!Position = block

Follows(w) ==
  LET p == position[worker[w].source] IN
  /\ worker[w].at = "seek" => wire = Stream!Packet("answer", worker[w].block)
  /\ worker[w].at = "read" => Expects(p)
  /\ worker[w].at = "send" =>
       /\ Expects(worker[w].block)
       /\ worker[w].block < Length => p = worker[w].block + 1
  /\ worker[w].at = "loop" /\ shouldRead[worker[w].source] => Expects(p)

InStep == \A w \in Workers : Follows(w)

Ordered == Alone /\ OfCurrent /\ Known /\ Placed /\ (Gone \/ InStep)

FileInv == TypeOK /\ (raced \/ Ordered)

\* When nobody is in a call and no worker runs there is nothing to be in order.
LEMMA QuietIsOrdered == ASSUME TypeOK, Quiet PROVE Ordered
<1>1. Alone /\ OfCurrent /\ Known  BY DEF Quiet, Alone, OfCurrent, Known
<1>2. Placed  BY DEF Quiet, Placed
<1>3. InStep  BY DEF Quiet, InStep, Follows
<1>. QED  BY <1>1, <1>2, <1>3 DEF Ordered

\* A race ends at an entry that finds everything quiet, so a step that ends
\* outside races starts from order.
LEMMA OrderedBefore ==
  ASSUME FileInv, [Next]_vars, ~raced'
  PROVE  Ordered
<1>. SUFFICES ASSUME raced, ~Quiet PROVE FALSE  BY QuietIsOrdered DEF FileInv
<1>1. \A overlap \in BOOLEAN : Race(overlap) => raced'  BY DEF Race, TypeOK, FileInv
<1>2. Quiet \in BOOLEAN /\ \A t \in Threads : Idle(t) \in BOOLEAN  BY DEF Quiet
<1>3. raced' # raced  OBVIOUS
<1>. QED
  BY <1>1, <1>2, <1>3
  DEF Next, vars, ghosts, Break, StartMediaStreaming, StopMediaStreaming, HandleAVStreamCmd,
      StopCheck, Join, Clear, SendFileStop, Pause, AnswerRead, StartStreamingContents,
      Launch, Seek, Read, ReadFails, SendContents, SendEof, Loop

\* The thread that is in a call is the only one, and goes on alone.
LEMMA Mover ==
  ASSUME TypeOK, Ordered, NEW t \in Threads, ~Idle(t), NEW c \in Calls,
         call' = [call EXCEPT ![t] = c], current' = current, worker' = worker, wire' = wire,
         c = NoCall \/ c.source = current,
         workerThread'[current] \in {workerThread[current], None},
         c.at = "clear" => \A w \in Workers : ~Alive(w),
         c.at = "stopped" => workerThread'[current] = None,
         c.op = "start" => /\ workerThread'[current] = None
                           /\ c.at \in {"check", "stopped"}
                           /\ Gone \/ wire = Stream!Packet("answer", c.offset)
  PROVE  Alone' /\ OfCurrent' /\ Placed'
<1>1. \A u \in Threads : u # t => call[u] = NoCall /\ call'[u] = NoCall
  BY DEF Ordered, Alone, TypeOK
<1>2. call'[t] = c  BY DEF TypeOK
<1>3. Alone'  BY <1>1 DEF Alone
<1>4. OfCurrent'  BY <1>1, <1>2 DEF Ordered, OfCurrent
<1>5. Placed'  BY <1>1, <1>2 DEF Ordered, Placed
<1>. QED  BY <1>3, <1>4, <1>5

\* No step of a thread in stopWorkerThread loses a worker or writes.
LEMMA StopStep ==
  ASSUME TypeOK, Ordered, ~raced', NEW t \in Threads, StopCheck(t) \/ Join(t) \/ Clear(t)
  PROVE  Ordered'
<1>. USE FileAssumption DEF Ordered
<1>a. call[t] \in Calls /\ current \in Sources  BY DEF TypeOK, Calls
<1>b. ~Idle(t)
  <2>1. call[t].at \in {"check", "join", "clear"}  BY DEF StopCheck, Join, Clear
  <2>2. NoCall.at = "idle"  OBVIOUS
  <2>. QED  BY <2>1, <2>2
<1>c. worker' = worker /\ wire' = wire /\ position' = position /\ current' = current
  BY DEF StopCheck, Join, Clear, data
<1>0. /\ ~Idle(t) /\ call[t] \in Calls /\ call[t].source = current /\ current \in Sources
      /\ worker' = worker /\ wire' = wire /\ position' = position /\ current' = current
  BY <1>a, <1>b, <1>c DEF OfCurrent
<1>1. CASE StopCheck(t)
  <2>1. workerThread' = workerThread
        /\ \A s \in Sources : shouldRead'[s] => shouldRead[s]
    BY <1>1 DEF StopCheck, TypeOK
  <2>2. \A w \in Workers : worker[w].source \in Sources  BY DEF TypeOK
  <2>3. Known' /\ (Gone' \/ InStep')
    BY <1>0, <2>1, <2>2 DEF Known, InStep, Follows, Expects, Stream!Position
  <2>4. PICK at \in {"stopped", "join"} :
          Goto(t, at) /\ (at = "stopped" <=> workerThread[current] = None)
    BY <1>0, <1>1 DEF StopCheck
  <2>5. call' = [call EXCEPT ![t] = Moved(call[t], at)] /\ Moved(call[t], at) \in Calls
    BY <2>4, GotoType
  <2>. DEFINE c == Moved(call[t], at)
  <2>6. /\ c.at = at /\ c.source = current /\ c.offset = call[t].offset /\ c.op = call[t].op
    BY <1>0 DEF Moved
  <2>7. c.op = "start" => /\ workerThread[current] = None
                          /\ Gone \/ wire = Stream!Packet("answer", c.offset)
    BY <2>6 DEF Placed
  <2>. HIDE DEF c
  <2>8. Alone' /\ OfCurrent' /\ Placed'
    BY <1>0, <2>1, <2>4, <2>5, <2>6, <2>7, Mover DEF c
  <2>. QED  BY <2>3, <2>8
<1>2. CASE Join(t)
  <2>1. workerThread' = workerThread /\ shouldRead' = shouldRead
    BY <1>2 DEF Join, data
  <2>2. Known' /\ (Gone' \/ InStep')
    BY <1>0, <2>1 DEF Known, InStep, Follows, Expects, Stream!Position
  <2>3. CASE Leave(t)
    <3>1. NoCall \in Calls  BY DEF Calls
    <3>2. Alone' /\ OfCurrent' /\ Placed'
      BY <1>0, <2>1, <2>3, <3>1, Mover DEF Leave
    <3>. QED  BY <2>2, <3>2
  <2>4. CASE workerThread[current] # None /\ ~Alive(workerThread[current]) /\ Goto(t, "clear")
    <3>1. \A w \in Workers : ~Alive(w)  BY <2>4 DEF Known
    <3>2. call' = [call EXCEPT ![t] = Moved(call[t], "clear")] /\ Moved(call[t], "clear") \in Calls
      BY <2>4, GotoType
    <3>3. call[t].op # "start"  BY <1>2 DEF Placed, Join
    <3>. DEFINE c == Moved(call[t], "clear")
    <3>4. c.at = "clear" /\ c.source = current /\ c.op = call[t].op
      BY <1>0 DEF Moved
    <3>. HIDE DEF c
    <3>5. Alone' /\ OfCurrent' /\ Placed'
      BY <1>0, <2>1, <3>1, <3>2, <3>3, <3>4, Mover DEF c
    <3>. QED  BY <2>2, <3>5
  <2>. QED  BY <1>0, <1>2, <2>3, <2>4 DEF Join, Race
<1>3. CASE Clear(t)
  <2>1. \A w \in Workers : ~Alive(w)
    BY <1>3 DEF Clear, Placed
  <2>2. Known' /\ (Gone' \/ InStep')
    BY <1>0, <2>1 DEF Known, InStep, Follows
  <2>3. call' = [call EXCEPT ![t] = Moved(call[t], "stopped")] /\ Moved(call[t], "stopped") \in Calls
    BY <1>3, GotoType DEF Clear
  <2>4. call[t].op # "start"  BY <1>3 DEF Placed, Clear
  <2>5. workerThread'[current] = None  BY <1>0, <1>3 DEF Clear, TypeOK
  <2>. DEFINE c == Moved(call[t], "stopped")
  <2>6. c.at = "stopped" /\ c.source = current /\ c.op = call[t].op
    BY <1>0 DEF Moved
  <2>. HIDE DEF c
  <2>7. Alone' /\ OfCurrent' /\ Placed'
    BY <1>0, <2>3, <2>4, <2>5, <2>6, Mover DEF c
  <2>. QED  BY <2>2, <2>7
<1>. QED  BY <1>1, <1>2, <1>3

\* A thread that enters while nobody is in a call is the only one, and has not
\* done anything yet.
LEMMA EnterStep ==
  ASSUME TypeOK, Ordered, NEW t \in Threads, \A u \in Threads : Idle(u),
         NEW op \in {"read", "pause", "stop"}, NEW offset, Enter(t, op, current, offset),
         UNCHANGED << data, wire >>
  PROVE  Ordered'
<1>1. /\ \A u \in Threads : u # t => call'[u] = NoCall
      /\ call'[t] = [op |-> op, at |-> "check", source |-> current, offset |-> offset]
  BY DEF Enter, TypeOK
<1>2. Known' /\ (Gone' \/ InStep')
  BY DEF Ordered, Known, InStep, Follows, Expects, Stream!Position, data
<1>3. Alone' /\ OfCurrent'  BY <1>1 DEF Ordered, Alone, OfCurrent, data
<1>4. Placed'  BY <1>1 DEF Placed
<1>. QED  BY <1>2, <1>3, <1>4 DEF Ordered

\* The callers enter, answer, start a worker and leave only when none is alive.
LEMMA CallerStep ==
  ASSUME TypeOK, Ordered, ~raced',
         \/ StartMediaStreaming \/ StopMediaStreaming \/ Pause \/ AnswerRead
         \/ \E command \in Commands : HandleAVStreamCmd(command)
         \/ \E t \in Threads : SendFileStop(t)
         \/ \E w \in Workers : StartStreamingContents(w)
  PROVE  Ordered'
<1>. USE FileAssumption DEF Ordered
<1>1. CASE StartMediaStreaming
  <2>1. Quiet  BY <1>1 DEF StartMediaStreaming, Race
  <2>2. Quiet'  BY <1>1, <2>1 DEF StartMediaStreaming, Quiet
  <2>. QED
    BY <2>2 DEF Quiet, Alone, OfCurrent, Known, Placed, InStep, Follows
<1>2. CASE StopMediaStreaming
  <2>1. \A u \in Threads : Idle(u)  BY <1>2 DEF StopMediaStreaming, Race
  <2>. QED  BY <1>2, <2>1, EnterStep DEF StopMediaStreaming
<1>3. ASSUME NEW command \in Commands, HandleAVStreamCmd(command)  PROVE Ordered'
  <2>1. \A u \in Threads : Idle(u)  BY <1>3 DEF HandleAVStreamCmd, Race
  <2>2. command.cmd \in {"read", "pause", "stop"}  BY DEF Commands
  <2>. QED  BY <1>3, <2>1, <2>2, EnterStep DEF HandleAVStreamCmd
<1>4. ASSUME NEW t \in Threads, SendFileStop(t)  PROVE Ordered'
  <2>1. workerThread[current] = None /\ \A w \in Workers : ~Alive(w)
    BY <1>4 DEF SendFileStop, Stopped, Placed, Known
  <2>2. \A u \in Threads : call'[u] = NoCall
    BY <1>4 DEF Alone, SendFileStop, Stopped, Leave, TypeOK
  <2>3. worker' = worker  BY <1>4 DEF SendFileStop, data
  <2>. QED  BY <2>1, <2>2, <2>3 DEF Alone, OfCurrent, Known, Placed, InStep, Follows
<1>5. CASE Pause
  <2>1. \A u \in Threads : call'[u] = NoCall
    BY <1>5 DEF Alone, Pause, Stopped, Leave, TypeOK
  <2>2. UNCHANGED << data, wire >>  BY <1>5 DEF Pause
  <2>3. Alone' /\ OfCurrent' /\ Known' /\ Placed'
    BY <2>1, <2>2 DEF Alone, OfCurrent, Known, Placed, data
  <2>4. Gone' \/ InStep'
    BY <2>2 DEF InStep, Follows, Expects, Stream!Position, data
  <2>. QED  BY <2>3, <2>4
<1>6. CASE AnswerRead
  <2>1. workerThread[current] = None /\ \A w \in Workers : ~Alive(w)
    BY <1>6 DEF AnswerRead, Stopped, Placed, Known
  <2>2. call["receiver"].source = current
    BY <1>6 DEF AnswerRead, Stopped, OfCurrent
  <2>3. /\ call'["user"] = NoCall
        /\ call'["receiver"] = [op |-> "start", at |-> "check", source |-> current,
                                offset |-> call["receiver"].offset]
    BY <1>6, <2>2 DEF Alone, AnswerRead, Stopped, Enter, TypeOK
  <2>4. Gone' \/ wire' = Stream!Packet("answer", call["receiver"].offset)
    BY <1>6 DEF AnswerRead, Write
  <2>5. workerThread' = workerThread /\ worker' = worker /\ current' = current
    BY <1>6 DEF AnswerRead, data
  <2>6. Alone' /\ OfCurrent'
    BY <2>1, <2>3, <2>5 DEF Alone, OfCurrent
  <2>7. Known' /\ InStep'  BY <2>1, <2>5 DEF Known, InStep, Follows
  <2>8. Placed'  BY <2>1, <2>3, <2>4, <2>5 DEF Placed
  <2>. QED  BY <2>6, <2>7, <2>8
<1>7. ASSUME NEW w \in Workers, StartStreamingContents(w)  PROVE Ordered'
  <2>0. /\ call["receiver"].source = current /\ current \in Sources
        /\ workerThread[current] = None
        /\ Gone \/ wire = Stream!Packet("answer", call["receiver"].offset)
    BY <1>7 DEF StartStreamingContents, Launch, Stopped, OfCurrent, Placed, TypeOK
  <2>1. \A v \in Workers : ~Alive(v)  BY <2>0 DEF Known
  <2>2. /\ worker' = [worker EXCEPT
             ![w] = At("seek", current, call["receiver"].offset)]
        /\ workerThread' = [workerThread EXCEPT ![current] = w]
        /\ wire' = wire /\ current' = current
    BY <1>7, <2>0 DEF StartStreamingContents, Launch, At
  <2>3. \A v \in Workers : v # w => worker'[v] = worker[v]
    BY <2>2 DEF TypeOK
  <2>4. worker'[w] = At("seek", current, call["receiver"].offset) /\ workerThread'[current] = w
    BY <2>0, <2>2 DEF TypeOK
  <2>5. \A u \in Threads : call'[u] = NoCall
    BY <1>7 DEF Alone, StartStreamingContents, Launch, Stopped, Leave, TypeOK
  <2>6. Known' /\ Alone' /\ OfCurrent' /\ Placed'
    BY <2>1, <2>2, <2>3, <2>4, <2>5 DEF Known, Alone, OfCurrent, Placed, At
  <2>7. Gone' \/ InStep'
    BY <2>0, <2>1, <2>2, <2>3, <2>4 DEF InStep, Follows, At
  <2>. QED  BY <2>6, <2>7
<1>. QED  BY <1>1, <1>2, <1>3, <1>4, <1>5, <1>6, <1>7

\* Where a worker is after each of its steps.
LEMMA AtStep ==
  ASSUME TypeOK, NEW w \in Workers
  PROVE  LET s == worker[w].source
         IN  /\ Seek(w) => worker'[w] = At("read", s, 0)
             /\ Read(w) => worker'[w] = At("send", s, position[s])
             /\ ReadFails(w) => worker'[w] = Dead("failed")
             /\ SendContents(w) \/ SendEof(w) => worker'[w] = At("loop", s, 0)
             /\ Loop(w) => worker'[w] = IF shouldRead[s] THEN At("read", s, 0)
                                        ELSE Dead("ended")
<1>. USE DEF TypeOK
<1>1. ASSUME NEW at \in {"read", "loop"}, Advance(w, at)
      PROVE  worker'[w] = At(at, worker[w].source, 0)
  BY <1>1, AdvanceType
<1>2. Seek(w) => worker'[w] = At("read", worker[w].source, 0)  BY <1>1 DEF Seek
<1>3. Read(w) => worker'[w] = At("send", worker[w].source, position[worker[w].source])
  BY ReadType
<1>4. ReadFails(w) => worker'[w] = Dead("failed")  BY DEF ReadFails
<1>5. SendContents(w) \/ SendEof(w) => worker'[w] = At("loop", worker[w].source, 0)
  BY <1>1 DEF SendContents, SendEof
<1>6. Loop(w) => worker'[w] = IF shouldRead[worker[w].source]
                              THEN At("read", worker[w].source, 0) ELSE Dead("ended")
  BY <1>1 DEF Loop
<1>. QED  BY <1>2, <1>3, <1>4, <1>5, <1>6

\* A worker keeps its source until it ends.
LEMMA SourceStep ==
  ASSUME TypeOK, NEW w \in Workers
  PROVE  /\ Seek(w) => worker'[w].source = worker[w].source
         /\ Read(w) => worker'[w].source = worker[w].source
         /\ SendContents(w) \/ SendEof(w) => worker'[w].source = worker[w].source
         /\ Loop(w) /\ shouldRead[worker[w].source] =>
              worker'[w].source = worker[w].source
         /\ Loop(w) /\ ~shouldRead[worker[w].source] => worker'[w].at = "ended"
         /\ ReadFails(w) => worker'[w].at = "failed"
<1>1. ASSUME Seek(w)  PROVE worker'[w].source = worker[w].source
  <2>1. worker'[w] = At("read", worker[w].source, 0)  BY <1>1, AtStep
  <2>. QED  BY <2>1
<1>2. ASSUME Read(w)  PROVE worker'[w].source = worker[w].source
  <2>1. worker'[w] = At("send", worker[w].source, position[worker[w].source])
    BY <1>2, AtStep
  <2>. QED  BY <2>1
<1>3. ASSUME SendContents(w) \/ SendEof(w)  PROVE worker'[w].source = worker[w].source
  <2>1. worker'[w] = At("loop", worker[w].source, 0)  BY <1>3, AtStep
  <2>. QED  BY <2>1
<1>4. ASSUME Loop(w), shouldRead[worker[w].source]
      PROVE  worker'[w].source = worker[w].source
  <2>1. worker'[w] = At("read", worker[w].source, 0)  BY <1>4, AtStep
  <2>. QED  BY <2>1
<1>5. ASSUME Loop(w), ~shouldRead[worker[w].source]  PROVE worker'[w].at = "ended"
  <2>1. worker'[w] = Dead("ended")  BY <1>5, AtStep
  <2>. QED  BY <2>1
<1>6. ASSUME ReadFails(w)  PROVE worker'[w].at = "failed"
  <2>1. worker'[w] = Dead("failed")  BY <1>6, AtStep
  <2>. QED  BY <2>1
<1>. QED  BY <1>1, <1>2, <1>3, <1>4, <1>5, <1>6

\* A worker's step leaves the calls alone, and its own next one fits the wire.
LEMMA WorkerStep ==
  ASSUME TypeOK, Ordered, NEW w \in Workers,
         \/ Seek(w) \/ Read(w) \/ ReadFails(w) \/ SendContents(w) \/ SendEof(w) \/ Loop(w)
  PROVE  Ordered'
<1>. USE FileAssumption DEF Ordered
<1>0. /\ Alive(w) /\ call' = call /\ workerThread' = workerThread /\ current' = current
      /\ workerThread[current] = w /\ worker[w].source = current /\ current \in Sources
  BY DEF Seek, Read, ReadFails, SendContents, SendEof, Loop, Known, OfCurrent, TypeOK
<1>1. \A v \in Workers : v # w => ~Alive(v)  BY <1>0 DEF Known
<1>2. \A v \in Workers : v # w => worker'[v] = worker[v]
  BY DEF Seek, Read, ReadFails, SendContents, SendEof, Loop, Advance, TypeOK
<1>3. Known' /\ Alone'  BY <1>0, <1>1, <1>2 DEF Known, Alone
<1>4. Placed'
  <2>1. ASSUME NEW t \in Threads
        PROVE  ~(call[t].at = "clear" \/ call[t].at = "stopped" \/ call[t].op = "start")
    BY <1>0, FileAssumption DEF Placed, TypeOK
  <2>. QED  BY <1>0, <2>1 DEF Placed
<1>5. OfCurrent'
  <2>1. CASE ReadFails(w) \/ (Loop(w) /\ ~shouldRead[current])
    <3>1. worker'[w].at \in {"ended", "failed"}  BY <1>0, <2>1, SourceStep
    <3>. QED  BY <1>0, <1>1, <1>2, <3>1 DEF OfCurrent
  <2>2. CASE \/ Seek(w) \/ Read(w) \/ SendContents(w) \/ SendEof(w)
             \/ (Loop(w) /\ shouldRead[current])
    <3>1. worker'[w].source = current  BY <1>0, <2>2, SourceStep
    <3>. QED  BY <1>0, <1>1, <1>2, <3>1 DEF OfCurrent
  <2>. QED  BY <2>1, <2>2
<1>6. ASSUME ~Gone  PROVE InStep'
  <2>. InStep  BY <1>6
  <2>o. SUFFICES Follows(w)'
    BY <1>1, <1>2 DEF InStep, Follows
  <2>. USE DEF Follows, At
  <2>a. CASE Seek(w)
    <3>0. worker'[w] = At("read", current, 0)  BY <1>0, <2>a, AtStep
    <3>1. wire' = wire /\ position'[current] = worker[w].block
      BY <1>0, <2>a DEF Seek, TypeOK
    <3>2. wire = Stream!Packet("answer", worker[w].block)
      BY <2>a DEF Seek, InStep
    <3>. QED  BY <3>0, <3>1, <3>2 DEF Expects, Stream!Position, Stream!Packet
  <2>b. CASE Read(w)
    <3>0. worker'[w] = At("send", current, position[current])  BY <1>0, <2>b, AtStep
    <3>1. /\ wire' = wire
          /\ position'[current] = IF position[current] < Length THEN position[current] + 1
                                  ELSE position[current]
      BY <1>0, <2>b DEF Read, TypeOK
    <3>2. Expects(position[current])  BY <1>0, <2>b DEF Read, InStep
    <3>. QED  BY <3>0, <3>1, <3>2 DEF Expects, Stream!Position
  <2>c. CASE ReadFails(w)
    <3>1. worker'[w].at = "failed"  BY <2>c, SourceStep
    <3>. QED  BY <3>1
  <2>d. CASE SendContents(w)
    <3>1. worker'[w] = At("loop", current, 0)
      BY <1>0, <2>d, AtStep
    <3>2. position' = position /\ wire' = Stream!Packet("contents", worker[w].block)
      BY <1>6, <2>d DEF SendContents, Write
    <3>3. position[current] = worker[w].block + 1  BY <1>0, <2>d DEF SendContents, InStep
    <3>. QED  BY <3>1, <3>2, <3>3 DEF Expects, Stream!Position, Stream!Packet
  <2>e. CASE SendEof(w)
    <3>1. worker'[w] = At("loop", current, 0)  BY <1>0, <2>e, AtStep
    <3>2. ~shouldRead'[current]  BY <1>0, <2>e DEF SendEof, TypeOK
    <3>. QED  BY <3>1, <3>2
  <2>f. CASE Loop(w)
    <3>1. wire' = wire /\ position' = position /\ shouldRead' = shouldRead
      BY <2>f DEF Loop
    <3>2. CASE shouldRead[current]
      <4>1. worker'[w] = At("read", current, 0)
        BY <1>0, <2>f, <3>2, AtStep
      <4>2. Expects(position[current])  BY <1>0, <2>f, <3>2 DEF Loop, InStep
      <4>. QED  BY <3>1, <4>1, <4>2 DEF Expects, Stream!Position
    <3>3. CASE ~shouldRead[current]
      <4>1. worker'[w].at = "ended"  BY <1>0, <2>f, <3>3, SourceStep
      <4>. QED  BY <4>1
    <3>. QED  BY <3>2, <3>3
  <2>. QED  BY <2>a, <2>b, <2>c, <2>d, <2>e, <2>f
<1>7. Gone => Gone'
  BY DEF Seek, Read, ReadFails, SendContents, SendEof, Loop, Write
<1>. QED  BY <1>3, <1>4, <1>5, <1>6, <1>7

LEMMA FileStep ==
  ASSUME FileInv, [Next]_vars
  PROVE  FileInv'
<1>1. TypeOK'  BY TypeStep DEF FileInv
<1>. SUFFICES ASSUME ~raced' PROVE Ordered'  BY <1>1 DEF FileInv
<1>2. TypeOK /\ Ordered  BY OrderedBefore DEF FileInv
<1>3. CASE Break
  <2>1. Gone'  BY <1>3 DEF Break, Stream!Packet
  <2>2. call' = call /\ UNCHANGED data  BY <1>3 DEF Break
  <2>. QED
    BY <1>2, <2>1, <2>2 DEF Ordered, Alone, OfCurrent, Known, Placed, data
<1>4. CASE UNCHANGED vars
  <2>1. Alone' /\ OfCurrent' /\ Known' /\ Placed'
    BY <1>2, <1>4 DEF Ordered, Alone, OfCurrent, Known, Placed, vars, data
  <2>2. Gone' \/ InStep'
    BY <1>2, <1>4 DEF Ordered, InStep, Follows, Expects, Stream!Position, vars, data
  <2>. QED  BY <2>1, <2>2 DEF Ordered
<1>. QED  BY <1>2, <1>3, <1>4, StopStep, CallerStep, WorkerStep DEF Next

LEMMA FileInvariant == Spec => []FileInv
<1>1. Init => FileInv
  <2>. SUFFICES ASSUME Init PROVE FileInv  OBVIOUS
  <2>1. TypeOK  BY InitType
  <2>2. Quiet  BY DEF Init, Quiet
  <2>. QED  BY <2>1, <2>2, QuietIsOrdered DEF FileInv
<1>2. FileInv /\ [Next]_vars => FileInv'  BY FileStep
<1>. QED  BY <1>1, <1>2, PTL DEF Spec

\* Outside races no worker is lost, for any number of them.
THEOREM NoLostWorkerHolds == Spec => []NoLostWorker
<1>1. FileInv => NoLostWorker  BY DEF FileInv, Ordered, Known, NoLostWorker
<1>. QED  BY <1>1, FileInvariant, PTL

\* Outside races the packets of every run are a FileStream: a file of any length
\* reaches the device in order from the offset it asked for.
THEOREM Refinement == Spec => ImplementsFileStream
<1>1. Init => Stream!Init  BY DEF Init, Stream!Init
<1>2. ASSUME FileInv, [Next]_vars  PROVE [raced \/ Stream!Next]_wire
  <2>. SUFFICES ASSUME ~raced PROVE [Stream!Next]_wire  OBVIOUS
  <2>. USE DEF Stream!Next
  <2>0. TypeOK /\ Ordered  BY <1>2 DEF FileInv
  <2>a. ASSUME NEW t \in Threads, SendFileStop(t)  PROVE [Stream!Next]_wire
    BY <2>a DEF SendFileStop, Write, Stream!Stop
  <2>b. CASE AnswerRead
    <3>1. call["receiver"].offset \in 0..Length  BY <2>0 DEF TypeOK
    <3>. QED  BY <2>b, <3>1 DEF AnswerRead, Write, Stream!Answer
  <2>c. ASSUME NEW w \in Workers, SendContents(w)  PROVE [Stream!Next]_wire
    <3>1. CASE Gone
      BY <2>c, <3>1 DEF SendContents, Write
    <3>2. CASE ~Gone
      <4>1. Expects(worker[w].block) /\ worker[w].block < Length
        BY <2>0, <2>c, <3>2 DEF SendContents, Ordered, InStep, Follows
      <4>2. wire' = Stream!Packet("contents", worker[w].block)
        BY <2>c, <3>2 DEF SendContents, Write
      <4>. QED  BY <3>2, <4>1, <4>2 DEF Expects, Stream!Contents, Stream!Streaming
    <3>. QED  BY <3>1, <3>2
  <2>d. ASSUME NEW w \in Workers, SendEof(w)  PROVE [Stream!Next]_wire
    <3>1. CASE Gone
      BY <2>d, <3>1 DEF SendEof, Write
    <3>2. CASE ~Gone
      <4>1. Expects(Length)
        BY <2>0, <2>d, <3>2 DEF SendEof, Ordered, InStep, Follows
      <4>2. wire' = Stream!Packet("eof", Length)
        BY <2>d, <3>2 DEF SendEof, Write
      <4>. QED  BY <3>2, <4>1, <4>2 DEF Expects, Stream!Eof, Stream!Streaming
    <3>. QED  BY <3>1, <3>2
  <2>e. CASE StartMediaStreaming
    BY <2>e DEF StartMediaStreaming, Write, Stream!Start
  <2>f. CASE Break
    BY <2>f DEF Break, Stream!Break
  <2>g. CASE UNCHANGED wire
    BY <2>g
  <2>. QED
    BY <1>2, <2>a, <2>b, <2>c, <2>d, <2>e, <2>f, <2>g
    DEF Next, vars, StopMediaStreaming, HandleAVStreamCmd, StopCheck, Join, Clear, Pause,
        StartStreamingContents, Launch, Seek, Read, ReadFails, Loop
<1>. QED
  BY <1>1, <1>2, FileInvariant, PTL DEF Spec, ImplementsFileStream
=============================================================================
