--------------------------- MODULE FileStreaming ---------------------------
(***************************************************************************)
(* A pigeon client (ClientV2) plays a file on the device: the device asks  *)
(* for an offset, and a worker thread of the data source                   *)
(* (MediaStreamingFileBaseDataSource) sends blocks from there until it is  *)
(* told to stop or the file ends.                                          *)
(*                                                                         *)
(* Three kinds of thread meet in the data source: the receiving thread of  *)
(* the client, which handles the device's commands one at a time, the      *)
(* user's thread in stopMediaStreaming, and the worker.  The first two     *)
(* stop a worker by clearing shouldReadFile and joining it; nothing in the *)
(* data source is synchronized.  The user may play another file at any     *)
(* time: a new data source takes the place of the current one, whose       *)
(* worker is not stopped.                                                  *)
(***************************************************************************)
EXTENDS Integers

CONSTANTS
  Length,      \* blocks of a file; a block is one read of the worker
  Workers,     \* how many worker threads may be alive at once
  MaxSources,  \* how many files the user plays
  MaxRaces,    \* how often a thread may come in between another's steps
  None

ASSUME FileAssumption ==
  /\ Length \in Nat /\ MaxSources \in Nat /\ MaxRaces \in Nat
  /\ None \notin Workers

VARIABLES
  call,         \* where each thread is in a handler or in stopMediaStreaming
  current,      \* currentDataSource, which counts up; 0 is null
  shouldRead,   \* shouldReadFile of each data source
  workerThread, \* of each data source
  worker,       \* each worker thread: where it is, its source, and the block it
                \* is to seek to or has read
  position,     \* of the file of each data source, which all its workers share
  wire,         \* the packet written to the device last, or that the connection
                \* is gone
  raced,        \* whether one thread came in between another's steps, see Quiet
  races         \* how often that happened

data == << current, shouldRead, workerThread, worker, position >>
ghosts == << raced, races >>
vars == << call, data, wire, ghosts >>

\* What a stream of packets to the device has to be.
Stream == INSTANCE FileStream

Threads == {"receiver", "user"}
Commands == [cmd : {"read"}, offset : 0..Length+1]
            \cup [cmd : {"pause", "stop"}, offset : {0}]
Sources == 0..MaxSources
NoCall == [op |-> "none", at |-> "idle", source |-> 0, offset |-> 0]
Idle(t) == call[t] = NoCall
At(at, source, block) == [at |-> at, source |-> source, block |-> block]
Dead(at) == At(at, 0, 0)
Alive(w) == worker[w].at \notin {"ended", "failed"}

Init ==
  /\ call = [t \in Threads |-> NoCall]
  /\ current = 0
  /\ shouldRead = [s \in Sources |-> FALSE]
  /\ workerThread = [s \in Sources |-> None]
  /\ worker = [w \in Workers |-> Dead("ended")]
  /\ position = [s \in Sources |-> 0]
  /\ wire = Stream!Packet("none", 0)
  /\ raced = FALSE
  /\ races = 0

-----------------------------------------------------------------------------
(* The connection to the device.                                           *)

Gone == wire.kind = "gone"

\* The socket is never opened again: createSocketToServer returns the old one.
Break ==
  /\ ~Gone
  /\ wire' = Stream!Packet("gone", 0)
  /\ UNCHANGED << call, data, ghosts >>

\* sendDataToRemote reports an exception and returns.
Write(packet) == wire' = IF Gone THEN wire ELSE packet

-----------------------------------------------------------------------------
(* Calls: a command that is read, or the user's stop.  Nothing keeps one   *)
(* from entering while the other is in a call, or plays another file.      *)

Enter(t, op, source, offset) ==
  call' = [call EXCEPT
    ![t] = [op |-> op, at |-> "check", source |-> source, offset |-> offset]]

Leave(t) == call' = [call EXCEPT ![t] = NoCall]

\* A race is over when what comes in next finds nobody in a call and no worker.
Quiet == (\A t \in Threads : Idle(t)) /\ (\A w \in Workers : ~Alive(w))
Race(overlap) ==
  /\ overlap => races < MaxRaces
  /\ races' = IF overlap THEN races + 1 ELSE races
  /\ raced' = (overlap \/ (raced /\ ~Quiet))

\* startMediaStreaming with a file.  A current data source is replaced, and told
\* nothing.
StartMediaStreaming ==
  /\ Idle("user") /\ current < MaxSources
  /\ current' = current + 1
  /\ Write(Stream!Packet("start", 0))
  /\ Race(~Quiet)
  /\ UNCHANGED << call, shouldRead, workerThread, worker, position >>

StopMediaStreaming ==
  /\ Idle("user") /\ current # 0
  /\ Enter("user", "stop", current, 0)
  /\ Race(~Idle("receiver"))
  /\ UNCHANGED << data, wire >>

\* Mutant: the offset is not tested.
IgnoredUnlessStarted(command) == current = 0 /\ command.cmd # "stop"

\* handleAVStreamCmd.  A command without a data source, or for an offset behind
\* the end of the file, is ignored; only a stop is always answered.
Ignored(command) ==
  \/ current = 0 /\ command.cmd # "stop"
  \/ command.offset > Length

HandleAVStreamCmd(command) ==
  /\ Idle("receiver") /\ ~Ignored(command)
  /\ Enter("receiver", command.cmd, current, command.offset)
  /\ Race(~Idle("user"))
  /\ UNCHANGED << data, wire >>

-----------------------------------------------------------------------------
(* stopWorkerThread, by either thread.                                     *)

Goto(t, at) == call' = [call EXCEPT ![t].at = at]

\* Mutant: a worker at the end of the file is taken for stopped.
StopCheckFlag(t) ==
  LET s == call[t].source IN
  /\ call[t].at = "check"
  /\ IF workerThread[s] = None \/ ~shouldRead[s]
     THEN Goto(t, "stopped") /\ UNCHANGED shouldRead
     ELSE Goto(t, "join") /\ shouldRead' = [shouldRead EXCEPT ![s] = FALSE]
  /\ UNCHANGED << current, workerThread, worker, position, wire, ghosts >>

StopCheck(t) ==
  LET s == call[t].source IN
  /\ call[t].at = "check"
  /\ IF workerThread[s] = None
     THEN Goto(t, "stopped") /\ UNCHANGED shouldRead
     ELSE Goto(t, "join") /\ shouldRead' = [shouldRead EXCEPT ![s] = FALSE]
  /\ UNCHANGED << current, workerThread, worker, position, wire, ghosts >>

\* Mutant: a worker that was told to stop is not waited for.
DoNotJoin(t) ==
  /\ call[t].at = "join"
  /\ Goto(t, "clear")
  /\ UNCHANGED << data, wire, ghosts >>

\* If the other thread has cleared workerThread, this one ends in a
\* NullPointerException.  An interrupt ends the wait for a worker that runs on.
Join(t) ==
  LET w == workerThread[call[t].source] IN
  /\ call[t].at = "join"
  /\ \/ w = None /\ Leave(t) /\ UNCHANGED ghosts
     \/ w # None /\ ~Alive(w) /\ Goto(t, "clear") /\ UNCHANGED ghosts
     \/ w # None /\ Alive(w) /\ Goto(t, "clear") /\ Race(TRUE)
  /\ UNCHANGED << data, wire >>

Clear(t) ==
  /\ call[t].at = "clear"
  /\ workerThread' = [workerThread EXCEPT ![call[t].source] = None]
  /\ Goto(t, "stopped")
  /\ UNCHANGED << current, shouldRead, worker, position, wire, ghosts >>

-----------------------------------------------------------------------------
(* What the callers do when the worker has stopped.                        *)

Stopped(t, op) == call[t].at = "stopped" /\ call[t].op = op

\* handleFilePause.
Pause ==
  /\ Stopped("receiver", "pause")
  /\ Leave("receiver")
  /\ UNCHANGED << data, wire, ghosts >>

\* handleFileStop and stopMediaStreaming.
SendFileStop(t) ==
  /\ Stopped(t, "stop")
  /\ Write(Stream!Packet("stop", 0))
  /\ Leave(t)
  /\ UNCHANGED << data, ghosts >>

\* responseFileRead; startStreamingContents then stops the worker once more.
AnswerRead ==
  LET c == call["receiver"] IN
  /\ Stopped("receiver", "read")
  /\ Write(Stream!Packet("answer", c.offset))
  /\ Enter("receiver", "start", c.source, c.offset)
  /\ UNCHANGED << data, ghosts >>

\* A thread that is not started, or has ended and is not looked at any more.
Free(w) ==
  /\ ~Alive(w) /\ workerThread[current] # w
  /\ \A t \in Threads : workerThread[call[t].source] # w

\* The new worker, with the flag as given.
Launch(w, flag) ==
  LET c == call["receiver"] IN
  /\ Stopped("receiver", "start") /\ Free(w)
  /\ shouldRead' = [shouldRead EXCEPT ![c.source] = flag]
  /\ workerThread' = [workerThread EXCEPT ![c.source] = w]
  /\ worker' = [worker EXCEPT ![w] = At("seek", c.source, c.offset)]
  /\ Leave("receiver")
  /\ UNCHANGED << current, position, wire, ghosts >>

\* Mutant: the flag is left as stopWorkerThread set it.
StartWithoutFlag(w) == Launch(w, shouldRead[call["receiver"].source])

StartStreamingContents(w) == Launch(w, TRUE)

-----------------------------------------------------------------------------
(* The worker.                                                             *)

Advance(w, at) == worker' = [worker EXCEPT ![w] = At(at, @.source, 0)]

Seek(w) ==
  /\ worker[w].at = "seek"
  /\ position' = [position EXCEPT ![worker[w].source] = worker[w].block]
  /\ Advance(w, "read")
  /\ UNCHANGED << call, current, shouldRead, workerThread, wire, ghosts >>

\* A block of Length stands for the end of the file.
Read(w) ==
  LET s == worker[w].source IN
  /\ worker[w].at = "read"
  /\ worker' = [worker EXCEPT ![w] = At("send", s, position[s])]
  /\ position' = [position EXCEPT ![s] = IF @ < Length THEN @ + 1 ELSE @]
  /\ UNCHANGED << call, current, shouldRead, workerThread, wire, ghosts >>

\* An IOException of the file ends the worker; nobody is told.
ReadFails(w) ==
  /\ worker[w].at \in {"seek", "read"}
  /\ worker' = [worker EXCEPT ![w] = Dead("failed")]
  /\ UNCHANGED << call, current, shouldRead, workerThread, position, wire, ghosts >>

SendContents(w) ==
  /\ worker[w].at = "send" /\ worker[w].block < Length
  /\ Write(Stream!Packet("contents", worker[w].block))
  /\ Advance(w, "loop")
  /\ UNCHANGED << call, current, shouldRead, workerThread, position, ghosts >>

\* sendEofPacket, and the end of the loop.
SendEof(w) ==
  /\ worker[w].at = "send" /\ worker[w].block = Length
  /\ Write(Stream!Packet("eof", Length))
  /\ shouldRead' = [shouldRead EXCEPT ![worker[w].source] = FALSE]
  /\ Advance(w, "loop")
  /\ UNCHANGED << call, current, workerThread, position, ghosts >>

Loop(w) ==
  /\ worker[w].at = "loop"
  /\ IF shouldRead[worker[w].source] THEN Advance(w, "read")
     ELSE worker' = [worker EXCEPT ![w] = Dead("ended")]
  /\ UNCHANGED << call, current, shouldRead, workerThread, position, wire, ghosts >>

Next ==
  \/ Break \/ StartMediaStreaming \/ StopMediaStreaming
  \/ \E command \in Commands : HandleAVStreamCmd(command)
  \/ \E t \in Threads : StopCheck(t) \/ Join(t) \/ Clear(t) \/ SendFileStop(t)
  \/ Pause \/ AnswerRead
  \/ \E w \in Workers :
       \/ StartStreamingContents(w)
       \/ Seek(w) \/ Read(w) \/ ReadFails(w)
       \/ SendContents(w) \/ SendEof(w) \/ Loop(w)

Spec == Init /\ [][Next]_vars

\* Threads run.  Nobody has to ask, stop or fail, nor the file to be readable.
Fairness ==
  /\ \A t \in Threads :
       WF_vars(StopCheck(t)) /\ WF_vars(Join(t)) /\ WF_vars(Clear(t))
       /\ WF_vars(SendFileStop(t))
  /\ WF_vars(Pause) /\ WF_vars(AnswerRead)
  /\ WF_vars(\E w \in Workers : StartStreamingContents(w))
  /\ \A w \in Workers :
       WF_vars(Seek(w) \/ Read(w) \/ SendContents(w) \/ SendEof(w) \/ Loop(w))

FairSpec == Spec /\ Fairness
-----------------------------------------------------------------------------
TypeOK ==
  /\ call \in [Threads ->
       [op : {"none", "read", "start", "pause", "stop"},
        at : {"idle", "check", "join", "clear", "stopped"},
        source : Sources, offset : 0..Length]]
  /\ current \in Sources
  /\ shouldRead \in [Sources -> BOOLEAN]
  /\ workerThread \in [Sources -> Workers \cup {None}]
  /\ worker \in [Workers ->
       [at : {"seek", "read", "send", "loop", "ended", "failed"},
        source : Sources, block : 0..Length]]
  /\ position \in [Sources -> 0..Length]
  /\ wire \in Stream!Packets
  /\ raced \in BOOLEAN /\ races \in 0..MaxRaces

\* The device gets what it asked for last, block by block: no contents of the
\* previous offset arrive behind the answer of a new one, no block is repeated
\* or left out, and nothing follows a stop, although the worker runs, and ends,
\* beside the threads that stop and start it.  It holds outside races: the user's
\* stop and a command of the device in each other's steps, a data source replaced
\* while its worker or a command is busy, and a join that is interrupted.  From one
\* of these on, until no worker runs and nobody is in a call, the code sends what
\* comes.
ImplementsFileStream == Stream!Init /\ [][raced \/ Stream!Next]_wire

\* Outside races no worker runs that nobody can stop any more: stops and commands
\* go to the current data source, and to the worker its workerThread names.
NoLostWorker == raced \/ \A w \in Workers : Alive(w) => workerThread[current] = w

\* A device that asks and then listens gets the file to its end, unless the
\* connection or the file fails, the user stops, or threads race.
FileIsCompleted ==
  call["receiver"].op = "start" ~>
    \/ wire.kind \in {"eof", "stop", "gone"} \/ raced
    \/ call["receiver"].op \in {"read", "pause", "stop"}
    \/ \E w \in Workers : worker[w].at = "failed"
=============================================================================
