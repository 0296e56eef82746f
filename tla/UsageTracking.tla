---------------------------- MODULE UsageTracking ----------------------------
(***************************************************************************)
(* Usage records of an app (ActionsTracker): each is saved to a file of    *)
(* its own, and after a delay all files are put together, deleted, saved   *)
(* again as one file, and sent to the cloud.  The answer decides what is   *)
(* saved again for another try.                                            *)
(*                                                                         *)
(* Saving and sending run on one executor thread; the answers are handled  *)
(* on the HTTP client's thread, and the process may die at any time.       *)
(* Files outlive it, everything else does not.  Writing and reading files  *)
(* may fail, and an answer may be malformed: the code goes on all the      *)
(* same.  What such a mishap does is kept in variables of its own, which   *)
(* only the properties read.                                               *)
(***************************************************************************)
EXTENDS Integers, Sequences

CONSTANTS
  Records,      \* what the app logs
  Files,        \* names of files: random UUIDs, so a name is never used twice
  MaxCrashes,   \* how often the process may die
  MaxFaults,    \* how often a file or an answer may be faulty, or an answer late
  NoFile

ASSUME TrackingAssumption ==
  /\ MaxCrashes \in Nat /\ MaxFaults \in Nat
  /\ NoFile \notin Files

VARIABLES
  logged,     \* the records the app has logged
  tasks,      \* the queue of the executor
  held,       \* scheduledUpload # null
  timer,      \* whether an upload waits for its delay
  at,         \* where the executor thread is
  batch,      \* the records it has in its hands
  file,       \* the file it writes
  left,       \* the files consolidatePendingLogsFromFiles has still to read
  files,      \* the files there are, and what each holds; {} if it is not readable
  requests,   \* the requests without an answer, or with one half processed
  answered,   \* the records the cloud has taken, or refused for good
  lost,       \* the records a dying process had only in memory
  crashes,
  damaged,    \* the records a faulty file or a malformed answer has touched
  mishaps,    \* what has gone wrong so far
  faults      \* the number of faulty files and answers, and of late ones

schedule == << held, timer >>
thread == << at, batch, file, left >>
cloud == << requests, answered >>
harm == << damaged, mishaps, faults >>
vars == << logged, tasks, schedule, thread, files, cloud, lost, crashes, harm >>

Save(records) == [task |-> "save", records |-> records]
Upload == [task |-> "upload", records |-> {}]
Tasks == [task : {"save"}, records : SUBSET Records] \cup {Upload}
Requests == [file : Files, records : SUBSET Records, open : SUBSET Records,
             state : {"sent", "results"}]

Pending == DOMAIN files
Stored == UNION {files[f] : f \in Pending}
Queued == UNION {tasks[i].records : i \in DOMAIN tasks}
Put(f, records) ==
  files' = [g \in Pending \cup {f} |-> IF g = f THEN records ELSE files[g]]

Delete(f) == files' = [g \in Pending \ {f} |-> files[g]]

Unused == {f \in Files \ Pending : \A q \in requests : q.file # f}

Init ==
  /\ logged = {}
  /\ tasks = << >>
  /\ held = FALSE /\ timer = FALSE
  /\ at = "idle" /\ batch = {} /\ file = NoFile /\ left = {}
  /\ files = [f \in {} |-> {}]
  /\ requests = {} /\ answered = {}
  /\ lost = {}
  /\ crashes = 0
  /\ damaged = {} /\ mishaps = {} /\ faults = 0

\* A file or an answer is faulty, and with it the records.
Mishap(kind, records) ==
  /\ faults < MaxFaults
  /\ faults' = faults + 1
  /\ mishaps' = mishaps \cup {kind}
  /\ damaged' = damaged \cup records

-----------------------------------------------------------------------------
(* Scheduling.                                                             *)

ScheduleUploadIfNoOneScheduled ==
  /\ held' = TRUE
  /\ timer' = (timer \/ ~held)

\* An upload is due a minute after it was scheduled.  The HTTP client gives up
\* a request without an answer after 10 s; an answer that takes longer is late.
Due ==
  /\ timer
  /\ timer' = FALSE
  /\ tasks' = Append(tasks, Upload)
  /\ IF requests = {} THEN UNCHANGED harm ELSE Mishap("late", {})
  /\ UNCHANGED << logged, held, thread, files, cloud, lost, crashes >>

Log(r) ==
  /\ r \notin logged
  /\ logged' = logged \cup {r}
  /\ tasks' = Append(tasks, Save({r}))
  /\ UNCHANGED << schedule, thread, files, cloud, lost, crashes, harm >>

-----------------------------------------------------------------------------
(* The executor thread: SaveLog.                                           *)

Begin(task) ==
  /\ at = "idle" /\ tasks # << >> /\ Head(tasks).task = task
  /\ tasks' = Tail(tasks)

SaveLog ==
  /\ Begin("save")
  /\ at' = "create" /\ batch' = Head(tasks).records
  /\ UNCHANGED << logged, schedule, file, left, files, cloud, lost, crashes, harm >>

\* saveLogToFile, for a record ("create", "write") and for the data that are
\* about to be uploaded ("backup", "fill").
CreateFile(f) ==
  /\ at \in {"create", "backup"} /\ f \in Unused
  /\ at' = IF at = "create" THEN "write" ELSE "fill"
  /\ file' = f
  /\ Put(f, {})
  /\ UNCHANGED << logged, tasks, schedule, batch, left, cloud, lost, crashes, harm >>

WriteLog ==
  /\ at = "write"
  /\ Put(file, batch)
  /\ at' = "idle" /\ batch' = {} /\ file' = NoFile
  /\ ScheduleUploadIfNoOneScheduled
  /\ UNCHANGED << logged, tasks, left, cloud, lost, crashes, harm >>

\* saveLogToFile swallows an IOException: the record is not in a file, or the
\* file is not readable, and an upload is scheduled all the same.
WriteFails ==
  /\ at \in {"create", "write"}
  /\ Mishap("write", batch)
  /\ at' = "idle" /\ batch' = {} /\ file' = NoFile
  /\ ScheduleUploadIfNoOneScheduled
  /\ UNCHANGED << logged, tasks, left, files, cloud, lost, crashes >>

-----------------------------------------------------------------------------
(* The executor thread: UploadLog.                                         *)

UploadLog ==
  /\ Begin("upload")
  /\ left' = Pending
  /\ at' = IF Pending = {} THEN "idle" ELSE "read"
  /\ UNCHANGED << logged, schedule, batch, file, files, cloud, lost, crashes, harm >>

\* Mutant: a list of records in a file becomes one entry of the new list.
ReadAndNest(f) ==
  /\ at = "read" /\ f \in left
  /\ batch' = batch \cup {IF f \in Pending THEN files[f] ELSE {}}
  /\ Delete(f)
  /\ left' = left \ {f}
  /\ UNCHANGED << logged, tasks, schedule, at, file, cloud, lost, crashes, harm >>

\* consolidatePendingLogsFromFiles.  A file the answer to an earlier request
\* has deleted meanwhile reads as empty.
ReadAndDelete(f) ==
  /\ at = "read" /\ f \in left
  /\ batch' = batch \cup (IF f \in Pending THEN files[f] ELSE {})
  /\ Delete(f)
  /\ left' = left \ {f}
  /\ UNCHANGED << logged, tasks, schedule, at, file, cloud, lost, crashes, harm >>

\* A file that cannot be read or parsed adds nothing, and is deleted like any.
ReadFails(f) ==
  /\ at = "read" /\ f \in left \cap Pending
  /\ Mishap("read", files[f])
  /\ Delete(f)
  /\ left' = left \ {f}
  /\ UNCHANGED << logged, tasks, schedule, at, batch, file, cloud, lost, crashes >>

\* Mutant: others may not schedule another upload.
ConsolidatedAndHeld ==
  /\ at = "read" /\ left = {}
  /\ at' = IF batch = {} THEN "idle" ELSE "backup"
  /\ UNCHANGED << logged, tasks, schedule, batch, file, left, files, cloud, lost, crashes, harm >>

Consolidated ==
  /\ at = "read" /\ left = {}
  /\ IF batch = {} THEN at' = "idle" /\ UNCHANGED held
     ELSE at' = "backup" /\ held' = FALSE
  /\ UNCHANGED << logged, tasks, timer, batch, file, left, files, cloud, lost, crashes, harm >>

\* Mutant: the data are sent without having been saved.
WriteNoBackup ==
  /\ at = "fill"
  /\ at' = "post"
  /\ UNCHANGED << logged, tasks, schedule, batch, file, left, files, cloud, lost, crashes, harm >>

\* batchUploadLogs: the file that keeps the data while they are uploaded.
WriteBackup ==
  /\ at = "fill"
  /\ Put(file, batch)
  /\ at' = "post"
  /\ UNCHANGED << logged, tasks, schedule, batch, file, left, cloud, lost, crashes, harm >>

\* saveLogToFile fails for the data that are about to be uploaded, before
\* ("backup") or after ("fill") there is a file: they are sent without a copy.
BackupFails(f) ==
  /\ (at = "backup" /\ f \in Unused) \/ (at = "fill" /\ f = file)
  /\ Mishap("write", batch)
  /\ at' = "post" /\ file' = f
  /\ UNCHANGED << logged, tasks, schedule, batch, left, files, cloud, lost, crashes >>

Wait == at' = "wait" /\ batch' = {} /\ file' = NoFile

Post ==
  /\ at = "post"
  /\ requests' = requests \cup
       {[file |-> file, records |-> batch, open |-> batch, state |-> "sent"]}
  /\ Wait
  /\ UNCHANGED << logged, tasks, schedule, left, files, answered, lost, crashes, harm >>

\* onDependencyError: the request cannot be signed.
DependencyError ==
  /\ at = "post"
  /\ tasks' = Append(tasks, Save(batch))
  /\ Wait
  /\ UNCHANGED << logged, schedule, left, files, cloud, lost, crashes, harm >>

\* The thread waits for the end of the answer, at most 10 s.
WaitEnds ==
  /\ at = "wait"
  /\ at' = "idle"
  /\ UNCHANGED << logged, tasks, schedule, batch, file, left, files, cloud, lost, crashes, harm >>

-----------------------------------------------------------------------------
(* Answers, on the thread of the HTTP client.                              *)

\* Mutant: the saved data wait for somebody else to schedule an upload.
OnNetworkErrorOnly(q) ==
  /\ q \in requests /\ q.state = "sent"
  /\ requests' = requests \ {q}
  /\ UNCHANGED << logged, tasks, schedule, thread, files, answered, lost, crashes, harm >>

OnNetworkError(q) ==
  /\ q \in requests /\ q.state = "sent"
  /\ requests' = requests \ {q}
  /\ ScheduleUploadIfNoOneScheduled
  /\ UNCHANGED << logged, tasks, thread, files, answered, lost, crashes, harm >>

Go(q, open) ==
  requests' = (requests \ {q}) \cup {[q EXCEPT !.open = open, !.state = "results"]}

\* An answer that is not a list, or a list of another length, is about all.
OnErrorOfAll(q) ==
  /\ q \in requests /\ q.state = "sent"
  /\ Go(q, {})
  /\ tasks' = Append(tasks, Save(q.records))
  /\ UNCHANGED << logged, schedule, thread, files, answered, lost, crashes, harm >>

\* onSuccess and onInvalidJson: the record is done with.
OnTaken(q, r) ==
  /\ q \in requests /\ r \in q.open
  /\ Go(q, q.open \ {r})
  /\ answered' = answered \cup {r}
  /\ UNCHANGED << logged, tasks, schedule, thread, files, lost, crashes, harm >>

\* Mutant: a record the cloud has refused once is not saved again.
OnErrorDropped(q, r) ==
  /\ q \in requests /\ r \in q.open
  /\ Go(q, q.open \ {r})
  /\ UNCHANGED << logged, tasks, schedule, thread, files, answered, lost, crashes, harm >>

\* onServerError and onRequestError: it is saved for another try.
OnError(q, r) ==
  /\ q \in requests /\ r \in q.open
  /\ Go(q, q.open \ {r})
  /\ tasks' = Append(tasks, Save({r}))
  /\ UNCHANGED << logged, schedule, thread, files, answered, lost, crashes, harm >>

OnProcessBatchResultEnd(q) ==
  /\ q \in requests /\ q.state = "results" /\ q.open = {}
  /\ requests' = requests \ {q}
  /\ Delete(q.file)
  /\ UNCHANGED << logged, tasks, schedule, thread, answered, lost, crashes, harm >>

\* An entry of the answer is not what it should be (JSONException or
\* ClassCastException): the entries behind it are not looked at, and the file
\* is deleted as if they had been.
OnMalformed(q) ==
  /\ q \in requests /\ q.open # {}
  /\ requests' = requests \ {q}
  /\ Delete(q.file)
  /\ Mishap("answer", q.open)
  /\ UNCHANGED << logged, tasks, schedule, thread, answered, lost, crashes >>

-----------------------------------------------------------------------------
\* The process dies and the app is started again.
CheckPendingLogsAndScheduleUploadIfNeeded ==
  /\ held' = (Pending # {})
  /\ timer' = (Pending # {})

Crash ==
  /\ crashes < MaxCrashes
  /\ crashes' = crashes + 1
  /\ mishaps' = mishaps \cup (IF at \in {"write", "fill"} THEN {"torn"} ELSE {})
  /\ lost' = logged \ (answered \cup Stored)
  /\ tasks' = << >>
  /\ at' = "idle" /\ batch' = {} /\ file' = NoFile /\ left' = {}
  /\ requests' = {}
  /\ CheckPendingLogsAndScheduleUploadIfNeeded
  /\ UNCHANGED << logged, files, answered, damaged, faults >>

Taken == \E q \in requests : \E r \in q.open : OnTaken(q, r)

Answers ==
  \E q \in requests :
    \/ OnNetworkError(q) \/ OnErrorOfAll(q) \/ OnProcessBatchResultEnd(q)
    \/ \E r \in q.open : OnTaken(q, r) \/ OnError(q, r)

Executor ==
  \/ SaveLog \/ WriteLog \/ UploadLog \/ Consolidated \/ WriteBackup
  \/ Post \/ DependencyError \/ WaitEnds
  \/ \E f \in Files : CreateFile(f) \/ ReadAndDelete(f)

Errors ==
  \/ WriteFails \/ \E f \in Files : BackupFails(f) \/ ReadFails(f)
  \/ \E q \in requests : OnMalformed(q)

Next == (\E r \in Records : Log(r)) \/ Due \/ Executor \/ Answers \/ Errors \/ Crash

Spec == Init /\ [][Next]_vars

\* Threads and timers go on, and a request is answered or given up.  A cloud
\* that is asked again and again takes a record in the end.
Fairness ==
  /\ WF_vars(Due) /\ WF_vars(Executor) /\ WF_vars(Answers)
  /\ SF_vars(Post)
  /\ \A r \in Records : SF_vars(\E q \in requests : OnTaken(q, r))

FairSpec == Spec /\ Fairness
-----------------------------------------------------------------------------
TypeOK ==
  /\ logged \in SUBSET Records
  /\ tasks \in Seq(Tasks)
  /\ held \in BOOLEAN /\ timer \in BOOLEAN
  /\ at \in {"idle", "create", "write", "read", "backup", "fill", "post", "wait"}
  /\ batch \in SUBSET Records
  /\ file \in Files \cup {NoFile}
  /\ left \in SUBSET Files
  /\ Pending \subseteq Files /\ files \in [Pending -> SUBSET Records]
  /\ requests \in SUBSET Requests
  /\ answered \in SUBSET Records
  /\ lost \in SUBSET Records
  /\ crashes \in 0..MaxCrashes
  /\ damaged \in SUBSET Records
  /\ mishaps \in SUBSET {"write", "read", "answer", "torn", "late"}
  /\ faults \in 0..MaxFaults

\* A record stays in a file, in a task or in the hands of the executor until
\* the cloud has taken it, whatever part of a batch it refuses, and however
\* answers overtake the executor; only a dying process loses some, and those a
\* failed write or read or a malformed answer was about may be gone with it.
NothingIsLost ==
  logged \subseteq answered \cup lost \cup damaged \cup Stored \cup Queued \cup batch

\* While a request is open its records are in a file, "just in case app crash
\* or terminated during uploading", if they could be written and no answer has
\* been late.
Holds(f) == IF f \in Pending THEN files[f] ELSE {}

InFlightIsSaved ==
  "late" \notin mishaps => \A q \in requests : q.records \ damaged \subseteq Holds(q.file)

\* scheduledUpload is not left set without an upload to come: nobody else would
\* schedule one, and the files would stay until the app is started again.  It
\* is left set by an upload that finds nothing to send, which takes a file that
\* was not written or cannot be read, or an answer that is late.
UploadComes == timer \/ at = "read" \/ \E i \in DOMAIN tasks : tasks[i] = Upload

HeldIsScheduled == held /\ mishaps \subseteq {"answer"} => UploadComes

\* No saved record is forgotten: a file that holds records is on its way to the
\* cloud, because an upload comes, because the file backs the data that are
\* being sent, or because a record is about to be saved, which schedules an
\* upload; unless scheduledUpload was left set by one of these mishaps.
StoredIsScheduled ==
  \A f \in Pending : files[f] # {} =>
    \/ UploadComes
    \/ held /\ ~(mishaps \subseteq {"answer"})
    \/ at = "post" /\ f = file
    \/ \E q \in requests : q.file = f
    \/ at \in {"create", "write"} \/ \E i \in DOMAIN tasks : tasks[i].task = "save"

\* Every record is uploaded that no process takes with it and no faulty file or
\* answer has touched, unless scheduledUpload is left set with nothing to come.
Stranded == held /\ ~UploadComes

EveryRecordIsUploaded ==
  \A r \in Records : r \in logged ~> r \in answered \cup lost \cup damaged \/ Stranded

\* From the moment the request is made to the end of its answer, no record of
\* it is lost with the process, also not one whose result has been handled and
\* is queued to be saved again, if it could be written and no answer was late.
UploadSurvivesCrash ==
  [][crashes' # crashes /\ "late" \notin mishaps =>
       /\ \A q \in requests : q.records \cap lost' \subseteq damaged
       /\ at = "post" => batch \cap lost' \subseteq damaged]_vars

\* What is being uploaded survives the process.
CrashKeepsRecords ==
  [][crashes' # crashes /\ at \in {"read", "backup", "fill", "post", "wait"}
     => batch \subseteq Stored']_vars
=============================================================================
