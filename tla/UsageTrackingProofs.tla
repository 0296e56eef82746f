------------------------- MODULE UsageTrackingProofs -------------------------
(***************************************************************************)
(* Proofs about UsageTracking, for any number of records, files, crashes   *)
(* and faults, and in every order of answers and uploads.  What a mishap   *)
(* breaks, the properties say themselves: the inductive invariants hold as *)
(* long as none of the kind has happened.                                  *)
(***************************************************************************)
EXTENDS UsageTracking, TLAPS

USE DEF Pending

\* A task at the end of the queue, and the one that is taken from its head.
LEMMA Appended ==
  ASSUME tasks \in Seq(Tasks), NEW task \in Tasks, tasks' = Append(tasks, task)
  PROVE  /\ tasks' \in Seq(Tasks)
         /\ Len(tasks') = Len(tasks) + 1
         /\ DOMAIN tasks' = 1..Len(tasks) + 1 /\ DOMAIN tasks = 1..Len(tasks)
         /\ \A i \in DOMAIN tasks : tasks'[i] = tasks[i]
         /\ tasks'[Len(tasks) + 1] = task
OBVIOUS

LEMMA Begun ==
  ASSUME tasks \in Seq(Tasks), NEW kind, Begin(kind)
  PROVE  /\ tasks' \in Seq(Tasks)
         /\ Head(tasks) = tasks[1] /\ 1 \in DOMAIN tasks /\ Head(tasks) \in Tasks
         /\ DOMAIN tasks' = 1..Len(tasks) - 1 /\ DOMAIN tasks = 1..Len(tasks)
         /\ \A i \in DOMAIN tasks' : i + 1 \in DOMAIN tasks /\ tasks'[i] = tasks[i + 1]
         /\ \A i \in DOMAIN tasks : i # 1 => i - 1 \in DOMAIN tasks' /\ tasks'[i - 1] = tasks[i]
BY DEF Begin

LEMMA Kinds ==
  /\ Upload \in Tasks
  /\ \A S \in SUBSET Records : Save(S) \in Tasks
  /\ \A t \in Tasks : t.records \in SUBSET Records /\ (t.task = "upload" => t = Upload)
BY DEF Tasks, Save, Upload

\* Writing and deleting files.
LEMMA PutFile ==
  ASSUME TypeOK, NEW f \in Files, NEW S \in SUBSET Records, Put(f, S)
  PROVE  /\ DOMAIN files' = Pending \cup {f} /\ DOMAIN files' \subseteq Files
         /\ files' \in [DOMAIN files' -> SUBSET Records]
         /\ files'[f] = S /\ \A g \in Pending : g # f => files'[g] = files[g]
BY DEF TypeOK, Put

LEMMA DeleteFile ==
  ASSUME TypeOK, NEW f, Delete(f)
  PROVE  /\ DOMAIN files' = Pending \ {f} /\ DOMAIN files' \subseteq Files
         /\ files' \in [DOMAIN files' -> SUBSET Records]
         /\ \A g \in Pending \ {f} : files'[g] = files[g]
BY DEF TypeOK, Delete

\* What the executor thread has in its hands.
Hands ==
  /\ at \in {"idle", "wait"} => batch = {}
  /\ at \in {"write", "fill", "post"} => file \in Files /\ \A q \in requests : q.file # file
  /\ at \in {"write", "fill"} => file \in Pending /\ files[file] = {}
  /\ at = "post" =>
       /\ batch \ damaged \subseteq Holds(file) /\ Holds(file) \subseteq batch
       /\ "write" \notin mishaps => file \in Pending /\ files[file] = batch

\* A mishap is remembered.
LEMMA Remembered ==
  ASSUME TypeOK, NEW kind \in {"write", "read", "answer", "late"},
         NEW S \in SUBSET Records, Mishap(kind, S)
  PROVE  /\ damaged' \in SUBSET Records /\ damaged \cup S = damaged'
         /\ mishaps' \in SUBSET {"write", "read", "answer", "torn", "late"}
         /\ mishaps \subseteq mishaps' /\ kind \in mishaps'
         /\ faults' \in 0..MaxFaults
BY TrackingAssumption DEF TypeOK, Mishap

\* Every action keeps the types.
LEMMA TypeStep ==
  ASSUME TypeOK, Hands, [Next]_vars
  PROVE  TypeOK'
<1>. USE TrackingAssumption DEF TypeOK, schedule, thread, cloud, harm
<1>1. ASSUME NEW r \in Records, Log(r)  PROVE TypeOK'
  <2>1. Save({r}) \in Tasks  BY Kinds
  <2>. QED  BY <1>1, <2>1, Appended DEF Log
<1>2. CASE Due
  <2>1. CASE requests = {}  BY <1>2, <2>1, Kinds, Appended DEF Due
  <2>2. CASE requests # {}
    <3>1. Mishap("late", {}) /\ {} \in SUBSET Records  BY <1>2, <2>2 DEF Due
    <3>. QED  BY <1>2, <3>1, Remembered, Kinds, Appended DEF Due
  <2>. QED  BY <2>1, <2>2
<1>3. CASE SaveLog
  <2>1. Head(tasks).records \in SUBSET Records  BY <1>3, Begun, Kinds DEF SaveLog
  <2>. QED  BY <1>3, <2>1, Begun DEF SaveLog
<1>4. ASSUME NEW f \in Files, CreateFile(f)  PROVE TypeOK'
  <2>1. {} \in SUBSET Records  OBVIOUS
  <2>. QED  BY <1>4, <2>1, PutFile DEF CreateFile
<1>5. CASE WriteLog
  <2>1. file \in Files  BY <1>5 DEF WriteLog, Hands
  <2>. QED  BY <1>5, <2>1, PutFile DEF WriteLog, ScheduleUploadIfNoOneScheduled
<1>6. CASE UploadLog
  BY <1>6, Begun DEF UploadLog
<1>7. ASSUME NEW f \in Files, ReadAndDelete(f)  PROVE TypeOK'
  BY <1>7, DeleteFile DEF ReadAndDelete
<1>8. CASE Consolidated
  BY <1>8 DEF Consolidated
<1>9. CASE WriteBackup
  <2>1. file \in Files  BY <1>9 DEF WriteBackup, Hands
  <2>. QED  BY <1>9, <2>1, PutFile DEF WriteBackup
<1>10. CASE Post
  <2>1. file \in Files  BY <1>10 DEF Post, Hands
  <2>2. [file |-> file, records |-> batch, open |-> batch, state |-> "sent"] \in Requests
    BY <2>1 DEF Requests
  <2>. QED  BY <1>10, <2>2 DEF Post, Wait
<1>11. CASE DependencyError
  BY <1>11, Kinds, Appended DEF DependencyError, Wait
<1>12. CASE WaitEnds
  BY <1>12 DEF WaitEnds
<1>13. ASSUME NEW q \in requests,
              OnNetworkError(q) \/ OnErrorOfAll(q) \/ OnProcessBatchResultEnd(q)
              \/ \E r \in q.open : OnTaken(q, r) \/ OnError(q, r)
       PROVE  TypeOK'
  <2>1. q \in Requests /\ q.open \in SUBSET Records /\ q.records \in SUBSET Records
    BY DEF Requests
  <2>2. ASSUME NEW open \in SUBSET Records, Go(q, open)  PROVE requests' \in SUBSET Requests
    <3>1. [q EXCEPT !.open = open, !.state = "results"] \in Requests  BY <2>1 DEF Requests
    <3>. QED  BY <2>2, <3>1 DEF Go
  <2>3. CASE OnNetworkError(q)
    BY <2>3 DEF OnNetworkError, ScheduleUploadIfNoOneScheduled
  <2>4. CASE OnErrorOfAll(q)
    <3>1. Save(q.records) \in Tasks  BY <2>1, Kinds
    <3>2. requests' \in SUBSET Requests  BY <2>2, <2>4 DEF OnErrorOfAll
    <3>. QED  BY <2>4, <3>1, <3>2, Appended DEF OnErrorOfAll
  <2>5. CASE OnProcessBatchResultEnd(q)
    BY <2>5, DeleteFile DEF OnProcessBatchResultEnd
  <2>6. ASSUME NEW r \in q.open, OnTaken(q, r) \/ OnError(q, r)  PROVE TypeOK'
    <3>1. r \in Records /\ q.open \ {r} \in SUBSET Records  BY <2>1
    <3>2. requests' \in SUBSET Requests  BY <2>2, <2>6, <3>1 DEF OnTaken, OnError
    <3>3. Save({r}) \in Tasks  BY <3>1, Kinds
    <3>4. CASE OnTaken(q, r)  BY <3>1, <3>2, <3>4 DEF OnTaken
    <3>5. CASE OnError(q, r)  BY <3>2, <3>3, <3>5, Appended DEF OnError
    <3>. QED  BY <2>6, <3>4, <3>5
  <2>. QED  BY <1>13, <2>3, <2>4, <2>5, <2>6
<1>14. CASE Crash
  <2>1. tasks' \in Seq(Tasks)  BY <1>14 DEF Crash
  <2>2. crashes' \in 0..MaxCrashes  BY <1>14 DEF Crash
  <2>. QED  BY <1>14, <2>1, <2>2 DEF Crash, CheckPendingLogsAndScheduleUploadIfNeeded
<1>15. CASE UNCHANGED vars
  BY <1>15 DEF vars
<1>16. CASE WriteFails
  <2>1. Mishap("write", batch) /\ batch \in SUBSET Records  BY <1>16 DEF WriteFails
  <2>. QED  BY <1>16, <2>1, Remembered DEF WriteFails, ScheduleUploadIfNoOneScheduled
<1>17. ASSUME NEW f \in Files, BackupFails(f)  PROVE TypeOK'
  <2>1. Mishap("write", batch) /\ batch \in SUBSET Records  BY <1>17 DEF BackupFails
  <2>. QED  BY <1>17, <2>1, Remembered DEF BackupFails
<1>18. ASSUME NEW f \in Files, ReadFails(f)  PROVE TypeOK'
  <2>1. Mishap("read", files[f]) /\ files[f] \in SUBSET Records  BY <1>18 DEF ReadFails
  <2>. QED  BY <1>18, <2>1, Remembered, DeleteFile DEF ReadFails
<1>19. ASSUME NEW q \in requests, OnMalformed(q)  PROVE TypeOK'
  <2>1. Mishap("answer", q.open) /\ q.open \in SUBSET Records
    BY <1>19 DEF OnMalformed, Requests
  <2>. QED  BY <1>19, <2>1, Remembered, DeleteFile DEF OnMalformed
<1>. QED
  BY <1>1, <1>2, <1>3, <1>4, <1>5, <1>6, <1>7, <1>8, <1>9, <1>10, <1>11, <1>12,
     <1>13, <1>14, <1>15, <1>16, <1>17, <1>18, <1>19 DEF Next, Executor, Answers, Errors

\* What the executor has in its hands stays so: a new file has a name nobody
\* uses, and no answer touches the file the executor writes.
LEMMA HandsStep ==
  ASSUME TypeOK, Hands, [Next]_vars
  PROVE  Hands'
<1>. USE TrackingAssumption DEF TypeOK, Hands, Holds, schedule, thread, cloud, harm
<1>1. ASSUME NEW r \in Records, Log(r)  PROVE Hands'
  BY <1>1 DEF Log
<1>2. CASE Due
  BY <1>2 DEF Due, Mishap
<1>3. CASE SaveLog
  BY <1>3 DEF SaveLog
<1>4. ASSUME NEW f \in Files, CreateFile(f)  PROVE Hands'
  <2>1. {} \in SUBSET Records  OBVIOUS
  <2>2. f \in DOMAIN files' /\ files'[f] = {}  BY <1>4, <2>1, PutFile DEF CreateFile
  <2>3. at' \in {"write", "fill"} /\ file' = f /\ \A q \in requests' : q.file # f
    BY <1>4 DEF CreateFile, Unused
  <2>4. UNCHANGED batch  BY <1>4 DEF CreateFile
  <2>. QED  BY <2>2, <2>3, <2>4
<1>5. CASE WriteLog
  BY <1>5 DEF WriteLog
<1>6. CASE UploadLog
  BY <1>6 DEF UploadLog, Begin
<1>7. ASSUME NEW f \in Files, ReadAndDelete(f)  PROVE Hands'
  BY <1>7 DEF ReadAndDelete
<1>8. CASE Consolidated
  BY <1>8 DEF Consolidated
<1>9. CASE WriteBackup
  <2>1. file \in Files /\ file \in Pending  BY <1>9 DEF WriteBackup
  <2>2. Put(file, batch) /\ batch \in SUBSET Records  BY <1>9 DEF WriteBackup
  <2>3. file \in DOMAIN files' /\ files'[file] = batch  BY <2>1, <2>2 DEF Put
  <2>. QED  BY <1>9, <2>1, <2>3 DEF WriteBackup
<1>10. CASE Post
  BY <1>10 DEF Post, Wait
<1>11. CASE DependencyError
  BY <1>11 DEF DependencyError, Wait
<1>12. CASE WaitEnds
  BY <1>12 DEF WaitEnds
<1>13. ASSUME NEW q \in requests, OnNetworkError(q)  PROVE Hands'
  BY <1>13 DEF OnNetworkError
<1>14. ASSUME NEW q \in requests, NEW open, Go(q, open), UNCHANGED << thread, files, harm >>
       PROVE  Hands'
  <2>1. q.file \in Files /\ q \in Requests  BY DEF Requests
  <2>2. \A p \in requests' : \E o \in requests : p.file = o.file
    BY <1>14, <2>1 DEF Go, Requests
  <2>. QED  BY <1>14, <2>2
<1>15. ASSUME NEW q \in requests, OnErrorOfAll(q) \/ \E r \in q.open : OnTaken(q, r) \/ OnError(q, r)
       PROVE  Hands'
  BY <1>14, <1>15 DEF OnErrorOfAll, OnTaken, OnError
<1>16. ASSUME NEW q \in requests, OnProcessBatchResultEnd(q)  PROVE Hands'
  <2>1. Delete(q.file) /\ UNCHANGED thread /\ requests' \subseteq requests
    BY <1>16 DEF OnProcessBatchResultEnd
  <2>2. DOMAIN files' = Pending \ {q.file} /\ \A g \in Pending \ {q.file} : files'[g] = files[g]
    BY <2>1, DeleteFile
  <2>3. at \in {"write", "fill", "post"} =>
            Holds(file)' = Holds(file) /\ (file \in DOMAIN files' <=> file \in Pending)
            /\ (file \in Pending => files'[file] = files[file])
    BY <2>1, <2>2
  <2>. QED  BY <1>16, <2>1, <2>2, <2>3 DEF OnProcessBatchResultEnd
<1>17. CASE Crash
  BY <1>17 DEF Crash
<1>18. CASE UNCHANGED vars
  BY <1>18 DEF vars
<1>19. CASE WriteFails
  BY <1>19 DEF WriteFails
<1>20. ASSUME NEW f \in Files, BackupFails(f)  PROVE Hands'
  <2>1. Mishap("write", batch) /\ at' = "post" /\ file' = f
        /\ UNCHANGED << batch, files, requests >>
    BY <1>20 DEF BackupFails
  <2>2. "write" \in mishaps' /\ batch \subseteq damaged'  BY <2>1, Remembered
  <2>3. /\ \A q \in requests : q.file # f
        /\ f \notin Pending \/ files[f] = {}
    BY <1>20 DEF BackupFails, Unused
  <2>. QED  BY <2>1, <2>2, <2>3
<1>21. ASSUME NEW f \in Files, ReadFails(f)  PROVE Hands'
  BY <1>21 DEF ReadFails
<1>22. ASSUME NEW q \in requests, OnMalformed(q)  PROVE Hands'
  <2>1. Delete(q.file) /\ UNCHANGED thread /\ requests' \subseteq requests
        /\ Mishap("answer", q.open) /\ q.open \in SUBSET Records
    BY <1>22 DEF OnMalformed, Requests
  <2>2. DOMAIN files' = Pending \ {q.file} /\ \A g \in Pending \ {q.file} : files'[g] = files[g]
    BY <2>1, DeleteFile
  <2>3. damaged \subseteq damaged' /\ mishaps \subseteq mishaps'  BY <2>1, Remembered
  <2>4. at \in {"write", "fill", "post"} =>
            Holds(file)' = Holds(file) /\ (file \in DOMAIN files' <=> file \in Pending)
            /\ (file \in Pending => files'[file] = files[file])
    BY <2>1, <2>2
  <2>. QED  BY <2>1, <2>2, <2>3, <2>4
<1>. QED
  BY <1>1, <1>2, <1>3, <1>4, <1>5, <1>6, <1>7, <1>8, <1>9, <1>10, <1>11, <1>12,
     <1>13, <1>15, <1>16, <1>17, <1>18, <1>19, <1>20, <1>21, <1>22
     DEF Next, Executor, Answers, Errors

LEMMA InitHands ==
  Init => TypeOK /\ Hands
<1>. SUFFICES ASSUME Init  PROVE TypeOK /\ Hands
  OBVIOUS
<1>1. files = [f \in {} |-> {}] /\ DOMAIN files = {}  BY DEF Init
<1>2. files \in [Pending -> SUBSET Records]  BY <1>1
<1>3. tasks \in Seq(Tasks)  BY DEF Init
<1>4. 0 \in 0..MaxCrashes /\ 0 \in 0..MaxFaults  BY TrackingAssumption
<1>5. TypeOK  BY <1>1, <1>2, <1>3, <1>4 DEF Init, TypeOK
<1>. QED  BY <1>5 DEF Init, Hands

\* The types hold for any number of records, files and crashes, and the file
\* saveLogToFile writes is nobody else's.
THEOREM TypeCorrect == Spec => []TypeOK
<1>1. TypeOK /\ Hands /\ [Next]_vars => (TypeOK /\ Hands)'
  BY TypeStep, HandsStep
<1>. QED  BY InitHands, <1>1, PTL DEF Spec

-----------------------------------------------------------------------------
\* A record is somewhere else than in the file f.
InQueue(r) == \E i \in DOMAIN tasks : r \in tasks[i].records

Elsewhere(r, f) ==
  \/ r \in answered \/ r \in lost \/ r \in damaged \/ r \in batch \/ InQueue(r)
  \/ \E g \in Pending : g # f /\ r \in files[g]

\* At most one request has its file, however many are open, and an upload has
\* read that file before it sends another one.
OnePending ==
  /\ \A p, q \in requests : p.file \in Pending /\ q.file \in Pending => p = q
  /\ at = "read" => \A q \in requests : q.file \in Pending => q.file \in left
  /\ at \in {"backup", "fill", "post"} => \A q \in requests : q.file \notin Pending

\* A record whose result has been handled is not in the file of the request
\* only: it is taken, or it is in a task, or in another file.
Covered ==
  \A q \in requests : q.file \in Pending =>
    /\ files[q.file] \subseteq q.records
    /\ \A r \in files[q.file] : r \in q.open \/ Elsewhere(r, q.file)

SafeInv == TypeOK /\ Hands /\ OnePending /\ Covered /\ NothingIsLost

\* NothingIsLost, record by record.
LEMMA Somewhere ==
  ASSUME TypeOK
  PROVE  NothingIsLost <=> \A r \in logged : Elsewhere(r, NoFile)
<1>1. NoFile \notin Pending  BY TrackingAssumption DEF TypeOK
<1>2. \A r : r \in Stored <=> \E g \in Pending : g # NoFile /\ r \in files[g]
  BY <1>1 DEF Stored
<1>3. \A r : r \in Queued <=> InQueue(r)
  BY DEF Queued, InQueue
<1>. QED  BY <1>2, <1>3 DEF NothingIsLost, Elsewhere

LEMMA SomewhereNext ==
  ASSUME TypeOK'
  PROVE  NothingIsLost' <=> \A r \in logged' : Elsewhere(r, NoFile)'
<1>1. NoFile \notin DOMAIN files'  BY TrackingAssumption DEF TypeOK
<1>2. \A r : r \in Stored' <=> \E g \in DOMAIN files' : g # NoFile /\ r \in files'[g]
  BY <1>1 DEF Stored
<1>3. \A r : r \in Queued' <=> InQueue(r)'
  BY DEF Queued, InQueue
<1>. QED  BY <1>2, <1>3 DEF NothingIsLost, Elsewhere

\* A task at the end of the queue adds records to it; one that is taken from
\* its head takes its own away.
LEMMA MoreInQueue ==
  ASSUME tasks \in Seq(Tasks), NEW task \in Tasks, tasks' = Append(tasks, task), NEW r
  PROVE  InQueue(r)' <=> InQueue(r) \/ r \in task.records
<1>1. /\ Len(tasks) \in Nat /\ DOMAIN tasks = 1..Len(tasks) /\ DOMAIN tasks' = 1..Len(tasks) + 1
      /\ \A i \in DOMAIN tasks : tasks'[i] = tasks[i]
      /\ tasks'[Len(tasks) + 1] = task
  BY Appended
<1>2. \A i \in DOMAIN tasks' : i \in DOMAIN tasks \/ i = Len(tasks) + 1  BY <1>1
<1>3. Len(tasks) + 1 \in DOMAIN tasks' /\ \A i \in DOMAIN tasks : i \in DOMAIN tasks'  BY <1>1
<1>. QED  BY <1>1, <1>2, <1>3 DEF InQueue

LEMMA LessInQueue ==
  ASSUME tasks \in Seq(Tasks), NEW kind, Begin(kind), NEW r
  PROVE  InQueue(r) <=> InQueue(r)' \/ r \in Head(tasks).records
<1>1. /\ Head(tasks) = tasks[1] /\ 1 \in DOMAIN tasks
      /\ \A i \in DOMAIN tasks' : i + 1 \in DOMAIN tasks /\ tasks'[i] = tasks[i + 1]
      /\ \A i \in DOMAIN tasks : i # 1 => i - 1 \in DOMAIN tasks' /\ tasks'[i - 1] = tasks[i]
  BY Begun
<1>2. InQueue(r)' \/ r \in Head(tasks).records => InQueue(r)
  BY <1>1 DEF InQueue
<1>3. ASSUME NEW i \in DOMAIN tasks, r \in tasks[i].records
      PROVE  InQueue(r)' \/ r \in Head(tasks).records
  <2>1. CASE i = 1  BY <1>1, <1>3, <2>1
  <2>2. CASE i # 1
    <3>1. i - 1 \in DOMAIN tasks' /\ r \in tasks'[i - 1].records  BY <1>1, <1>3, <2>2
    <3>. QED  BY <3>1 DEF InQueue
  <2>. QED  BY <2>1, <2>2
<1>. QED  BY <1>2, <1>3 DEF InQueue

\* Every action but the end of an answer and a crash leaves a record elsewhere
\* than in f, unless f is the file the executor writes.
Kept(f) == \A r : Elsewhere(r, f) => Elsewhere(r, f)'

LEMMA KeptByAnswers ==
  ASSUME TypeOK, NEW q \in requests, NEW f,
         \/ OnNetworkError(q) \/ OnErrorOfAll(q)
         \/ \E r \in q.open : OnTaken(q, r) \/ OnError(q, r)
  PROVE  Kept(f)
<1>. USE DEF Kept, Elsewhere, schedule, thread, cloud, harm
<1>0. tasks \in Seq(Tasks) /\ q.records \in SUBSET Records /\ q.open \in SUBSET Records
  BY DEF TypeOK, Requests
<1>1. CASE OnNetworkError(q)
  BY <1>1 DEF OnNetworkError, InQueue
<1>2. CASE OnErrorOfAll(q)
  <2>1. Save(q.records) \in Tasks  BY <1>0, Kinds
  <2>2. \A r : InQueue(r) => InQueue(r)'  BY <1>0, <1>2, <2>1, MoreInQueue DEF OnErrorOfAll
  <2>. QED  BY <1>2, <2>2 DEF OnErrorOfAll
<1>3. ASSUME NEW r \in q.open, OnTaken(q, r)  PROVE Kept(f)
  BY <1>3 DEF OnTaken, InQueue
<1>4. ASSUME NEW r \in q.open, OnError(q, r)  PROVE Kept(f)
  <2>1. Save({r}) \in Tasks  BY <1>0, Kinds
  <2>2. \A x : InQueue(x) => InQueue(x)'  BY <1>0, <1>4, <2>1, MoreInQueue DEF OnError
  <2>. QED  BY <1>4, <2>2 DEF OnError
<1>. QED  BY <1>1, <1>2, <1>3, <1>4

LEMMA KeptByExecutor ==
  ASSUME TypeOK, Hands, NEW f, at \in {"write", "fill", "post"} => f # file,
         (\E r \in Records : Log(r)) \/ Due \/ Executor
  PROVE  Kept(f)
<1>. USE DEF Kept, Elsewhere, schedule, thread, cloud, harm
<1>0. tasks \in Seq(Tasks) /\ batch \in SUBSET Records /\ \A r \in Records : {r} \in SUBSET Records
  BY DEF TypeOK
<1>1. ASSUME NEW r \in Records, Log(r)  PROVE Kept(f)
  <2>1. Save({r}) \in Tasks  BY <1>0, Kinds
  <2>2. \A x : InQueue(x) => InQueue(x)'  BY <1>0, <1>1, <2>1, MoreInQueue DEF Log
  <2>. QED  BY <1>1, <2>2 DEF Log
<1>2. CASE Due
  <2>1. \A x : InQueue(x) => InQueue(x)'  BY <1>0, <1>2, Kinds, MoreInQueue DEF Due
  <2>2. damaged \subseteq damaged'  BY <1>2 DEF Due, Mishap
  <2>. QED  BY <1>2, <2>1, <2>2 DEF Due
<1>3. CASE SaveLog
  <2>1. \A x : InQueue(x) => InQueue(x)' \/ x \in batch'  BY <1>0, <1>3, LessInQueue DEF SaveLog
  <2>2. batch = {}  BY <1>3 DEF SaveLog, Begin, Hands
  <2>. QED  BY <1>3, <2>1, <2>2 DEF SaveLog
<1>4. ASSUME NEW g \in Files, CreateFile(g)  PROVE Kept(f)
  <2>1. g \notin Pending  BY <1>4 DEF CreateFile, Unused
  <2>2. \A h \in Pending : h \in DOMAIN files' /\ files'[h] = files[h]
    BY <1>4, <2>1 DEF CreateFile, Put
  <2>. QED  BY <1>4, <2>2 DEF CreateFile, InQueue
<1>5. CASE WriteLog
  <2>1. file \in Pending /\ files[file] = {} /\ f # file  BY <1>5 DEF WriteLog, Hands
  <2>2. /\ file \in DOMAIN files' /\ files'[file] = batch
        /\ \A h \in Pending : h # file => h \in DOMAIN files' /\ files'[h] = files[h]
    BY <1>5, <2>1 DEF WriteLog, Put
  <2>. QED  BY <1>5, <2>1, <2>2 DEF WriteLog, InQueue
<1>6. CASE UploadLog
  <2>1. Head(tasks).records = {}
    <3>1. Head(tasks).task = "upload" /\ Head(tasks) \in Tasks  BY <1>0, <1>6, Begun DEF UploadLog, Begin
    <3>. QED  BY <3>1, Kinds DEF Upload
  <2>2. \A x : InQueue(x) => InQueue(x)'  BY <1>0, <1>6, <2>1, LessInQueue DEF UploadLog
  <2>. QED  BY <1>6, <2>2 DEF UploadLog
<1>7. ASSUME NEW g \in Files, ReadAndDelete(g)  PROVE Kept(f)
  <2>1. /\ \A h \in Pending : h # g => h \in DOMAIN files' /\ files'[h] = files[h]
        /\ g \in Pending => files[g] \subseteq batch'
        /\ batch \subseteq batch'
    BY <1>7 DEF ReadAndDelete, Delete
  <2>. QED  BY <1>7, <2>1 DEF ReadAndDelete, InQueue
<1>8. CASE Consolidated
  BY <1>8 DEF Consolidated, InQueue
<1>9. CASE WriteBackup
  <2>1. file \in Pending /\ files[file] = {}  BY <1>9 DEF WriteBackup, Hands
  <2>2. \A h \in Pending : h # file => h \in DOMAIN files' /\ files'[h] = files[h]
    BY <1>9, <2>1 DEF WriteBackup, Put
  <2>. QED  BY <1>9, <2>1, <2>2 DEF WriteBackup, InQueue
<1>10. CASE Post
  <2>1. f # file /\ \A r \in batch : r \in damaged \/ (file \in Pending /\ r \in files[file])
    BY <1>10 DEF Post, Hands, Holds
  <2>. QED  BY <1>10, <2>1 DEF Post, Wait, InQueue
<1>11. CASE DependencyError
  <2>1. Save(batch) \in Tasks /\ Save(batch).records = batch  BY <1>0, Kinds DEF Save
  <2>2. \A x : InQueue(x) \/ x \in batch => InQueue(x)'
    BY <1>0, <1>11, <2>1, MoreInQueue DEF DependencyError
  <2>. QED  BY <1>11, <2>2 DEF DependencyError, Wait
<1>12. CASE WaitEnds
  BY <1>12 DEF WaitEnds, InQueue
<1>. QED
  BY <1>1, <1>2, <1>3, <1>4, <1>5, <1>6, <1>7, <1>8, <1>9, <1>10, <1>11, <1>12 DEF Executor

LEMMA KeptByErrors ==
  ASSUME TypeOK, NEW f, WriteFails \/ \E g \in Files : BackupFails(g) \/ ReadFails(g)
  PROVE  Kept(f)
<1>. USE DEF Kept, Elsewhere, schedule, thread, cloud
<1>1. CASE WriteFails
  BY <1>1 DEF WriteFails, Mishap, InQueue
<1>2. ASSUME NEW g \in Files, BackupFails(g)  PROVE Kept(f)
  BY <1>2 DEF BackupFails, Mishap, InQueue
<1>3. ASSUME NEW g \in Files, ReadFails(g)  PROVE Kept(f)
  <2>1. /\ \A h \in Pending : h # g => h \in DOMAIN files' /\ files'[h] = files[h]
        /\ files[g] \subseteq damaged' /\ damaged \subseteq damaged'
    BY <1>3 DEF ReadFails, Delete, Mishap
  <2>. QED  BY <1>3, <2>1 DEF ReadFails, InQueue
<1>. QED  BY <1>1, <1>2, <1>3

\* The requests after an answer have the files of those before it.
LEMMA SameRequests ==
  ASSUME TypeOK, NEW q \in requests, NEW open, Go(q, open)
  PROVE  \A p \in requests' :
           \/ p \in requests /\ p # q
           \/ p.file = q.file /\ p.records = q.records /\ p.open = open
              /\ p = [q EXCEPT !.open = open, !.state = "results"]
BY DEF TypeOK, Requests, Go

LEMMA OnePendingStep ==
  ASSUME TypeOK, Hands, OnePending, [Next]_vars
  PROVE  OnePending'
<1>. USE DEF OnePending, schedule, thread, cloud, harm
<1>1. ASSUME NEW r \in Records, Log(r)  PROVE OnePending'
  BY <1>1 DEF Log
<1>2. CASE Due
  BY <1>2 DEF Due
<1>3. CASE SaveLog
  BY <1>3 DEF SaveLog
<1>4. ASSUME NEW f \in Files, CreateFile(f)  PROVE OnePending'
  BY <1>4 DEF CreateFile, Put, Unused
<1>5. CASE WriteLog
  BY <1>5 DEF WriteLog, Hands, Put
<1>6. CASE UploadLog
  BY <1>6 DEF UploadLog
<1>7. ASSUME NEW f \in Files, ReadAndDelete(f)  PROVE OnePending'
  BY <1>7 DEF ReadAndDelete, Delete
<1>8. CASE Consolidated
  BY <1>8 DEF Consolidated
<1>9. CASE WriteBackup
  BY <1>9 DEF WriteBackup, Hands, Put
<1>10. CASE Post
  BY <1>10 DEF Post, Wait
<1>11. CASE DependencyError
  BY <1>11 DEF DependencyError, Wait
<1>12. CASE WaitEnds
  BY <1>12 DEF WaitEnds
<1>13. ASSUME NEW q \in requests, OnNetworkError(q)  PROVE OnePending'
  BY <1>13 DEF OnNetworkError
<1>14. ASSUME NEW q \in requests, NEW open, Go(q, open), UNCHANGED << thread, files >>
       PROVE  OnePending'
  <2>1. \A p \in requests' :
          \/ p \in requests /\ p # q
          \/ p.file = q.file /\ p.records = q.records /\ p.open = open
             /\ p = [q EXCEPT !.open = open, !.state = "results"]
    <3>1. Go(q, open) /\ TypeOK  BY <1>14
    <3>. QED  BY <3>1, SameRequests
  <2>2. \A p \in requests' : \E o \in requests : p.file = o.file  BY <2>1
  <2>3. \A p, r \in requests' : p.file \in DOMAIN files' /\ r.file \in DOMAIN files' => p = r
    BY <1>14, <2>1
  <2>. QED  BY <1>14, <2>2, <2>3
<1>15. ASSUME NEW q \in requests, OnErrorOfAll(q) \/ \E r \in q.open : OnTaken(q, r) \/ OnError(q, r)
       PROVE  OnePending'
  BY <1>14, <1>15 DEF OnErrorOfAll, OnTaken, OnError
<1>16. ASSUME NEW q \in requests, OnProcessBatchResultEnd(q)  PROVE OnePending'
  BY <1>16 DEF OnProcessBatchResultEnd, Delete
<1>17. CASE Crash
  BY <1>17 DEF Crash
<1>18. CASE UNCHANGED vars
  BY <1>18 DEF vars
<1>19. CASE WriteFails
  BY <1>19 DEF WriteFails
<1>20. ASSUME NEW f \in Files, BackupFails(f)  PROVE OnePending'
  BY <1>20 DEF BackupFails
<1>21. ASSUME NEW f \in Files, ReadFails(f)  PROVE OnePending'
  BY <1>21 DEF ReadFails, Delete
<1>22. ASSUME NEW q \in requests, OnMalformed(q)  PROVE OnePending'
  BY <1>22 DEF OnMalformed, Delete
<1>. QED
  BY <1>1, <1>2, <1>3, <1>4, <1>5, <1>6, <1>7, <1>8, <1>9, <1>10, <1>11, <1>12,
     <1>13, <1>15, <1>16, <1>17, <1>18, <1>19, <1>20, <1>21, <1>22
     DEF Next, Executor, Answers, Errors

LEMMA CoveredStep ==
  ASSUME SafeInv, [Next]_vars
  PROVE  Covered'
<1>. USE DEF SafeInv, schedule, thread, cloud, harm
<1>1. CASE (\E r \in Records : Log(r)) \/ Due \/ Executor
  <2>1. ASSUME NEW p \in requests', p.file \in DOMAIN files'
        PROVE  /\ files'[p.file] \subseteq p.records
               /\ \A r \in files'[p.file] : r \in p.open \/ Elsewhere(r, p.file)'
    <3>1. CASE p \in requests
      <4>1. p.file \in Pending /\ files'[p.file] = files[p.file]
        <5>1. CASE (\E r \in Records : Log(r)) \/ Due \/ SaveLog \/ UploadLog \/ Consolidated
                   \/ Post \/ DependencyError \/ WaitEnds
          BY <2>1, <5>1 DEF Log, Due, SaveLog, UploadLog, Consolidated, Post, DependencyError, WaitEnds
        <5>2. ASSUME NEW f \in Files, CreateFile(f)  PROVE <4>1!:
          BY <2>1, <3>1, <5>2 DEF CreateFile, Put, Unused
        <5>3. CASE WriteLog \/ WriteBackup
          BY <2>1, <3>1, <5>3 DEF WriteLog, WriteBackup, Put, Hands
        <5>4. ASSUME NEW f \in Files, ReadAndDelete(f)  PROVE <4>1!:
          BY <2>1, <5>4 DEF ReadAndDelete, Delete
        <5>. QED  BY <1>1, <5>1, <5>2, <5>3, <5>4 DEF Executor
      <4>2. Kept(p.file)  BY <1>1, <3>1, KeptByExecutor DEF Hands
      <4>. QED  BY <3>1, <4>1, <4>2 DEF Covered, Kept
    <3>2. CASE p \notin requests
      <4>1. Post
        BY <1>1, <2>1, <3>2 DEF Log, Due, Executor, SaveLog, CreateFile, WriteLog, UploadLog,
           ReadAndDelete, Consolidated, WriteBackup, DependencyError, WaitEnds
      <4>2. p = [file |-> file, records |-> batch, open |-> batch, state |-> "sent"]
        BY <2>1, <3>2, <4>1 DEF Post
      <4>3. files'[file] \subseteq batch  BY <2>1, <4>1, <4>2 DEF Post, Hands, Holds
      <4>. QED  BY <4>2, <4>3
    <3>. QED  BY <3>1, <3>2
  <2>. QED  BY <2>1 DEF Covered
<1>2. ASSUME NEW q \in requests,
             \/ OnNetworkError(q) \/ OnErrorOfAll(q)
             \/ \E r \in q.open : OnTaken(q, r) \/ OnError(q, r)
      PROVE  Covered'
  <2>1. ASSUME NEW p \in requests', p.file \in DOMAIN files'
        PROVE  /\ files'[p.file] \subseteq p.records
               /\ \A r \in files'[p.file] : r \in p.open \/ Elsewhere(r, p.file)'
    <3>1. files' = files
      BY <1>2 DEF OnNetworkError, OnErrorOfAll, OnTaken, OnError
    <3>2. Kept(p.file)  BY <1>2, KeptByAnswers
    <3>3. CASE p \in requests
      BY <2>1, <3>1, <3>2, <3>3 DEF Covered, Kept
    <3>4. CASE p \notin requests
      <4>1. CASE OnNetworkError(q)
        BY <2>1, <3>4, <4>1 DEF OnNetworkError
      <4>2. CASE OnErrorOfAll(q)
        <5>1. p.file = q.file /\ p.records = q.records
          BY <2>1, <3>4, <4>2, SameRequests DEF OnErrorOfAll
        <5>2. files[q.file] \subseteq q.records  BY <2>1, <3>1, <5>1 DEF Covered
        <5>3. q.records \in SUBSET Records /\ tasks \in Seq(Tasks)  BY DEF TypeOK, Requests
        <5>4. Save(q.records) \in Tasks /\ Save(q.records).records = q.records
          BY <5>3, Kinds DEF Save
        <5>5. \A r \in q.records : InQueue(r)'
          BY <4>2, <5>3, <5>4, MoreInQueue DEF OnErrorOfAll
        <5>. QED  BY <3>1, <5>1, <5>2, <5>5 DEF Elsewhere
      <4>3. ASSUME NEW r \in q.open, OnTaken(q, r) \/ OnError(q, r)
            PROVE  /\ files'[p.file] \subseteq p.records
                   /\ \A x \in files'[p.file] : x \in p.open \/ Elsewhere(x, p.file)'
        <5>1. p.file = q.file /\ p.records = q.records /\ p.open = q.open \ {r}
          BY <2>1, <3>4, <4>3, SameRequests DEF OnTaken, OnError
        <5>2. /\ files[q.file] \subseteq q.records
              /\ \A x \in files[q.file] : x \in q.open \/ Elsewhere(x, q.file)
          BY <2>1, <3>1, <5>1 DEF Covered
        <5>3. q.open \in SUBSET Records /\ tasks \in Seq(Tasks)  BY DEF TypeOK, Requests
        <5>4. Save({r}) \in Tasks /\ Save({r}).records = {r}  BY <5>3, Kinds DEF Save
        <5>5. OnError(q, r) => InQueue(r)'
          BY <5>3, <5>4, MoreInQueue DEF OnError
        <5>6. OnTaken(q, r) => r \in answered'  BY DEF OnTaken
        <5>7. Elsewhere(r, p.file)'  BY <4>3, <5>5, <5>6 DEF Elsewhere
        <5>. QED  BY <3>1, <3>2, <5>1, <5>2, <5>7 DEF Kept
      <4>. QED  BY <1>2, <4>1, <4>2, <4>3
    <3>. QED  BY <3>3, <3>4
  <2>. QED  BY <2>1 DEF Covered
<1>3. ASSUME NEW q \in requests, OnProcessBatchResultEnd(q)  PROVE Covered'
  <2>1. \A p \in requests' : p \in requests /\ (p.file \in DOMAIN files' => p.file \in Pending /\ p # q)
    BY <1>3 DEF OnProcessBatchResultEnd, Delete
  <2>2. q.file \in Pending => \A p \in requests' : p.file \notin DOMAIN files'
    BY <2>1 DEF OnePending
  <2>3. q.file \notin Pending => files' = files
    BY <1>3 DEF OnProcessBatchResultEnd, Delete, TypeOK
  <2>. QED  BY <1>3, <2>1, <2>2, <2>3 DEF Covered, Elsewhere, InQueue, OnProcessBatchResultEnd
<1>4. CASE Crash
  BY <1>4 DEF Crash, Covered
<1>5. CASE UNCHANGED vars
  BY <1>5 DEF vars, Covered, Elsewhere, InQueue
<1>6. CASE WriteFails \/ \E f \in Files : BackupFails(f) \/ ReadFails(f)
  <2>1. /\ requests' = requests
        /\ \A g \in DOMAIN files' : g \in Pending /\ files'[g] = files[g]
    BY <1>6 DEF WriteFails, BackupFails, ReadFails, Delete
  <2>2. \A p \in requests : Kept(p.file)  BY <1>6, KeptByErrors
  <2>. QED  BY <2>1, <2>2 DEF Covered, Kept
<1>7. ASSUME NEW q \in requests, OnMalformed(q)  PROVE Covered'
  <2>1. \A p \in requests' : p \in requests /\ (p.file \in DOMAIN files' => p.file \in Pending /\ p # q)
    BY <1>7 DEF OnMalformed, Delete
  <2>2. q.file \in Pending => \A p \in requests' : p.file \notin DOMAIN files'
    BY <2>1 DEF OnePending
  <2>3. q.file \notin Pending => files' = files
    BY <1>7 DEF OnMalformed, Delete, TypeOK
  <2>4. damaged \subseteq damaged' /\ UNCHANGED << tasks, batch, answered, lost >>
    BY <1>7 DEF OnMalformed, Mishap
  <2>. QED  BY <2>1, <2>2, <2>3, <2>4 DEF Covered, Elsewhere, InQueue
<1>. QED
  BY <1>1, <1>2, <1>3, <1>4, <1>5, <1>6, <1>7 DEF Next, Answers, Errors

LEMMA NothingIsLostStep ==
  ASSUME SafeInv, [Next]_vars
  PROVE  NothingIsLost'
<1>. USE DEF SafeInv, schedule, thread, cloud, harm
<1>0. TypeOK'  BY TypeStep
<1>1. (\A r \in logged' : Elsewhere(r, NoFile)') => NothingIsLost'
  BY <1>0, SomewhereNext
<1>2. \A r \in logged : Elsewhere(r, NoFile)  BY Somewhere
<1>3. NoFile \notin Files /\ (at \in {"write", "fill", "post"} => NoFile # file)
  BY TrackingAssumption DEF TypeOK, Hands
<1>4. ASSUME NEW r \in Records, Log(r)  PROVE NothingIsLost'
  <2>1. Kept(NoFile)  BY <1>3, <1>4, KeptByExecutor
  <2>2. Save({r}) \in Tasks /\ Save({r}).records = {r} /\ tasks \in Seq(Tasks)
    BY Kinds DEF Save, TypeOK
  <2>3. InQueue(r)'  BY <1>4, <2>2, MoreInQueue DEF Log
  <2>. QED  BY <1>1, <1>2, <1>4, <2>1, <2>3 DEF Kept, Log, Elsewhere
<1>5. CASE Due \/ Executor
  <2>1. Kept(NoFile)  BY <1>3, <1>5, KeptByExecutor
  <2>2. logged' = logged
    BY <1>5 DEF Due, Executor, SaveLog, CreateFile, WriteLog, UploadLog, ReadAndDelete,
       Consolidated, WriteBackup, Post, DependencyError, WaitEnds
  <2>. QED  BY <1>1, <1>2, <2>1, <2>2 DEF Kept
<1>6. ASSUME NEW q \in requests,
             \/ OnNetworkError(q) \/ OnErrorOfAll(q)
             \/ \E r \in q.open : OnTaken(q, r) \/ OnError(q, r)
      PROVE  NothingIsLost'
  <2>1. Kept(NoFile)  BY <1>6, KeptByAnswers
  <2>2. logged' = logged  BY <1>6 DEF OnNetworkError, OnErrorOfAll, OnTaken, OnError
  <2>. QED  BY <1>1, <1>2, <2>1, <2>2 DEF Kept
<1>7. ASSUME NEW q \in requests, OnProcessBatchResultEnd(q)  PROVE NothingIsLost'
  <2>1. /\ UNCHANGED << logged, tasks, batch, answered, lost, damaged >> /\ q.open = {}
        /\ \A g \in Pending : g # q.file => g \in DOMAIN files' /\ files'[g] = files[g]
    BY <1>7 DEF OnProcessBatchResultEnd, Delete
  <2>2. ASSUME NEW r, q.file \in Pending, r \in files[q.file]  PROVE Elsewhere(r, q.file)
    BY <2>1, <2>2 DEF Covered
  <2>3. \A r \in logged : Elsewhere(r, q.file)
    BY <1>2, <2>2 DEF Elsewhere
  <2>4. \A r \in logged : Elsewhere(r, NoFile)'
    <3>1. \A g \in DOMAIN files' : g # NoFile  BY <1>0, <1>3 DEF TypeOK
    <3>. QED  BY <2>1, <2>3, <3>1, <1>3 DEF Elsewhere, InQueue, TypeOK
  <2>. QED  BY <1>1, <2>1, <2>4
<1>8. CASE Crash
  <2>1. NothingIsLost' <=> logged' \subseteq answered' \cup lost' \cup damaged' \cup Stored' \cup Queued' \cup batch'
    BY DEF NothingIsLost
  <2>2. lost' = logged \ (answered \cup Stored) /\ UNCHANGED << logged, answered, files >>
    BY <1>8 DEF Crash
  <2>. QED  BY <2>1, <2>2 DEF Stored
<1>9. CASE UNCHANGED vars
  BY <1>9 DEF vars, NothingIsLost, Stored, Queued
<1>10. CASE WriteFails \/ \E f \in Files : BackupFails(f) \/ ReadFails(f)
  <2>1. Kept(NoFile)  BY <1>10, KeptByErrors
  <2>2. logged' = logged  BY <1>10 DEF WriteFails, BackupFails, ReadFails
  <2>. QED  BY <1>1, <1>2, <2>1, <2>2 DEF Kept
<1>11. ASSUME NEW q \in requests, OnMalformed(q)  PROVE NothingIsLost'
  <2>1. /\ UNCHANGED << logged, tasks, batch, answered, lost >>
        /\ damaged' = damaged \cup q.open
        /\ \A g \in Pending : g # q.file => g \in DOMAIN files' /\ files'[g] = files[g]
    BY <1>11 DEF OnMalformed, Delete, Mishap
  <2>2. ASSUME NEW r, q.file \in Pending, r \in files[q.file]
        PROVE  r \in q.open \/ Elsewhere(r, q.file)
    BY <2>2 DEF Covered
  <2>3. \A r \in logged : r \in q.open \/ Elsewhere(r, q.file)
    BY <1>2, <2>2 DEF Elsewhere
  <2>4. \A r \in logged : Elsewhere(r, NoFile)'
    <3>1. \A g \in DOMAIN files' : g # NoFile  BY <1>0, <1>3 DEF TypeOK
    <3>. QED  BY <2>1, <2>3, <3>1, <1>3 DEF Elsewhere, InQueue, TypeOK
  <2>. QED  BY <1>1, <2>1, <2>4
<1>. QED
  BY <1>4, <1>5, <1>6, <1>7, <1>8, <1>9, <1>10, <1>11 DEF Next, Answers, Errors

\* However many records, uploads and open requests there are, in whatever
\* order the results of a batch come, and even if the process dies while it
\* writes a file: a record the app has logged is kept until the cloud has it,
\* or was only in the memory of a process that died, or a failed write, a file
\* that cannot be read or a malformed answer was about it.
THEOREM NothingIsLostHolds == Spec => []NothingIsLost
<1>1. Init => SafeInv
  <2>. SUFFICES ASSUME Init  PROVE SafeInv
    OBVIOUS
  <2>1. OnePending /\ Covered /\ NothingIsLost
    BY DEF Init, OnePending, Covered, NothingIsLost
  <2>. QED  BY <2>1, InitHands DEF SafeInv
<1>2. SafeInv /\ [Next]_vars => SafeInv'
  BY TypeStep, HandsStep, OnePendingStep, CoveredStep, NothingIsLostStep DEF SafeInv
<1>3. SafeInv => NothingIsLost
  BY DEF SafeInv
<1>. QED  BY <1>1, <1>2, <1>3, PTL DEF Spec

-----------------------------------------------------------------------------
\* Between the consolidation and the request no file is there but the one that
\* backs the data: only the executor creates files, and it has read them all.
AllInHand ==
  /\ at = "read" => Pending \subseteq left
  /\ at = "backup" => Pending = {}
  /\ at \in {"fill", "post"} => Pending \subseteq {file}

SaveComes == at \in {"create", "write"} \/ \E i \in DOMAIN tasks : tasks[i].task = "save"

\* A file that holds records is somebody's business, scheduledUpload's at least.
StoredIsMeant ==
  \A f \in Pending : files[f] # {} =>
    held \/ (at = "post" /\ f = file) \/ (\E q \in requests : q.file = f) \/ SaveComes

StoredInv == TypeOK /\ Hands /\ AllInHand /\ StoredIsMeant

\* A task that is added takes no save away, and one that is begun is at hand.
LEMMA SaveStays ==
  ASSUME tasks \in Seq(Tasks)
  PROVE  /\ \A task \in Tasks : tasks' = Append(tasks, task) =>
               /\ (\E i \in DOMAIN tasks : tasks[i].task = "save")
                    => \E i \in DOMAIN tasks' : tasks'[i].task = "save"
               /\ task.task = "save" => \E i \in DOMAIN tasks' : tasks'[i].task = "save"
         /\ \A kind : Begin(kind) /\ (\E i \in DOMAIN tasks : tasks[i].task = "save") =>
               kind = "save" \/ \E i \in DOMAIN tasks' : tasks'[i].task = "save"
<1>1. ASSUME NEW task \in Tasks, tasks' = Append(tasks, task)
      PROVE  /\ (\E i \in DOMAIN tasks : tasks[i].task = "save")
                  => \E i \in DOMAIN tasks' : tasks'[i].task = "save"
             /\ task.task = "save" => \E i \in DOMAIN tasks' : tasks'[i].task = "save"
  <2>1. /\ DOMAIN tasks' = 1..Len(tasks) + 1 /\ DOMAIN tasks = 1..Len(tasks)
        /\ \A i \in DOMAIN tasks : tasks'[i] = tasks[i]
        /\ tasks'[Len(tasks) + 1] = task /\ Len(tasks) \in Nat
    BY <1>1, Appended
  <2>2. Len(tasks) + 1 \in DOMAIN tasks' /\ \A i \in DOMAIN tasks : i \in DOMAIN tasks'
    BY <2>1
  <2>. QED  BY <2>1, <2>2
<1>2. ASSUME NEW kind, Begin(kind), NEW i \in DOMAIN tasks, tasks[i].task = "save"
      PROVE  kind = "save" \/ \E j \in DOMAIN tasks' : tasks'[j].task = "save"
  <2>1. /\ Head(tasks) = tasks[1]
        /\ \A j \in DOMAIN tasks : j # 1 => j - 1 \in DOMAIN tasks' /\ tasks'[j - 1] = tasks[j]
    BY <1>2, Begun
  <2>2. CASE i = 1  BY <1>2, <2>1, <2>2 DEF Begin
  <2>3. CASE i # 1  BY <1>2, <2>1, <2>3
  <2>. QED  BY <2>2, <2>3
<1>. QED  BY <1>1, <1>2

LEMMA AllInHandStep ==
  ASSUME TypeOK, Hands, AllInHand, [Next]_vars
  PROVE  AllInHand'
<1>. USE DEF AllInHand, schedule, thread, cloud, harm
<1>1. CASE (\E r \in Records : Log(r)) \/ Due
  BY <1>1 DEF Log, Due
<1>2. CASE SaveLog \/ UploadLog \/ WaitEnds
  BY <1>2 DEF SaveLog, UploadLog, WaitEnds
<1>3. ASSUME NEW f \in Files, CreateFile(f)  PROVE AllInHand'
  BY <1>3 DEF CreateFile, Put
<1>4. CASE WriteLog \/ WriteBackup
  BY <1>4 DEF WriteLog, WriteBackup, Put
<1>5. ASSUME NEW f \in Files, ReadAndDelete(f)  PROVE AllInHand'
  BY <1>5 DEF ReadAndDelete, Delete
<1>6. CASE Consolidated
  BY <1>6 DEF Consolidated
<1>7. CASE Post \/ DependencyError
  BY <1>7 DEF Post, DependencyError, Wait
<1>8. ASSUME NEW q \in requests,
             OnNetworkError(q) \/ OnErrorOfAll(q) \/ \E r \in q.open : OnTaken(q, r) \/ OnError(q, r)
      PROVE  AllInHand'
  BY <1>8 DEF OnNetworkError, OnErrorOfAll, OnTaken, OnError
<1>9. ASSUME NEW q \in requests, OnProcessBatchResultEnd(q)  PROVE AllInHand'
  BY <1>9 DEF OnProcessBatchResultEnd, Delete
<1>10. CASE Crash
  BY <1>10 DEF Crash
<1>11. CASE UNCHANGED vars
  BY <1>11 DEF vars
<1>12. CASE WriteFails
  BY <1>12 DEF WriteFails
<1>13. ASSUME NEW f \in Files, BackupFails(f) \/ ReadFails(f)  PROVE AllInHand'
  BY <1>13 DEF BackupFails, ReadFails, Delete
<1>14. ASSUME NEW q \in requests, OnMalformed(q)  PROVE AllInHand'
  BY <1>14 DEF OnMalformed, Delete
<1>. QED
  BY <1>1, <1>2, <1>3, <1>4, <1>5, <1>6, <1>7, <1>8, <1>9, <1>10, <1>11, <1>12, <1>13, <1>14
     DEF Next, Executor, Answers, Errors

LEMMA StoredStep ==
  ASSUME StoredInv, [Next]_vars
  PROVE  StoredIsMeant'
<1>. USE DEF StoredInv, schedule, thread, cloud, harm
<1>0. tasks \in Seq(Tasks)  BY DEF TypeOK
<1>1. StoredIsMeant <=>
        \A f \in Pending : files[f] # {} =>
          held \/ (at = "post" /\ f = file) \/ (\E q \in requests : q.file = f) \/ SaveComes
  BY DEF StoredIsMeant
<1>2. StoredIsMeant' <=>
        \A f \in DOMAIN files' : files'[f] # {} =>
          \/ held' \/ (at' = "post" /\ f = file') \/ (\E q \in requests' : q.file = f)
          \/ SaveComes'
  BY DEF StoredIsMeant
<1>3. ASSUME NEW r \in Records, Log(r)  PROVE StoredIsMeant'
  <2>1. SaveComes'
    <3>1. Save({r}) \in Tasks /\ Save({r}).task = "save"  BY Kinds DEF Save
    <3>. QED  BY <1>0, <1>3, <3>1, SaveStays DEF Log, SaveComes
  <2>. QED  BY <1>2, <2>1
<1>4. CASE Due
  <2>1. SaveComes => SaveComes'  BY <1>0, <1>4, Kinds, SaveStays DEF Due, SaveComes
  <2>. QED  BY <1>1, <1>2, <1>4, <2>1 DEF Due
<1>5. CASE SaveLog
  BY <1>2, <1>5 DEF SaveLog, SaveComes
<1>6. ASSUME NEW f \in Files, CreateFile(f)  PROVE StoredIsMeant'
  <2>1. CASE at = "create"
    BY <1>2, <1>6, <2>1 DEF CreateFile, SaveComes
  <2>2. CASE at = "backup"
    BY <1>2, <1>6, <2>2 DEF CreateFile, Put, AllInHand
  <2>. QED  BY <1>6, <2>1, <2>2 DEF CreateFile
<1>7. CASE WriteLog
  BY <1>2, <1>7 DEF WriteLog, ScheduleUploadIfNoOneScheduled
<1>8. CASE UploadLog
  <2>1. SaveComes => SaveComes'
    BY <1>0, <1>8, SaveStays DEF UploadLog, Begin, SaveComes
  <2>. QED  BY <1>1, <1>2, <1>8, <2>1 DEF UploadLog, Begin
<1>9. ASSUME NEW f \in Files, ReadAndDelete(f)  PROVE StoredIsMeant'
  BY <1>1, <1>2, <1>9 DEF ReadAndDelete, Delete, SaveComes
<1>10. CASE Consolidated
  BY <1>1, <1>2, <1>10 DEF Consolidated, AllInHand
<1>11. CASE WriteBackup
  <2>1. Pending \subseteq {file} /\ at' = "post" /\ file' = file /\ DOMAIN files' \subseteq {file}
    BY <1>11 DEF WriteBackup, AllInHand, Put
  <2>. QED  BY <1>2, <2>1
<1>12. CASE Post
  <2>1. Pending \subseteq {file} /\ files' = files  BY <1>12 DEF Post, AllInHand
  <2>2. \E q \in requests' : q.file = file
    <3>. DEFINE new == [file |-> file, records |-> batch, open |-> batch, state |-> "sent"]
    <3>1. new \in requests'  BY <1>12 DEF Post
    <3>2. new.file = file  OBVIOUS
    <3>. QED  BY <3>1, <3>2
  <2>. QED  BY <1>2, <2>1, <2>2
<1>13. CASE DependencyError
  <2>0. batch \in SUBSET Records  BY DEF TypeOK
  <2>1. Save(batch) \in Tasks /\ Save(batch).task = "save"  BY <2>0, Kinds DEF Save
  <2>2. SaveComes'  BY <1>0, <1>13, <2>1, SaveStays DEF DependencyError, SaveComes
  <2>. QED  BY <1>2, <2>2
<1>14. CASE WaitEnds
  BY <1>1, <1>2, <1>14 DEF WaitEnds, SaveComes
<1>15. ASSUME NEW q \in requests, OnNetworkError(q)  PROVE StoredIsMeant'
  BY <1>2, <1>15 DEF OnNetworkError, ScheduleUploadIfNoOneScheduled
<1>16. ASSUME NEW q \in requests, NEW open, Go(q, open), UNCHANGED << schedule, thread, files >>,
              SaveComes => SaveComes'
       PROVE  StoredIsMeant'
  <2>1. \A p \in requests : \E o \in requests' : o.file = p.file
    <3>1. q \in Requests  BY DEF TypeOK
    <3>2. [q EXCEPT !.open = open, !.state = "results"].file = q.file  BY <3>1 DEF Requests
    <3>3. requests' = (requests \ {q}) \cup {[q EXCEPT !.open = open, !.state = "results"]}
      BY <1>16 DEF Go
    <3>. QED  BY <3>2, <3>3
  <2>. QED  BY <1>1, <1>2, <1>16, <2>1
<1>17. ASSUME NEW q \in requests,
              OnErrorOfAll(q) \/ \E r \in q.open : OnTaken(q, r) \/ OnError(q, r)
       PROVE  StoredIsMeant'
  <2>1. q.records \in SUBSET Records /\ \A r \in q.open : {r} \in SUBSET Records
    BY DEF TypeOK, Requests
  <2>2. \A S \in SUBSET Records : Save(S) \in Tasks  BY Kinds
  <2>3. SaveComes => SaveComes'
    BY <1>0, <1>17, <2>1, <2>2, SaveStays DEF OnErrorOfAll, OnTaken, OnError, SaveComes
  <2>. QED  BY <1>16, <1>17, <2>3 DEF OnErrorOfAll, OnTaken, OnError
<1>18. ASSUME NEW q \in requests, OnProcessBatchResultEnd(q)  PROVE StoredIsMeant'
  <2>1. /\ requests' = requests \ {q} /\ UNCHANGED << tasks, schedule, thread >>
        /\ \A f \in DOMAIN files' : f \in Pending /\ f # q.file /\ files'[f] = files[f]
    BY <1>18 DEF OnProcessBatchResultEnd, Delete
  <2>2. SaveComes => SaveComes'  BY <2>1 DEF SaveComes
  <2>. QED  BY <1>1, <1>2, <2>1, <2>2
<1>19. CASE Crash
  BY <1>2, <1>19 DEF Crash, CheckPendingLogsAndScheduleUploadIfNeeded
<1>20. CASE UNCHANGED vars
  BY <1>1, <1>2, <1>20 DEF vars, SaveComes
<1>21. CASE WriteFails
  BY <1>2, <1>21 DEF WriteFails, ScheduleUploadIfNoOneScheduled
<1>22. ASSUME NEW f \in Files, BackupFails(f)  PROVE StoredIsMeant'
  BY <1>1, <1>2, <1>22 DEF BackupFails, AllInHand, SaveComes
<1>23. ASSUME NEW f \in Files, ReadFails(f)  PROVE StoredIsMeant'
  BY <1>1, <1>2, <1>23 DEF ReadFails, Delete, SaveComes
<1>24. ASSUME NEW q \in requests, OnMalformed(q)  PROVE StoredIsMeant'
  <2>1. /\ requests' = requests \ {q} /\ UNCHANGED << tasks, schedule, thread >>
        /\ \A f \in DOMAIN files' : f \in Pending /\ f # q.file /\ files'[f] = files[f]
    BY <1>24 DEF OnMalformed, Delete
  <2>2. SaveComes => SaveComes'  BY <2>1 DEF SaveComes
  <2>. QED  BY <1>1, <1>2, <2>1, <2>2
<1>. QED
  BY <1>3, <1>4, <1>5, <1>6, <1>7, <1>8, <1>9, <1>10, <1>11, <1>12, <1>13, <1>14,
     <1>15, <1>17, <1>18, <1>19, <1>20, <1>21, <1>22, <1>23, <1>24
     DEF Next, Executor, Answers, Errors

LEMMA StoredIsMeantHolds == Spec => []StoredInv
<1>1. Init => StoredInv
  <2>. SUFFICES ASSUME Init  PROVE StoredInv
    OBVIOUS
  <2>1. AllInHand /\ StoredIsMeant
    BY DEF Init, AllInHand, StoredIsMeant
  <2>. QED  BY <2>1, InitHands DEF StoredInv
<1>2. StoredInv /\ [Next]_vars => StoredInv'
  BY TypeStep, HandsStep, AllInHandStep, StoredStep DEF StoredInv
<1>. QED  BY <1>1, <1>2, PTL DEF Spec

-----------------------------------------------------------------------------
\* As long as no answer has been late, one thing happens after the other; and
\* as long as every file was written and read, an upload that is scheduled has
\* something to send.
UploadQueued == \E i \in DOMAIN tasks : tasks[i] = Upload
OneUpload == \A i, j \in DOMAIN tasks : tasks[i] = Upload /\ tasks[j] = Upload => i = j
FullTasks == \A i \in DOMAIN tasks : tasks[i] # Upload => tasks[i].records # {}
Uploading == at \in {"backup", "fill", "post"}

\* Of the delay, the task in the queue, the reading and the request there is
\* one at a time.
InTurn ==
  /\ ~held => ~timer /\ ~UploadQueued /\ at # "read"
  /\ timer => ~UploadQueued /\ at # "read"
  /\ UploadQueued => at # "read"
  /\ OneUpload
  /\ UploadQueued \/ at = "read" \/ Uploading => requests = {}
  /\ Uploading => ~held
  /\ \A p, q \in requests : p = q

\* Nothing that is saved or sent is empty.
NoneEmpty ==
  /\ FullTasks
  /\ at \in {"create", "write"} \/ Uploading => batch # {}
  /\ \A f \in Pending : files[f] = {} => at \in {"write", "fill"} /\ f = file
  /\ \A q \in requests : q.records # {}

\* An upload that is scheduled finds a file no request has.
SomethingToSend ==
  /\ held /\ at # "read" =>
       \E f \in Pending : files[f] # {} /\ \A q \in requests : q.file # f
  /\ at = "read" => batch # {} \/ \E f \in left \cap Pending : files[f] # {}

\* What is in a request is in its file, but for what a mishap has touched, or
\* all of it.
Saved == \A q \in requests : q.records \ damaged \subseteq Holds(q.file)
Backed == \A q \in requests : q.file \in Pending /\ q.records \subseteq files[q.file]
HeldNow == held => UploadComes

OrderInv == TypeOK /\ Hands /\ InTurn /\ Saved

TurnInv == OrderInv /\ Backed /\ NoneEmpty /\ SomethingToSend /\ HeldNow

Ever ==
  /\ TypeOK /\ Hands
  /\ "late" \notin mishaps => OrderInv
  /\ mishaps \subseteq {"answer"} => TurnInv

LEMMA SaveIsNoUpload == \A S : Save(S) # Upload /\ Save(S).records = S
BY DEF Save, Upload

LEMMA MoreTasks ==
  ASSUME tasks \in Seq(Tasks), NEW task \in Tasks, tasks' = Append(tasks, task)
  PROVE  /\ UploadQueued' <=> UploadQueued \/ task = Upload
         /\ OneUpload /\ (task # Upload \/ ~UploadQueued) => OneUpload'
         /\ FullTasks /\ (task = Upload \/ task.records # {}) => FullTasks'
<1>1. /\ Len(tasks) \in Nat /\ DOMAIN tasks = 1..Len(tasks) /\ DOMAIN tasks' = 1..Len(tasks) + 1
      /\ \A i \in DOMAIN tasks : tasks'[i] = tasks[i]
      /\ tasks'[Len(tasks) + 1] = task
  BY Appended
<1>2. \A i \in DOMAIN tasks' : i \in DOMAIN tasks \/ i = Len(tasks) + 1  BY <1>1
<1>3. Len(tasks) + 1 \in DOMAIN tasks' /\ \A i \in DOMAIN tasks : i \in DOMAIN tasks'  BY <1>1
<1>4. UploadQueued' <=> UploadQueued \/ task = Upload
  BY <1>1, <1>2, <1>3 DEF UploadQueued, Upload
<1>5. OneUpload /\ (task # Upload \/ ~UploadQueued) => OneUpload'
  BY <1>1, <1>2 DEF OneUpload, UploadQueued, Upload
<1>6. FullTasks /\ (task = Upload \/ task.records # {}) => FullTasks'
  BY <1>1, <1>2 DEF FullTasks, Upload
<1>. QED  BY <1>4, <1>5, <1>6

LEMMA LessTasks ==
  ASSUME tasks \in Seq(Tasks), NEW kind, Begin(kind)
  PROVE  /\ UploadQueued' => UploadQueued
         /\ Head(tasks) # Upload /\ UploadQueued => UploadQueued'
         /\ Head(tasks) = Upload => UploadQueued /\ (OneUpload => ~UploadQueued')
         /\ OneUpload => OneUpload'
         /\ FullTasks => FullTasks' /\ (Head(tasks) # Upload => Head(tasks).records # {})
<1>1. /\ Head(tasks) = tasks[1] /\ 1 \in DOMAIN tasks
      /\ DOMAIN tasks' = 1..Len(tasks) - 1 /\ DOMAIN tasks = 1..Len(tasks) /\ Len(tasks) \in Nat
      /\ \A i \in DOMAIN tasks' : i + 1 \in DOMAIN tasks /\ tasks'[i] = tasks[i + 1]
      /\ \A i \in DOMAIN tasks : i # 1 => i - 1 \in DOMAIN tasks' /\ tasks'[i - 1] = tasks[i]
  BY Begun
<1>2. ASSUME NEW i \in DOMAIN tasks', tasks'[i] = Upload  PROVE UploadQueued
  <2>1. i + 1 \in DOMAIN tasks /\ tasks[i + 1] = Upload  BY <1>1, <1>2
  <2>. QED  BY <2>1 DEF UploadQueued
<1>3. Head(tasks) # Upload /\ UploadQueued => UploadQueued'
  BY <1>1 DEF UploadQueued, Upload
<1>4. ASSUME Head(tasks) = Upload, OneUpload  PROVE ~UploadQueued'
  <2>1. SUFFICES ASSUME NEW i \in DOMAIN tasks', tasks'[i] = Upload  PROVE FALSE
    BY DEF UploadQueued, Upload
  <2>2. i + 1 \in DOMAIN tasks /\ tasks[i + 1] = Upload  BY <1>1, <2>1
  <2>3. i + 1 = 1  BY <1>1, <1>4, <2>2 DEF OneUpload
  <2>. QED  BY <1>1, <2>1, <2>3
<1>5. Head(tasks) = Upload => UploadQueued  BY <1>1 DEF UploadQueued
<1>6. OneUpload => OneUpload'
  <2>1. SUFFICES ASSUME OneUpload, NEW i \in DOMAIN tasks', NEW j \in DOMAIN tasks',
                        tasks'[i] = Upload, tasks'[j] = Upload
                 PROVE  i = j
    BY DEF OneUpload, Upload
  <2>2. i + 1 \in DOMAIN tasks /\ tasks[i + 1] = Upload /\ j + 1 \in DOMAIN tasks /\ tasks[j + 1] = Upload
    BY <1>1, <2>1
  <2>3. i + 1 = j + 1  BY <2>1, <2>2 DEF OneUpload
  <2>. QED  BY <1>1, <2>3
<1>7. FullTasks => FullTasks' /\ (Head(tasks) # Upload => Head(tasks).records # {})
  BY <1>1 DEF FullTasks, Upload
<1>8. UploadQueued' => UploadQueued  BY <1>2 DEF UploadQueued, Upload
<1>. QED  BY <1>3, <1>4, <1>5, <1>6, <1>7, <1>8

\* With one request, its answer is about all there is.
LEMMA OneAnswer ==
  ASSUME OrderInv, NEW q \in requests
  PROVE  /\ requests = {q} /\ q \in Requests
         /\ at \notin {"read", "backup", "fill", "post"} /\ ~UploadQueued
         /\ at = "write" => q.file # file
BY DEF OrderInv, TypeOK, Hands, InTurn, Uploading

LEMMA OrderByAnswers ==
  ASSUME OrderInv, Answers
  PROVE  InTurn' /\ Saved'
<1>. USE DEF OrderInv, schedule, thread, cloud, harm
<1>0. tasks \in Seq(Tasks)  BY DEF TypeOK
<1>1. ASSUME NEW q \in requests, OnNetworkError(q)  PROVE InTurn' /\ Saved'
  <2>1. /\ requests' = {} /\ UNCHANGED << tasks, thread, files >>
        /\ held' /\ (timer' <=> timer \/ ~held)
    BY <1>1, OneAnswer DEF OnNetworkError, ScheduleUploadIfNoOneScheduled
  <2>2. (UploadQueued' <=> UploadQueued) /\ OneUpload'
    BY <2>1 DEF UploadQueued, OneUpload, InTurn
  <2>3. ~UploadQueued /\ at \notin {"read", "backup", "fill", "post"}  BY OneAnswer
  <2>. QED  BY <2>1, <2>2, <2>3 DEF InTurn, Saved, Uploading
<1>2. ASSUME NEW q \in requests, NEW open, Go(q, open),
             UNCHANGED << schedule, thread, files, harm >>,
             UNCHANGED tasks \/ \E S \in SUBSET Records : tasks' = Append(tasks, Save(S))
      PROVE  InTurn' /\ Saved'
  <2>1. PICK p : requests' = {p} /\ p.file = q.file /\ p.records = q.records
    <3>1. requests = {q} /\ q \in Requests  BY OneAnswer
    <3>2. requests' = {[q EXCEPT !.open = open, !.state = "results"]}  BY <1>2, <3>1 DEF Go
    <3>3. [q EXCEPT !.open = open, !.state = "results"].file = q.file
          /\ [q EXCEPT !.open = open, !.state = "results"].records = q.records
      BY <3>1 DEF Requests
    <3>. QED  BY <3>2, <3>3
  <2>2. (UploadQueued' <=> UploadQueued) /\ OneUpload'
    <3>1. CASE UNCHANGED tasks
      BY <3>1 DEF UploadQueued, OneUpload, InTurn, Upload
    <3>2. ASSUME NEW S \in SUBSET Records, tasks' = Append(tasks, Save(S))
          PROVE  (UploadQueued' <=> UploadQueued) /\ OneUpload'
      <4>1. Save(S) \in Tasks /\ Save(S) # Upload  BY Kinds, SaveIsNoUpload
      <4>. QED  BY <1>0, <3>2, <4>1, MoreTasks DEF InTurn
    <3>. QED  BY <1>2, <3>1, <3>2
  <2>3. /\ ~UploadQueued /\ at \notin {"read", "backup", "fill", "post"}
        /\ q.records \ damaged \subseteq Holds(q.file)
    BY OneAnswer DEF Saved
  <2>4. InTurn'  BY <1>2, <2>1, <2>2, <2>3 DEF InTurn, Uploading
  <2>5. Saved'  BY <1>2, <2>1, <2>3 DEF Saved, Holds
  <2>. QED  BY <2>4, <2>5
<1>3. ASSUME NEW q \in requests,
             OnErrorOfAll(q) \/ \E r \in q.open : OnTaken(q, r) \/ OnError(q, r)
      PROVE  InTurn' /\ Saved'
  <2>1. q.records \in SUBSET Records /\ \A r \in q.open : {r} \in SUBSET Records
    BY OneAnswer DEF Requests
  <2>2. \E open : Go(q, open)
    BY <1>3 DEF OnErrorOfAll, OnTaken, OnError
  <2>3. UNCHANGED << schedule, thread, files, harm >>
    BY <1>3 DEF OnErrorOfAll, OnTaken, OnError
  <2>4. UNCHANGED tasks \/ \E S \in SUBSET Records : tasks' = Append(tasks, Save(S))
    BY <1>3, <2>1 DEF OnErrorOfAll, OnTaken, OnError
  <2>. QED  BY <1>2, <2>2, <2>3, <2>4
<1>4. ASSUME NEW q \in requests, OnProcessBatchResultEnd(q)  PROVE InTurn' /\ Saved'
  <2>1. requests' = {} /\ UNCHANGED << tasks, schedule, thread >>
    BY <1>4, OneAnswer DEF OnProcessBatchResultEnd
  <2>2. (UploadQueued' <=> UploadQueued) /\ OneUpload'
    BY <2>1 DEF UploadQueued, OneUpload, InTurn
  <2>. QED  BY <2>1, <2>2 DEF InTurn, Saved, Uploading
<1>. QED  BY <1>1, <1>3, <1>4 DEF Answers

LEMMA OrderByExecutor ==
  ASSUME OrderInv, Executor
  PROVE  InTurn' /\ Saved'
<1>. USE DEF OrderInv, schedule, thread, cloud, harm
<1>0. tasks \in Seq(Tasks) /\ batch \in SUBSET Records  BY DEF TypeOK
<1>1. CASE SaveLog
  <2>1. Head(tasks) # Upload /\ Begin("save")  BY <1>1 DEF SaveLog, Begin, Upload
  <2>2. (UploadQueued' <=> UploadQueued) /\ OneUpload'
    BY <1>0, <2>1, LessTasks DEF InTurn
  <2>3. UNCHANGED << schedule, files, requests, harm >> /\ at = "idle" /\ at' = "create"
    BY <1>1 DEF SaveLog, Begin
  <2>. QED  BY <2>2, <2>3 DEF InTurn, Uploading, Saved, Holds
<1>2. ASSUME NEW f \in Files, CreateFile(f)  PROVE InTurn' /\ Saved'
  <2>1. /\ UNCHANGED << tasks, schedule, requests, harm >>
        /\ (at = "create" /\ at' = "write") \/ (at = "backup" /\ at' = "fill")
    BY <1>2 DEF CreateFile
  <2>2. /\ \A q \in requests : q.file # f
        /\ DOMAIN files' = Pending \cup {f} /\ \A g \in Pending : files'[g] = files[g] \/ g = f
    BY <1>2 DEF CreateFile, Unused, Put
  <2>3. (UploadQueued' <=> UploadQueued) /\ OneUpload'
    BY <2>1 DEF UploadQueued, OneUpload, InTurn
  <2>4. InTurn'  BY <2>1, <2>3 DEF InTurn, Uploading
  <2>5. Saved'  BY <2>1, <2>2 DEF Saved, Holds
  <2>. QED  BY <2>4, <2>5
<1>3. CASE WriteLog
  <2>1. /\ UNCHANGED << tasks, requests, harm >> /\ held' /\ (timer' <=> timer \/ ~held)
        /\ at = "write" /\ at' = "idle"
    BY <1>3 DEF WriteLog, ScheduleUploadIfNoOneScheduled
  <2>2. \A q \in requests : q.file # file  BY <2>1 DEF Hands
  <2>3. Pending \subseteq DOMAIN files' /\ \A g \in Pending : g # file => files'[g] = files[g]
    BY <1>3 DEF WriteLog, Put
  <2>4. (UploadQueued' <=> UploadQueued) /\ OneUpload'
    BY <2>1 DEF UploadQueued, OneUpload, InTurn
  <2>5. InTurn'  BY <2>1, <2>4 DEF InTurn, Uploading
  <2>6. Saved'  BY <2>1, <2>2, <2>3 DEF Saved, Holds
  <2>. QED  BY <2>5, <2>6
<1>4. CASE UploadLog
  <2>1. Head(tasks) = Upload /\ Begin("upload")
    BY <1>0, <1>4, Begun, Kinds DEF UploadLog, Begin
  <2>2. UploadQueued /\ ~UploadQueued' /\ OneUpload'
    BY <1>0, <2>1, LessTasks DEF InTurn
  <2>3. held /\ ~timer /\ requests = {} /\ at = "idle"
    BY <1>4, <2>2 DEF InTurn, UploadLog, Begin
  <2>4. UNCHANGED << schedule, requests >> /\ at' \in {"idle", "read"}
    BY <1>4 DEF UploadLog
  <2>. QED  BY <2>2, <2>3, <2>4 DEF InTurn, Uploading, Saved, Holds
<1>5. ASSUME NEW f \in Files, ReadAndDelete(f)  PROVE InTurn' /\ Saved'
  <2>1. UNCHANGED << tasks, schedule, at, requests >> /\ requests = {}
    BY <1>5 DEF ReadAndDelete, InTurn
  <2>2. (UploadQueued' <=> UploadQueued) /\ OneUpload'
    BY <2>1 DEF UploadQueued, OneUpload, InTurn
  <2>. QED  BY <2>1, <2>2 DEF InTurn, Uploading, Saved, Holds
<1>6. CASE Consolidated
  <2>1. requests = {} /\ held /\ ~timer /\ ~UploadQueued /\ at = "read"
    BY <1>6 DEF Consolidated, InTurn
  <2>2. /\ UNCHANGED << tasks, timer, requests >>
        /\ (at' = "idle" /\ held') \/ (at' = "backup" /\ ~held')
    BY <1>6, <2>1 DEF Consolidated
  <2>3. ~UploadQueued' /\ OneUpload'
    BY <2>1, <2>2 DEF UploadQueued, OneUpload, InTurn
  <2>. QED  BY <2>1, <2>2, <2>3 DEF InTurn, Uploading, Saved, Holds
<1>7. CASE WriteBackup
  <2>1. /\ UNCHANGED << tasks, schedule, requests >> /\ at = "fill" /\ at' = "post"
        /\ requests = {}
    BY <1>7 DEF WriteBackup, InTurn, Uploading
  <2>2. (UploadQueued' <=> UploadQueued) /\ OneUpload'
    BY <2>1 DEF UploadQueued, OneUpload, InTurn
  <2>. QED  BY <2>1, <2>2 DEF InTurn, Uploading, Saved, Holds
<1>8. CASE Post
  <2>1. /\ at = "post" /\ batch \ damaged \subseteq Holds(file)
        /\ requests = {} /\ ~held /\ ~timer /\ ~UploadQueued
    BY <1>8 DEF Post, Hands, InTurn, Uploading
  <2>2. /\ UNCHANGED << tasks, schedule, files, harm >> /\ at' = "wait"
        /\ requests' = {[file |-> file, records |-> batch, open |-> batch, state |-> "sent"]}
    BY <1>8, <2>1 DEF Post, Wait
  <2>3. ~UploadQueued' /\ OneUpload'
    BY <2>1, <2>2 DEF UploadQueued, OneUpload, InTurn
  <2>4. InTurn'  BY <2>1, <2>2, <2>3 DEF InTurn, Uploading
  <2>5. Saved'  BY <2>1, <2>2 DEF Saved, Holds
  <2>. QED  BY <2>4, <2>5
<1>9. CASE DependencyError
  <2>1. at = "post" /\ requests = {} /\ ~held /\ ~timer /\ ~UploadQueued
    BY <1>9 DEF DependencyError, InTurn, Uploading
  <2>2. UNCHANGED << schedule, requests >> /\ at' = "wait"
    BY <1>9 DEF DependencyError, Wait
  <2>3. Save(batch) \in Tasks /\ Save(batch) # Upload  BY <1>0, Kinds, SaveIsNoUpload
  <2>4. ~UploadQueued' /\ OneUpload'
    BY <1>0, <1>9, <2>1, <2>3, MoreTasks DEF DependencyError, InTurn
  <2>. QED  BY <2>1, <2>2, <2>4 DEF InTurn, Uploading, Saved, Holds
<1>10. CASE WaitEnds
  <2>1. UNCHANGED << tasks, schedule, files, requests, harm >> /\ at = "wait" /\ at' = "idle"
    BY <1>10 DEF WaitEnds
  <2>2. (UploadQueued' <=> UploadQueued) /\ OneUpload'
    BY <2>1 DEF UploadQueued, OneUpload, InTurn
  <2>. QED  BY <2>1, <2>2 DEF InTurn, Uploading, Saved, Holds
<1>. QED
  BY <1>1, <1>2, <1>3, <1>4, <1>5, <1>6, <1>7, <1>8, <1>9, <1>10 DEF Executor

LEMMA OrderByOthers ==
  ASSUME "late" \notin mishaps', OrderInv,
         (\E r \in Records : Log(r)) \/ Due \/ Crash \/ UNCHANGED vars
  PROVE  InTurn' /\ Saved'
<1>. USE DEF OrderInv, schedule, thread, cloud, harm
<1>0. tasks \in Seq(Tasks) /\ \A r \in Records : {r} \in SUBSET Records  BY DEF TypeOK
<1>1. ASSUME NEW r \in Records, Log(r)  PROVE InTurn' /\ Saved'
  <2>1. Save({r}) \in Tasks /\ Save({r}) # Upload  BY <1>0, Kinds, SaveIsNoUpload
  <2>2. (UploadQueued' <=> UploadQueued) /\ OneUpload'
    BY <1>0, <1>1, <2>1, MoreTasks DEF Log, InTurn
  <2>3. UNCHANGED << schedule, thread, files, requests, harm >>  BY <1>1 DEF Log
  <2>. QED  BY <2>2, <2>3 DEF InTurn, Uploading, Saved, Holds
<1>2. CASE Due
  <2>1. UploadQueued' /\ OneUpload'
    BY <1>0, <1>2, Kinds, MoreTasks DEF Due, InTurn
  <2>2. /\ timer /\ requests = {} /\ ~timer' /\ held
        /\ UNCHANGED << held, thread, files, requests >>
    BY <1>2 DEF Due, InTurn, Mishap
  <2>. QED  BY <2>1, <2>2 DEF InTurn, Uploading, Saved
<1>3. CASE Crash
  <2>1. /\ (held' <=> Pending # {}) /\ (timer' <=> Pending # {})
        /\ tasks' = << >> /\ at' = "idle" /\ requests' = {}
    BY <1>3 DEF Crash, CheckPendingLogsAndScheduleUploadIfNeeded
  <2>2. DOMAIN tasks' = {}  BY <2>1
  <2>3. ~UploadQueued' /\ OneUpload'  BY <2>2 DEF UploadQueued, OneUpload
  <2>. QED  BY <2>1, <2>3 DEF InTurn, Uploading, Saved
<1>4. CASE UNCHANGED vars
  BY <1>4 DEF vars, InTurn, UploadQueued, OneUpload, Uploading, Upload, Saved, Holds
<1>. QED  BY <1>1, <1>2, <1>3, <1>4

LEMMA OrderByErrors ==
  ASSUME OrderInv, Errors
  PROVE  InTurn' /\ Saved'
<1>. USE DEF OrderInv, schedule, thread, cloud
<1>0. batch \in SUBSET Records  BY DEF TypeOK
<1>1. CASE WriteFails
  <2>1. /\ UNCHANGED << tasks, files, requests >> /\ held' /\ (timer' <=> timer \/ ~held)
        /\ at \in {"create", "write"} /\ at' = "idle"
    BY <1>1 DEF WriteFails, ScheduleUploadIfNoOneScheduled
  <2>2. damaged \subseteq damaged'  BY <1>1 DEF WriteFails, Mishap
  <2>3. (UploadQueued' <=> UploadQueued) /\ OneUpload'
    BY <2>1 DEF UploadQueued, OneUpload, InTurn
  <2>4. InTurn'  BY <2>1, <2>3 DEF InTurn, Uploading
  <2>5. Saved'  BY <2>1, <2>2 DEF Saved, Holds
  <2>. QED  BY <2>4, <2>5
<1>2. ASSUME NEW f \in Files, BackupFails(f)  PROVE InTurn' /\ Saved'
  <2>1. /\ UNCHANGED << tasks, schedule, requests >> /\ at \in {"backup", "fill"} /\ at' = "post"
        /\ requests = {}
    BY <1>2 DEF BackupFails, InTurn, Uploading
  <2>2. (UploadQueued' <=> UploadQueued) /\ OneUpload'
    BY <2>1 DEF UploadQueued, OneUpload, InTurn
  <2>. QED  BY <2>1, <2>2 DEF InTurn, Uploading, Saved
<1>3. ASSUME NEW f \in Files, ReadFails(f)  PROVE InTurn' /\ Saved'
  <2>1. UNCHANGED << tasks, schedule, at, requests >> /\ requests = {}
    BY <1>3 DEF ReadFails, InTurn
  <2>2. (UploadQueued' <=> UploadQueued) /\ OneUpload'
    BY <2>1 DEF UploadQueued, OneUpload, InTurn
  <2>. QED  BY <2>1, <2>2 DEF InTurn, Uploading, Saved
<1>4. ASSUME NEW q \in requests, OnMalformed(q)  PROVE InTurn' /\ Saved'
  <2>1. requests' = {} /\ UNCHANGED << tasks, schedule, thread >>
    BY <1>4, OneAnswer DEF OnMalformed
  <2>2. (UploadQueued' <=> UploadQueued) /\ OneUpload'
    BY <2>1 DEF UploadQueued, OneUpload, InTurn
  <2>. QED  BY <2>1, <2>2 DEF InTurn, Uploading, Saved
<1>. QED  BY <1>1, <1>2, <1>3, <1>4 DEF Errors

LEMMA OrderStep ==
  ASSUME "late" \notin mishaps', OrderInv, [Next]_vars
  PROVE  OrderInv'
<1>1. TypeOK' /\ Hands'  BY TypeStep, HandsStep DEF OrderInv
<1>2. InTurn' /\ Saved'
  BY OrderByOthers, OrderByAnswers, OrderByExecutor, OrderByErrors DEF Next
<1>. QED  BY <1>1, <1>2 DEF OrderInv

TurnParts == NoneEmpty /\ SomethingToSend /\ HeldNow

\* What is sent is not empty.
LEMMA FullAnswer ==
  ASSUME TurnInv, NEW q \in requests
  PROVE  q.records # {} /\ q.file \in Pending /\ q.records \subseteq files[q.file]
BY DEF TurnInv, NoneEmpty, Backed

LEMMA TurnByScheduling ==
  ASSUME TurnInv, "late" \notin mishaps', (\E r \in Records : Log(r)) \/ Due
  PROVE  TurnParts'
<1>. USE DEF TurnInv, OrderInv, schedule, thread, cloud, harm
<1>0. tasks \in Seq(Tasks) /\ \A r \in Records : {r} \in SUBSET Records  BY DEF TypeOK
<1>1. ASSUME NEW r \in Records, Log(r)  PROVE TurnParts'
  <2>1. Save({r}) \in Tasks /\ Save({r}) # Upload /\ Save({r}).records = {r}
    BY <1>0, Kinds, SaveIsNoUpload
  <2>2. (UploadQueued' <=> UploadQueued) /\ FullTasks'
    BY <1>0, <1>1, <2>1, MoreTasks DEF Log, InTurn, NoneEmpty
  <2>3. UNCHANGED << schedule, thread, files, requests >>  BY <1>1 DEF Log
  <2>4. NoneEmpty'  BY <2>2, <2>3 DEF NoneEmpty, Uploading
  <2>5. SomethingToSend'  BY <2>3 DEF SomethingToSend
  <2>6. HeldNow'
    BY <2>2, <2>3 DEF HeldNow, UploadComes, UploadQueued, Upload
  <2>. QED  BY <2>4, <2>5, <2>6 DEF TurnParts
<1>2. CASE Due
  <2>1. UploadQueued' /\ FullTasks'
    BY <1>0, <1>2, Kinds, MoreTasks DEF Due, InTurn, NoneEmpty
  <2>2. /\ timer /\ requests = {} /\ ~timer' /\ held
        /\ UNCHANGED << held, thread, files, requests >>
    BY <1>2 DEF Due, InTurn, Mishap
  <2>3. NoneEmpty'  BY <2>1, <2>2 DEF NoneEmpty, Uploading
  <2>4. SomethingToSend'  BY <2>2 DEF SomethingToSend
  <2>5. HeldNow'
    BY <2>1 DEF HeldNow, UploadComes, UploadQueued, Upload
  <2>. QED  BY <2>3, <2>4, <2>5 DEF TurnParts
<1>. QED  BY <1>1, <1>2

LEMMA TurnBySaving ==
  ASSUME TurnInv, SaveLog \/ WriteLog \/ \E f \in Files : CreateFile(f)
  PROVE  TurnParts'
<1>. USE DEF TurnInv, OrderInv, schedule, thread, cloud, harm
<1>0. tasks \in Seq(Tasks)  BY DEF TypeOK
<1>1. CASE SaveLog
  <2>1. Head(tasks) # Upload /\ Begin("save")  BY <1>1 DEF SaveLog, Begin, Upload
  <2>2. (UploadQueued' <=> UploadQueued) /\ FullTasks' /\ batch' # {}
    BY <1>0, <1>1, <2>1, LessTasks DEF SaveLog, InTurn, NoneEmpty
  <2>3. UNCHANGED << schedule, left, files, requests >> /\ at = "idle" /\ at' = "create"
    BY <1>1 DEF SaveLog, Begin
  <2>4. NoneEmpty'  BY <2>2, <2>3 DEF NoneEmpty, Uploading
  <2>5. SomethingToSend'  BY <2>3 DEF SomethingToSend
  <2>6. HeldNow'
    BY <2>2, <2>3 DEF HeldNow, UploadComes, UploadQueued, Upload
  <2>. QED  BY <2>4, <2>5, <2>6 DEF TurnParts
<1>2. ASSUME NEW f \in Files, CreateFile(f)  PROVE TurnParts'
  <2>1. /\ UNCHANGED << tasks, schedule, batch, left, requests >> /\ file' = f
        /\ \/ at = "create" /\ at' = "write"
           \/ at = "backup" /\ at' = "fill"
    BY <1>2 DEF CreateFile
  <2>2. /\ f \notin Pending /\ \A q \in requests : q.file # f
        /\ DOMAIN files' = Pending \cup {f} /\ \A g \in Pending : files'[g] = files[g]
    BY <1>2 DEF CreateFile, Unused, Put
  <2>3. (UploadQueued' <=> UploadQueued) /\ FullTasks'
    BY <2>1 DEF UploadQueued, FullTasks, InTurn, NoneEmpty
  <2>4. NoneEmpty'  BY <2>1, <2>2, <2>3 DEF NoneEmpty, Uploading
  <2>5. SomethingToSend'  BY <2>1, <2>2 DEF SomethingToSend
  <2>6. HeldNow'  BY <2>1 DEF HeldNow, UploadComes
  <2>. QED  BY <2>4, <2>5, <2>6 DEF TurnParts
<1>3. CASE WriteLog
  <2>1. /\ UNCHANGED << tasks, left, requests >> /\ held' /\ (timer' <=> timer \/ ~held)
        /\ at = "write" /\ at' = "idle"
    BY <1>3 DEF WriteLog, ScheduleUploadIfNoOneScheduled
  <2>2. file \in Pending /\ batch # {} /\ \A q \in requests : q.file # file
    BY <2>1 DEF Hands, NoneEmpty
  <2>3. /\ DOMAIN files' = Pending /\ files'[file] = batch
        /\ \A g \in Pending : g # file => files'[g] = files[g]
    BY <1>3, <2>2 DEF WriteLog, Put
  <2>4. (UploadQueued' <=> UploadQueued) /\ FullTasks'
    BY <2>1 DEF UploadQueued, FullTasks, InTurn, NoneEmpty
  <2>5. NoneEmpty'  BY <2>1, <2>2, <2>3, <2>4 DEF NoneEmpty, Uploading
  <2>6. SomethingToSend'  BY <2>1, <2>2, <2>3 DEF SomethingToSend
  <2>7. HeldNow'  BY <2>1 DEF HeldNow, UploadComes
  <2>. QED  BY <2>5, <2>6, <2>7 DEF TurnParts
<1>. QED  BY <1>1, <1>2, <1>3

LEMMA TurnByUploading ==
  ASSUME TurnInv,
         \/ UploadLog \/ Consolidated \/ WriteBackup \/ Post \/ DependencyError \/ WaitEnds
         \/ \E f \in Files : ReadAndDelete(f)
  PROVE  TurnParts'
<1>. USE DEF TurnInv, OrderInv, schedule, thread, cloud, harm
<1>0. tasks \in Seq(Tasks) /\ batch \in SUBSET Records  BY DEF TypeOK
<1>1. CASE UploadLog
  <2>1. Head(tasks) = Upload /\ Begin("upload")
    BY <1>0, <1>1, Begun, Kinds DEF UploadLog, Begin
  <2>2. UploadQueued /\ ~UploadQueued' /\ FullTasks'
    BY <1>0, <2>1, LessTasks DEF InTurn, NoneEmpty
  <2>3. held /\ ~timer /\ requests = {} /\ at = "idle"
    BY <1>1, <2>2 DEF InTurn, UploadLog, Begin
  <2>4. \E f \in Pending : files[f] # {}  BY <2>3 DEF SomethingToSend
  <2>5. /\ UNCHANGED << schedule, files, batch, file, requests >>
        /\ left' = Pending /\ at' = "read"
    BY <1>1, <2>4 DEF UploadLog
  <2>6. NoneEmpty'  BY <2>2, <2>3, <2>5 DEF NoneEmpty, Uploading
  <2>7. SomethingToSend' /\ HeldNow'
    BY <2>3, <2>4, <2>5 DEF SomethingToSend, HeldNow, UploadComes
  <2>. QED  BY <2>6, <2>7 DEF TurnParts
<1>2. ASSUME NEW f \in Files, ReadAndDelete(f)  PROVE TurnParts'
  <2>1. /\ UNCHANGED << tasks, schedule, at, file, requests >> /\ at = "read" /\ requests = {}
        /\ left' = left \ {f} /\ DOMAIN files' = Pending \ {f}
        /\ \A g \in Pending \ {f} : files'[g] = files[g]
        /\ batch' = batch \cup (IF f \in Pending THEN files[f] ELSE {})
    BY <1>2 DEF ReadAndDelete, Delete, InTurn
  <2>2. (UploadQueued' <=> UploadQueued) /\ FullTasks'
    BY <2>1 DEF UploadQueued, FullTasks, InTurn, NoneEmpty
  <2>3. NoneEmpty'  BY <2>1, <2>2 DEF NoneEmpty, Uploading
  <2>4. SomethingToSend'  BY <2>1 DEF SomethingToSend
  <2>5. HeldNow'  BY <2>1 DEF HeldNow, UploadComes
  <2>. QED  BY <2>3, <2>4, <2>5 DEF TurnParts
<1>3. CASE Consolidated
  <2>1. batch # {} /\ requests = {} /\ held /\ ~timer /\ ~UploadQueued /\ at = "read"
    BY <1>3 DEF Consolidated, SomethingToSend, InTurn
  <2>2. UNCHANGED << tasks, timer, batch, file, files, requests >> /\ ~held' /\ at' = "backup"
    BY <1>3, <2>1 DEF Consolidated
  <2>3. ~UploadQueued' /\ FullTasks'
    BY <2>1, <2>2 DEF UploadQueued, FullTasks, InTurn, NoneEmpty
  <2>4. NoneEmpty'  BY <2>1, <2>2, <2>3 DEF NoneEmpty, Uploading
  <2>5. SomethingToSend' /\ HeldNow'
    BY <2>1, <2>2 DEF SomethingToSend, HeldNow, UploadComes
  <2>. QED  BY <2>4, <2>5 DEF TurnParts
<1>4. CASE WriteBackup
  <2>1. file \in Pending /\ batch # {} /\ requests = {} /\ ~held /\ at = "fill"
    BY <1>4 DEF WriteBackup, Hands, NoneEmpty, InTurn, Uploading
  <2>2. /\ UNCHANGED << tasks, schedule, batch, file, requests >> /\ at' = "post"
        /\ DOMAIN files' = Pending /\ files'[file] = batch
        /\ \A g \in Pending : g # file => files'[g] = files[g]
    BY <1>4, <2>1 DEF WriteBackup, Put
  <2>3. (UploadQueued' <=> UploadQueued) /\ FullTasks'
    BY <2>2 DEF UploadQueued, FullTasks, InTurn, NoneEmpty
  <2>4. NoneEmpty'  BY <2>1, <2>2, <2>3 DEF NoneEmpty, Uploading
  <2>5. SomethingToSend' /\ HeldNow'
    BY <2>1, <2>2 DEF SomethingToSend, HeldNow, UploadComes
  <2>. QED  BY <2>4, <2>5 DEF TurnParts
<1>5. CASE Post
  <2>1. /\ at = "post" /\ batch # {}
        /\ requests = {} /\ ~held /\ ~timer /\ ~UploadQueued
    BY <1>5 DEF Post, Hands, NoneEmpty, InTurn, Uploading
  <2>2. /\ UNCHANGED << tasks, schedule, files >> /\ at' = "wait"
        /\ requests' = {[file |-> file, records |-> batch, open |-> batch, state |-> "sent"]}
    BY <1>5, <2>1 DEF Post, Wait
  <2>3. ~UploadQueued' /\ FullTasks'
    BY <2>1, <2>2 DEF UploadQueued, FullTasks, InTurn, NoneEmpty
  <2>4. NoneEmpty'  BY <2>1, <2>2, <2>3 DEF NoneEmpty, Uploading
  <2>5. SomethingToSend' /\ HeldNow'
    BY <2>1, <2>2 DEF SomethingToSend, HeldNow, UploadComes
  <2>. QED  BY <2>4, <2>5 DEF TurnParts
<1>6. CASE DependencyError
  <2>1. at = "post" /\ batch # {} /\ requests = {} /\ ~held /\ ~timer /\ ~UploadQueued
    BY <1>6 DEF DependencyError, NoneEmpty, InTurn, Uploading
  <2>2. UNCHANGED << schedule, files, requests >> /\ at' = "wait"
    BY <1>6 DEF DependencyError, Wait
  <2>3. Save(batch) \in Tasks /\ Save(batch) # Upload /\ Save(batch).records = batch
    BY <1>0, Kinds, SaveIsNoUpload
  <2>4. ~UploadQueued' /\ FullTasks'
    BY <1>0, <1>6, <2>1, <2>3, MoreTasks DEF DependencyError, InTurn, NoneEmpty
  <2>5. NoneEmpty'  BY <2>1, <2>2, <2>4 DEF NoneEmpty, Uploading
  <2>6. SomethingToSend' /\ HeldNow'
    BY <2>1, <2>2 DEF SomethingToSend, HeldNow, UploadComes
  <2>. QED  BY <2>5, <2>6 DEF TurnParts
<1>7. CASE WaitEnds
  <2>1. UNCHANGED << tasks, schedule, batch, file, left, files, requests >> /\ at = "wait" /\ at' = "idle"
    BY <1>7 DEF WaitEnds
  <2>2. (UploadQueued' <=> UploadQueued) /\ FullTasks'
    BY <2>1 DEF UploadQueued, FullTasks, InTurn, NoneEmpty
  <2>3. NoneEmpty'  BY <2>1, <2>2 DEF NoneEmpty, Uploading
  <2>4. SomethingToSend' /\ HeldNow'
    BY <2>1 DEF SomethingToSend, HeldNow, UploadComes
  <2>. QED  BY <2>3, <2>4 DEF TurnParts
<1>. QED  BY <1>1, <1>2, <1>3, <1>4, <1>5, <1>6, <1>7

LEMMA TurnByAnswers ==
  ASSUME TurnInv, Answers
  PROVE  TurnParts'
<1>. USE DEF TurnInv, OrderInv, schedule, thread, cloud, harm
<1>0. tasks \in Seq(Tasks)  BY DEF TypeOK
<1>1. ASSUME NEW q \in requests, OnNetworkError(q)  PROVE TurnParts'
  <2>1. /\ requests' = {} /\ UNCHANGED << tasks, thread, files >>
        /\ held' /\ (timer' <=> timer \/ ~held)
    BY <1>1, OneAnswer DEF OnNetworkError, ScheduleUploadIfNoOneScheduled
  <2>2. (UploadQueued' <=> UploadQueued) /\ FullTasks'
    BY <2>1 DEF UploadQueued, FullTasks, InTurn, NoneEmpty
  <2>3. ~UploadQueued /\ at \notin {"read", "backup", "fill", "post"}  BY OneAnswer
  <2>4. q.file \in Pending /\ files[q.file] # {}  BY OneAnswer, FullAnswer
  <2>5. NoneEmpty'  BY <2>1, <2>2 DEF NoneEmpty, Uploading
  <2>6. SomethingToSend'
    BY <2>1, <2>3, <2>4 DEF SomethingToSend
  <2>7. HeldNow'  BY <2>1 DEF HeldNow, UploadComes
  <2>. QED  BY <2>5, <2>6, <2>7 DEF TurnParts
<1>2. ASSUME NEW q \in requests, NEW open, Go(q, open), UNCHANGED << schedule, thread, files >>,
             \/ UNCHANGED tasks
             \/ \E S \in SUBSET Records : S # {} /\ tasks' = Append(tasks, Save(S))
      PROVE  TurnParts'
  <2>1. \E p : requests' = {p} /\ p.file = q.file /\ p.records = q.records
    <3>1. requests = {q} /\ q \in Requests  BY OneAnswer
    <3>2. requests' = {[q EXCEPT !.open = open, !.state = "results"]}  BY <1>2, <3>1 DEF Go
    <3>3. [q EXCEPT !.open = open, !.state = "results"].file = q.file
          /\ [q EXCEPT !.open = open, !.state = "results"].records = q.records
      BY <3>1 DEF Requests
    <3>. QED  BY <3>2, <3>3
  <2>2. PICK p : requests' = {p} /\ p.file = q.file /\ p.records = q.records  BY <2>1
  <2>3. (UploadQueued' <=> UploadQueued) /\ FullTasks'
    <3>1. CASE UNCHANGED tasks
      BY <3>1 DEF UploadQueued, FullTasks, InTurn, NoneEmpty, Upload
    <3>2. ASSUME NEW S \in SUBSET Records, S # {}, tasks' = Append(tasks, Save(S))
          PROVE  (UploadQueued' <=> UploadQueued) /\ FullTasks'
      <4>1. Save(S) \in Tasks /\ Save(S) # Upload /\ Save(S).records = S
        BY Kinds, SaveIsNoUpload
      <4>. QED  BY <1>0, <3>2, <4>1, MoreTasks DEF InTurn, NoneEmpty
    <3>. QED  BY <1>2, <3>1, <3>2
  <2>4. /\ ~UploadQueued /\ at \notin {"read", "backup", "fill", "post"}
        /\ requests = {q} /\ q.records # {} /\ q.file \in Pending /\ q.records \subseteq files[q.file]
    BY OneAnswer, FullAnswer
  <2>5. NoneEmpty'  BY <1>2, <2>2, <2>3, <2>4 DEF NoneEmpty, Uploading
  <2>6. SomethingToSend'  BY <1>2, <2>2, <2>4 DEF SomethingToSend
  <2>7. HeldNow'
    BY <1>2, <2>3 DEF HeldNow, UploadComes, UploadQueued, Upload
  <2>. QED  BY <2>5, <2>6, <2>7 DEF TurnParts
<1>3. ASSUME NEW q \in requests, OnErrorOfAll(q)  PROVE TurnParts'
  <2>1. q.records \in SUBSET Records /\ q.records # {}  BY OneAnswer, FullAnswer DEF Requests
  <2>. QED  BY <1>2, <1>3, <2>1 DEF OnErrorOfAll
<1>4. ASSUME NEW q \in requests, NEW r \in q.open, OnTaken(q, r) \/ OnError(q, r)
      PROVE  TurnParts'
  <2>1. {r} \in SUBSET Records  BY OneAnswer DEF Requests
  <2>2. CASE OnTaken(q, r)  BY <1>2, <2>2 DEF OnTaken
  <2>3. CASE OnError(q, r)
    <3>1. \E S \in SUBSET Records : S # {} /\ tasks' = Append(tasks, Save(S))
      BY <2>1, <2>3 DEF OnError
    <3>2. Go(q, q.open \ {r}) /\ UNCHANGED << schedule, thread, files >>  BY <2>3 DEF OnError
    <3>. QED  BY <1>2, <3>1, <3>2
  <2>. QED  BY <1>4, <2>2, <2>3
<1>5. ASSUME NEW q \in requests, OnProcessBatchResultEnd(q)  PROVE TurnParts'
  <2>1. /\ requests = {q} /\ requests' = {} /\ UNCHANGED << tasks, schedule, thread >>
        /\ DOMAIN files' = Pending \ {q.file}
        /\ \A g \in Pending \ {q.file} : files'[g] = files[g]
    BY <1>5, OneAnswer DEF OnProcessBatchResultEnd, Delete
  <2>2. (UploadQueued' <=> UploadQueued) /\ FullTasks'
    BY <2>1 DEF UploadQueued, FullTasks, InTurn, NoneEmpty
  <2>3. at \notin {"read", "backup", "fill", "post"}  BY OneAnswer
  <2>4. NoneEmpty'  BY <2>1, <2>2 DEF NoneEmpty, Uploading
  <2>5. SomethingToSend'  BY <2>1, <2>3 DEF SomethingToSend
  <2>6. HeldNow'  BY <2>1 DEF HeldNow, UploadComes
  <2>. QED  BY <2>4, <2>5, <2>6 DEF TurnParts
<1>. QED  BY <1>1, <1>3, <1>4, <1>5 DEF Answers

LEMMA TurnByCrash ==
  ASSUME TurnInv, "torn" \notin mishaps', Crash
  PROVE  TurnParts'
<1>. USE DEF TurnInv, OrderInv
<1>1. /\ (held' <=> Pending # {}) /\ (timer' <=> Pending # {})
      /\ tasks' = << >> /\ at' = "idle" /\ requests' = {} /\ files' = files
      /\ \A f \in Pending : files[f] # {}
  BY DEF Crash, CheckPendingLogsAndScheduleUploadIfNeeded, NoneEmpty
<1>2. DOMAIN tasks' = {}  BY <1>1
<1>3. ~UploadQueued' /\ FullTasks'
  BY <1>2 DEF UploadQueued, OneUpload, FullTasks
<1>4. NoneEmpty'  BY <1>1, <1>3 DEF NoneEmpty, Uploading
<1>5. SomethingToSend'  BY <1>1 DEF SomethingToSend
<1>6. HeldNow'  BY <1>1 DEF HeldNow, UploadComes
<1>. QED  BY <1>4, <1>5, <1>6 DEF TurnParts

\* An answer that is malformed ends its request like any other, and any other
\* fault is one of those that are excluded here.
LEMMA TurnByErrors ==
  ASSUME TurnInv, mishaps' \subseteq {"answer"}, Errors
  PROVE  TurnParts'
<1>. USE DEF TurnInv, OrderInv, schedule, thread, cloud
<1>1. PICK q \in requests : OnMalformed(q)
  BY DEF Errors, WriteFails, BackupFails, ReadFails, Mishap
<1>2. /\ requests = {q} /\ requests' = {} /\ UNCHANGED << tasks, schedule, thread >>
      /\ DOMAIN files' = Pending \ {q.file}
      /\ \A g \in Pending \ {q.file} : files'[g] = files[g]
  BY <1>1, OneAnswer DEF OnMalformed, Delete
<1>3. (UploadQueued' <=> UploadQueued) /\ FullTasks'
  BY <1>2 DEF UploadQueued, FullTasks, InTurn, NoneEmpty
<1>4. at \notin {"read", "backup", "fill", "post"}  BY OneAnswer
<1>5. NoneEmpty'  BY <1>2, <1>3 DEF NoneEmpty, Uploading
<1>6. SomethingToSend'  BY <1>2, <1>4 DEF SomethingToSend
<1>7. HeldNow'  BY <1>2 DEF HeldNow, UploadComes
<1>. QED  BY <1>5, <1>6, <1>7 DEF TurnParts

LEMMA BackedStep ==
  ASSUME TurnInv, mishaps' \subseteq {"answer"}, [Next]_vars
  PROVE  Backed'
<1>. USE DEF TurnInv, OrderInv, Backed, schedule, thread, cloud, harm
<1>1. CASE (\E r \in Records : Log(r)) \/ Due \/ UNCHANGED vars
  BY <1>1 DEF Log, Due, vars
<1>2. CASE SaveLog \/ UploadLog \/ Consolidated \/ DependencyError \/ WaitEnds
  BY <1>2 DEF SaveLog, UploadLog, Consolidated, DependencyError, WaitEnds
<1>3. ASSUME NEW f \in Files, CreateFile(f)  PROVE Backed'
  BY <1>3 DEF CreateFile, Put, Unused
<1>4. CASE WriteLog \/ WriteBackup
  BY <1>4 DEF WriteLog, WriteBackup, Put, Hands
<1>5. ASSUME NEW f \in Files, ReadAndDelete(f)  PROVE Backed'
  BY <1>5 DEF ReadAndDelete, InTurn
<1>6. CASE Post
  <2>1. file \in Pending /\ files[file] = batch  BY <1>6 DEF Post, Hands
  <2>. QED  BY <1>6, <2>1 DEF Post
<1>7. ASSUME NEW q \in requests, OnNetworkError(q) \/ OnProcessBatchResultEnd(q)  PROVE Backed'
  BY <1>7, OneAnswer DEF OnNetworkError, OnProcessBatchResultEnd
<1>8. ASSUME NEW q \in requests, OnErrorOfAll(q) \/ \E r \in q.open : OnTaken(q, r) \/ OnError(q, r)
      PROVE  Backed'
  <2>1. PICK open : Go(q, open)  BY <1>8 DEF OnErrorOfAll, OnTaken, OnError
  <2>2. files' = files  BY <1>8 DEF OnErrorOfAll, OnTaken, OnError
  <2>. QED  BY <2>1, <2>2, SameRequests
<1>9. CASE Crash
  BY <1>9 DEF Crash
<1>10. CASE Errors
  BY <1>10, OneAnswer DEF Errors, WriteFails, BackupFails, ReadFails, OnMalformed, Mishap
<1>. QED
  BY <1>1, <1>2, <1>3, <1>4, <1>5, <1>6, <1>7, <1>8, <1>9, <1>10 DEF Next, Executor, Answers

LEMMA TurnStep ==
  ASSUME mishaps' \subseteq {"answer"}, TurnInv, [Next]_vars
  PROVE  TurnInv'
<1>1. OrderInv' /\ Backed'  BY OrderStep, BackedStep DEF TurnInv
<1>. SUFFICES TurnParts'  BY <1>1 DEF TurnInv, TurnParts
<1>2. CASE (\E r \in Records : Log(r)) \/ Due
  BY <1>2, TurnByScheduling
<1>3. CASE SaveLog \/ WriteLog \/ \E f \in Files : CreateFile(f)
  BY <1>3, TurnBySaving
<1>4. CASE \/ UploadLog \/ Consolidated \/ WriteBackup \/ Post \/ DependencyError \/ WaitEnds
           \/ \E f \in Files : ReadAndDelete(f)
  BY <1>4, TurnByUploading
<1>5. CASE Answers
  BY <1>5, TurnByAnswers
<1>6. CASE Crash
  BY <1>6, TurnByCrash
<1>7. CASE UNCHANGED vars
  <2>. USE <1>7 DEF TurnInv, vars, schedule, thread, cloud, harm
  <2>1. NoneEmpty'  BY DEF NoneEmpty, FullTasks, Uploading, Upload
  <2>2. SomethingToSend'  BY DEF SomethingToSend
  <2>3. HeldNow'  BY DEF HeldNow, UploadComes, Upload
  <2>. QED  BY <2>1, <2>2, <2>3 DEF TurnParts
<1>8. CASE Errors
  BY <1>8, TurnByErrors
<1>. QED
  BY <1>2, <1>3, <1>4, <1>5, <1>6, <1>7, <1>8 DEF Next, Executor

LEMMA InitTurn ==
  Init => TurnInv
<1>. SUFFICES ASSUME Init  PROVE TurnInv
  OBVIOUS
<1>1. DOMAIN tasks = {} /\ DOMAIN files = {} /\ requests = {} /\ ~held /\ ~timer /\ at = "idle"
  BY DEF Init
<1>2. InTurn /\ Backed /\ NoneEmpty /\ SomethingToSend /\ Saved /\ HeldNow
  BY <1>1 DEF InTurn, Backed, Saved, NoneEmpty, SomethingToSend, HeldNow, UploadComes,
     UploadQueued, OneUpload, FullTasks, Uploading
<1>. QED  BY <1>2, InitHands DEF TurnInv, OrderInv

\* No mishap is forgotten.
LEMMA MishapsStay ==
  ASSUME TypeOK, [Next]_vars
  PROVE  mishaps \subseteq mishaps'
BY DEF Next, Log, Due, Executor, Answers, Errors, SaveLog, WriteLog, UploadLog,
   Consolidated, WriteBackup, Post, DependencyError, WaitEnds, CreateFile,
   ReadAndDelete, OnNetworkError, OnErrorOfAll, OnProcessBatchResultEnd, OnTaken,
   OnError, WriteFails, BackupFails, ReadFails, OnMalformed, Mishap, Crash, vars, harm

LEMMA EverHolds == Spec => []Ever
<1>1. Init => Ever
  BY InitHands, InitTurn DEF Ever, TurnInv
<1>2. ASSUME Ever, [Next]_vars  PROVE Ever'
  <2>1. TypeOK' /\ Hands' /\ mishaps \subseteq mishaps'
    BY <1>2, TypeStep, HandsStep, MishapsStay DEF Ever
  <2>2. ASSUME "late" \notin mishaps'  PROVE OrderInv'
    BY <1>2, <2>1, <2>2, OrderStep DEF Ever
  <2>3. ASSUME mishaps' \subseteq {"answer"}  PROVE TurnInv'
    BY <1>2, <2>1, <2>3, TurnStep DEF Ever
  <2>. QED  BY <2>1, <2>2, <2>3 DEF Ever
<1>. QED  BY <1>1, <1>2, PTL DEF Spec

\* For any number of records, crashes and faults: as long as answers come before
\* the next upload, the records of an open request are in a file, but for those
\* a fault has touched.
THEOREM InFlightIsSavedHolds == Spec => []InFlightIsSaved
<1>1. Ever => InFlightIsSaved  BY DEF Ever, OrderInv, Saved, InFlightIsSaved
<1>. QED  BY <1>1, EverHolds, PTL

\* So what the comment promises holds from the request on: a process that dies
\* takes no record of the upload with it.
THEOREM UploadSurvivesCrashHolds == Spec => UploadSurvivesCrash
<1>. DEFINE Survives == crashes' # crashes /\ "late" \notin mishaps =>
              /\ \A q \in requests : q.records \cap lost' \subseteq damaged
              /\ at = "post" => batch \cap lost' \subseteq damaged
<1>1. ASSUME Ever, "late" \notin mishaps, [Next]_vars, crashes' # crashes
      PROVE  /\ \A q \in requests : q.records \cap lost' \subseteq damaged
             /\ at = "post" => batch \cap lost' \subseteq damaged
  <2>1. Crash
    BY <1>1 DEF Next, Log, Due, Executor, Answers, Errors, SaveLog, WriteLog, UploadLog,
       Consolidated, WriteBackup, Post, DependencyError, WaitEnds, CreateFile,
       ReadAndDelete, OnNetworkError, OnErrorOfAll, OnProcessBatchResultEnd, OnTaken,
       OnError, WriteFails, BackupFails, ReadFails, OnMalformed, vars
  <2>2. lost' = logged \ (answered \cup Stored)  BY <2>1 DEF Crash
  <2>3. \A f \in Files : Holds(f) \subseteq Stored  BY DEF Stored, Holds
  <2>4. \A q \in requests : q.records \ damaged \subseteq Stored
    BY <1>1, <2>3 DEF Ever, OrderInv, Saved, TypeOK, Requests
  <2>5. at = "post" => batch \ damaged \subseteq Stored
    BY <1>1, <2>3 DEF Ever, Hands
  <2>. QED  BY <2>2, <2>4, <2>5
<1>2. Ever /\ [Next]_vars => [Survives]_vars  BY <1>1
<1>. QED  BY <1>2, EverHolds, PTL DEF Spec, UploadSurvivesCrash

\* scheduledUpload is left set with no upload to come, which would keep the
\* files until the app is started again, only after one of the mishaps an upload
\* may find nothing to send after: a file not written, torn or not readable, or
\* an answer later than the next upload.
THEOREM HeldIsScheduledHolds == Spec => []HeldIsScheduled
<1>1. Ever => HeldIsScheduled  BY DEF Ever, TurnInv, HeldNow, HeldIsScheduled
<1>. QED  BY <1>1, EverHolds, PTL

\* And without such a mishap no saved record is forgotten: something is to come
\* that uploads it, whatever answers do and however often the process dies.
THEOREM StoredIsScheduledHolds == Spec => []StoredIsScheduled
<1>1. StoredInv /\ Ever => StoredIsScheduled
  BY DEF StoredInv, StoredIsMeant, SaveComes, Ever, TurnInv, HeldNow, StoredIsScheduled
<1>. QED  BY <1>1, StoredIsMeantHolds, EverHolds, PTL
=============================================================================
