---------------------------- MODULE TransferQueue ----------------------------
(***************************************************************************)
(* The SFTP transfer queue of SftpBrowserTab and the probe calls it makes. *)
(*                                                                         *)
(* Everything runs on the GUI thread.  startTransferQueue is one call that *)
(* walks the queue; between its steps it lets the event loop deliver       *)
(* events (QApplication::processEvents in setQueueItemStatus, around the   *)
(* progress dialog and in refreshRemoteDirectory), so a click on a widget  *)
(* that is enabled at that moment runs its handler in the middle of the    *)
(* call.  pc names the point where the call stands; the points in Yields   *)
(* are those where the main window can take a click.  Other programs may   *)
(* change both file trees between any two steps.                           *)
(***************************************************************************)
EXTENDS FileTree, Rows, Integers, FiniteSets

CONSTANTS
  Jobs,      \* what the user may queue: direction, source and target
  Local0,    \* the local tree at the start
  Remote0,   \* the remote tree at the start
  Foreign,   \* the nodes other programs may leave behind
  MaxItems,  \* bound: items in the queue
  MaxEnv,    \* bound: changes made by other programs
  MaxFrames  \* bound: calls suspended in refreshRemoteDirectory

LocalDelete  == {"Delete local file", "Delete local dir"}
RemoteDelete == {"Delete remote file", "Delete remote dir"}
Direction ==
  {"Create local dir", "Create remote dir", "Download", "Upload"}
    \cup LocalDelete \cup RemoteDelete

Final  == {"Done", "Failed", "Cancelled", "Skipped"}
Status == Final \cup {"Pending", "Running"}

Job   == [direction : Direction, source : Path, target : Path]
Entry == [direction : Direction, source : Path, target : Path, status : Status]

\* Each direction names a source and a target on the right side.
WellSided(job) ==
  /\ job.direction \in {"Upload", "Create remote dir"} \cup LocalDelete
       => job.source \in LocalPath
  /\ job.direction \in {"Download", "Create local dir"} \cup RemoteDelete
       => job.source \in RemotePath
  /\ job.direction \in {"Upload", "Create remote dir"} \cup RemoteDelete
       => job.target \in RemotePath
  /\ job.direction \in {"Download", "Create local dir"} \cup LocalDelete
       => job.target \in LocalPath

ASSUME QueueAssumption ==
  /\ Jobs \subseteq Job
  /\ \A job \in Jobs : WellSided(job)
  /\ Local0 \in LocalTree /\ WellFormed(Local0)
  /\ Remote0 \in RemoteTree /\ WellFormed(Remote0)
  /\ Foreign \subseteq Content \cup {Absent, Dir}
  /\ MaxItems \in Nat /\ MaxEnv \in Nat /\ MaxFrames \in Nat

VARIABLES
  queue,     \* m_transferQueue
  running,   \* m_transferQueueRunning
  pc,        \* where the running call stands; "loop" is the event loop
  i,         \* the loop index of startTransferQueue (first item is 1)
  run,       \* its flags, its stop flag and its four counters
  op,        \* the current item: overwrite flags and the probe's result
  ref,       \* does the held reference m_transferQueue[i] still name an item
  frames,    \* calls suspended in refreshRemoteDirectory, outermost first
  locks,     \* which widgets are disabled: remote navigation, queue buttons
  local,     \* the local file tree
  remote,    \* the remote file tree
  envLeft,   \* changes other programs may still make
  user       \* history: what the user decided during the current run

vars == <<queue, running, pc, i, run, op, ref, frames, locks, local, remote,
          envLeft, user>>
disks == <<local, remote>>
-----------------------------------------------------------------------------
(***************************************************************************)
(* Control points, and what a click can reach there.                       *)
(***************************************************************************)

\* Points inside an item where processEvents runs with no modal dialog up.
Yields  == {"took", "deleting", "transfer", "closed", "marked"}
\* Points inside an item behind a modal dialog or a blocking call.
Modal   == {"confirm", "overwrite", "probe", "stream", "askContinue"}
InItem  == Yields \cup Modal
Control == InItem \cup {"loop", "next", "crashed"}

Outcome == {"none", "ok", "failed", "cancelled", "exists", "isdir", "stopped"}

Direct == {"Download", "Upload"}

RunState == [overwriteAll : SUBSET Direction, skipAll : SUBSET Direction,
             stop : BOOLEAN, count : [Final -> Nat]]
OpState == [allow : BOOLEAN, retried : BOOLEAN, saw : BOOLEAN,
            data : Content \cup {Torn, Absent}, outcome : Outcome]
LockState == [nav : BOOLEAN, add : BOOLEAN]
Words == [approved : SUBSET Nat, approvedAll : SUBSET Direction,
          confirmed : SUBSET Nat, took : SUBSET Nat, stop : BOOLEAN]

NewRun == [overwriteAll |-> {}, skipAll |-> {}, stop |-> FALSE,
           count |-> [s \in Final |-> 0]]
NewOp == [allow |-> FALSE, retried |-> FALSE, saw |-> FALSE, data |-> Absent,
          outcome |-> "none"]
NoWord == [approved |-> {}, approvedAll |-> {}, confirmed |-> {}, took |-> {},
           stop |-> FALSE]

Unlocked == [nav |-> FALSE, add |-> FALSE]
Locked   == [nav |-> TRUE, add |-> TRUE]

\* Seeded fault: the queue buttons forget the run too.
FreeDuringRun(isRunning) == [nav |-> FALSE, add |-> FALSE]

\* setRemoteBusy(false): the queue buttons alone look at m_transferQueueRunning.
RemoteFree(isRunning) == [nav |-> FALSE, add |-> isRunning]

Init ==
  /\ queue = <<>> /\ running = FALSE /\ pc = "loop" /\ i = 1
  /\ run = NewRun /\ op = NewOp /\ ref = TRUE
  /\ frames = <<>> /\ locks = Unlocked
  /\ local = Local0 /\ remote = Remote0
  /\ envLeft = MaxEnv /\ user = NoWord

\* Seeded fault: a status word the queue does not know.
ItemQueued(job) == [direction |-> job.direction, source |-> job.source,
                    target |-> job.target, status |-> "Queued"]

Item(job) == [direction |-> job.direction, source |-> job.source,
              target |-> job.target, status |-> "Pending"]

AnyPending == \E k \in DOMAIN queue : queue[k].status = "Pending"

-----------------------------------------------------------------------------
(***************************************************************************)
(* Editing the queue.  Handlers that return at once while a run is active  *)
(* are enabled at the event loop only.                                     *)
(***************************************************************************)

Add(job) ==
  /\ Len(queue) < MaxItems
  /\ queue' = Append(queue, Item(job))

\* Queue upload / Queue download: files of the selection, and what the folder
\* scans add.  The remote table may be older than the remote tree.
QueueTransfer(job) ==
  /\ pc = "loop" /\ ~locks.add
  /\ \/ job.direction = "Upload" /\ IsFile(local[job.source])
     \/ job.direction = "Create remote dir" /\ local[job.source] = Dir
     \/ job.direction \in {"Download", "Create local dir"}
  /\ Add(job)
  /\ UNCHANGED <<running, pc, i, run, op, ref, frames, locks, local, remote,
                 envLeft, user>>

\* Delete remote: not disabled by a refresh, only by a run.
QueueRemoteDelete(job) ==
  /\ pc = "loop"
  /\ job.direction \in RemoteDelete
  /\ Add(job)
  /\ UNCHANGED <<running, pc, i, run, op, ref, frames, locks, local, remote,
                 envLeft, user>>

\* Delete local: enabled and disabled with the remote panel, and the handler
\* does not look at m_transferQueueRunning.  An append made inside a run may
\* move the list and leave the run's item reference dangling.
QueueLocalDelete(job) ==
  /\ pc \in {"loop"} \cup Yields /\ ~locks.nav
  /\ \/ /\ job.direction = "Delete local file"
        /\ Exists(local, job.source)
        /\ CanUnlink(local, job.source)
     \/ job.direction = "Delete local dir" /\ EmptyDir(local, job.source)
  /\ Add(job)
  /\ ref' \in IF running THEN {ref, FALSE} ELSE {ref}
  /\ UNCHANGED <<running, pc, i, run, op, frames, locks, local, remote,
                 envLeft, user>>

ClearFinished ==
  /\ pc = "loop" /\ ~running
  /\ Kept(queue, {k \in DOMAIN queue : queue[k].status \in {"Pending", "Running"}},
          queue')
  /\ UNCHANGED <<running, pc, i, run, op, ref, frames, locks, local, remote,
                 envLeft, user>>

RemoveSelected(rows) ==
  /\ pc = "loop" /\ ~running
  /\ Kept(queue, {k \in DOMAIN queue : k \notin rows \/ queue[k].status = "Running"},
          queue')
  /\ UNCHANGED <<running, pc, i, run, op, ref, frames, locks, local, remote,
                 envLeft, user>>

RetrySelected(rows) ==
  /\ pc = "loop" /\ ~running
  /\ queue' = [k \in DOMAIN queue |->
                 IF k \in rows /\ queue[k].status \in Final
                   THEN [queue[k] EXCEPT !.status = "Pending"]
                   ELSE queue[k]]
  /\ UNCHANGED <<running, pc, i, run, op, ref, frames, locks, local, remote,
                 envLeft, user>>

-----------------------------------------------------------------------------
(***************************************************************************)
(* refreshRemoteDirectory outside an item: the caller is suspended in its  *)
(* processEvents until the listing returns.  A call made at a Yield inside *)
(* a run finds every other control disabled and leaves the locks as they   *)
(* were, so it is not a step of its own.                                   *)
(***************************************************************************)

Browse ==
  /\ pc = "loop" /\ ~locks.nav /\ Len(frames) < MaxFrames
  /\ frames' = Append(frames, "browse")
  /\ locks' = Locked
  /\ UNCHANGED <<queue, running, pc, i, run, op, ref, local, remote, envLeft,
                 user>>

\* The innermost call lists, frees the remote panel and returns; behind it a
\* finished run shows its summary.
FinishRefresh ==
  /\ pc = "loop" /\ frames # <<>>
  /\ frames' = SubSeq(frames, 1, Len(frames) - 1)
  /\ locks' = RemoteFree(running)
  /\ UNCHANGED <<queue, running, pc, i, run, op, ref, local, remote, envLeft,
                 user>>

-----------------------------------------------------------------------------
(***************************************************************************)
(* The loop of startTransferQueue.                                         *)
(***************************************************************************)

Start ==
  /\ pc = "loop" /\ ~running /\ AnyPending /\ Len(frames) < MaxFrames
  /\ running' = TRUE
  /\ locks' = Locked
  /\ run' = NewRun /\ user' = NoWord
  /\ pc' = "next" /\ i' = 1
  /\ UNCHANGED <<queue, op, ref, frames, local, remote, envLeft>>

\* Give the current item a status; the counters are the run's locals.
Mark(status) == queue' = [queue EXCEPT ![i].status = status]

\* Seeded fault: an exit that forgets its counter.
FinishUncounted(status, outcome) ==
  /\ Mark(status)
  /\ op' = [op EXCEPT !.outcome = outcome]
  /\ pc' = "marked" /\ UNCHANGED run

Finish(status, outcome) ==
  /\ Mark(status)
  /\ run' = [run EXCEPT !.count[status] = @ + 1]
  /\ op' = [op EXCEPT !.outcome = outcome]
  /\ pc' = "marked"

\* Seeded faults: the stop flag is not read; the last item is forgotten.
GoingOn    == i \in DOMAIN queue
GoingShort == ~run.stop /\ i + 1 \in DOMAIN queue

\* The condition of the loop, read again on every turn with the queue's size.
Going == ~run.stop /\ i \in DOMAIN queue

PassOver ==
  /\ pc = "next" /\ Going
  /\ queue[i].status # "Pending"
  /\ i' = i + 1
  /\ UNCHANGED <<queue, running, pc, run, op, ref, frames, locks, local,
                 remote, envLeft, user>>

Take ==
  /\ pc = "next" /\ Going
  /\ queue[i].status = "Pending"
  /\ Mark("Running")
  /\ pc' = "took" /\ ref' = TRUE
  /\ user' = [user EXCEPT !.took = @ \cup {i}]
  /\ UNCHANGED <<running, i, run, op, frames, locks, local, remote, envLeft>>

\* The end of the run, up to the processEvents of its last remote refresh; its
\* locals are gone.
EndRun ==
  /\ pc = "next" /\ ~Going
  /\ running' = FALSE
  /\ pc' = "loop"
  /\ frames' = Append(frames, "run")
  /\ locks' = Locked
  /\ i' = 1 /\ run' = NewRun /\ ref' = TRUE /\ user' = NoWord
  /\ UNCHANGED <<queue, op, local, remote, envLeft>>

\* What follows the status of an item: an upload that ended and a remote
\* delete refresh the remote panel, which unlocks it; a cancelled transfer
\* asks whether to go on.
FollowUp ==
  /\ pc = "marked"
  /\ locks' = IF /\ op.outcome \in {"ok", "cancelled"}
                 /\ queue[i].direction \in {"Upload"} \cup RemoteDelete
                THEN RemoteFree(running) ELSE locks
  /\ IF op.outcome = "cancelled"
       THEN pc' = "askContinue" /\ i' = i
       ELSE pc' = "next" /\ i' = i + 1
  /\ op' = NewOp
  /\ UNCHANGED <<queue, running, run, ref, frames, local, remote, envLeft, user>>

AnswerContinue(yes) ==
  /\ pc = "askContinue"
  /\ run' = [run EXCEPT !.stop = ~yes]
  /\ user' = [user EXCEPT !.stop = ~yes]
  /\ pc' = "next" /\ i' = i + 1
  /\ UNCHANGED <<queue, running, op, ref, frames, locks, local, remote, envLeft>>

-----------------------------------------------------------------------------
(***************************************************************************)
(* One item, by direction.  Item strings are read through the reference    *)
(* taken at the loop head, so these steps need ref; LoseItem is what runs  *)
(* when it dangles.                                                        *)
(***************************************************************************)

Cur == queue[i]

At(point, directions) == pc = point /\ ref /\ Cur.direction \in directions

CreateLocalDir ==
  /\ At("took", {"Create local dir"})
  /\ \/ Follow(local, Cur.target) = Dir /\ Finish("Done", "ok") /\ UNCHANGED local
     \/ /\ CanMkpath(local, Cur.target)
        /\ local' = Mkpath(local, Cur.target)
        /\ Finish("Done", "ok")
     \/ Follow(local, Cur.target) # Dir /\ Finish("Failed", "failed") /\ UNCHANGED local
  /\ UNCHANGED <<running, i, ref, frames, locks, remote, envLeft, user>>

\* Every request to the server may fail, and it may fail after the server has
\* done what it asked for, when only the answer is lost.
CreateRemoteDir ==
  /\ At("took", {"Create remote dir"})
  /\ \/ remote[Cur.target] = Dir /\ Finish("Done", "ok") /\ UNCHANGED remote
     \/ /\ CanMkdir(remote, Cur.target)
        /\ remote' = [remote EXCEPT ![Cur.target] = Dir]
        /\ Finish("Done", "ok") \/ Finish("Failed", "failed")
     \/ Finish("Failed", "failed") /\ UNCHANGED remote
  /\ UNCHANGED <<running, i, ref, frames, locks, local, envLeft, user>>

\* Seeded fault: the question is not asked.
AskNothing ==
  /\ At("took", LocalDelete \cup RemoteDelete)
  /\ pc' = "deleting"
  /\ UNCHANGED <<queue, running, i, run, op, ref, frames, locks, local, remote,
                 envLeft, user>>

AskDelete ==
  /\ At("took", LocalDelete \cup RemoteDelete)
  /\ pc' = "confirm"
  /\ UNCHANGED <<queue, running, i, run, op, ref, frames, locks, local, remote,
                 envLeft, user>>

ConfirmDelete ==
  /\ pc = "confirm"
  /\ pc' = "deleting"
  /\ user' = [user EXCEPT !.confirmed = @ \cup {i}]
  /\ UNCHANGED <<queue, running, i, run, op, ref, frames, locks, local, remote,
                 envLeft>>

\* Seeded fault: a refused item keeps the status it had.
RefuseLeftRunning ==
  /\ pc = "confirm"
  /\ run' = [run EXCEPT !.stop = TRUE]
  /\ op' = [op EXCEPT !.outcome = "stopped"]
  /\ user' = [user EXCEPT !.stop = TRUE, !.took = @ \ {i}]
  /\ pc' = "marked"
  /\ UNCHANGED <<queue, running, i, ref, frames, locks, local, remote, envLeft>>

\* The item goes back to Pending and the run stops before it.
RefuseDelete ==
  /\ pc = "confirm"
  /\ Mark("Pending")
  /\ run' = [run EXCEPT !.stop = TRUE]
  /\ op' = [op EXCEPT !.outcome = "stopped"]
  /\ user' = [user EXCEPT !.stop = TRUE, !.took = @ \ {i}]
  /\ pc' = "marked"
  /\ UNCHANGED <<running, i, ref, frames, locks, local, remote, envLeft>>

\* Seeded fault: whatever stands at the path goes.
RemovesAny(item) == CanRmdir(local, item.target) \/ CanUnlink(local, item.target)

\* A local delete looks at what stands there again, by the item's direction.
Removable(item) ==
  IF item.direction = "Delete local dir"
    THEN CanRmdir(local, item.target) ELSE CanUnlink(local, item.target)

DeleteLocal ==
  /\ At("deleting", LocalDelete)
  /\ \/ ~Exists(local, Cur.target) /\ Finish("Done", "ok") /\ UNCHANGED local
     \/ /\ Exists(local, Cur.target) /\ Removable(Cur)
        /\ local' = [local EXCEPT ![Cur.target] = Absent]
        /\ Finish("Done", "ok")
     \/ /\ Exists(local, Cur.target)
        /\ Finish("Failed", "failed") /\ UNCHANGED local
  /\ UNCHANGED <<running, i, ref, frames, locks, remote, envLeft, user>>

\* SftpProbe::deleteRemotePath picks rmdir or unlink by what it finds there.
DeleteRemote ==
  /\ At("deleting", RemoteDelete)
  /\ \/ /\ CanRmdir(remote, Cur.target) \/ CanUnlink(remote, Cur.target)
        /\ remote' = [remote EXCEPT ![Cur.target] = Absent]
        /\ Finish("Done", "ok") \/ Finish("Failed", "failed")
     \/ Finish("Failed", "failed") /\ UNCHANGED remote
  /\ UNCHANGED <<running, i, ref, frames, locks, local, envLeft, user>>

\* A dangling reference reads as an item with empty strings: no direction
\* matches, no source is there to transfer, no local target is left to delete.
LoseItem ==
  /\ ~ref
  /\ \/ pc = "took" /\ Finish("Failed", "failed")
     \/ pc = "deleting" /\ Cur.direction \in LocalDelete /\ Finish("Done", "ok")
     \/ pc = "deleting" /\ Cur.direction \in RemoteDelete /\ Finish("Failed", "failed")
     \/ /\ pc = "transfer" /\ pc' = "closed"
        /\ op' = [op EXCEPT !.outcome = "failed"]
        /\ UNCHANGED <<queue, run>>
  /\ UNCHANGED <<running, i, ref, frames, locks, local, remote, envLeft, user>>

\* ... or the read of freed memory ends the program.  What follows a result
\* reads the item too, for its log lines and questions.
Crash ==
  /\ ~ref /\ pc \in Yields \cup {"overwrite"}
  /\ pc' = "crashed"
  /\ UNCHANGED <<queue, running, i, run, op, ref, frames, locks, local, remote,
                 envLeft, user>>

-----------------------------------------------------------------------------
(***************************************************************************)
(* Downloads and uploads up to the probe, and the overwrite dialog.        *)
(***************************************************************************)

\* Seeded fault: "all" said of uploads counts for downloads.
SharedAnswer(there) == there /\ run.overwriteAll = {}

MustAsk(there) == there /\ "Download" \notin run.overwriteAll

CheckDownload ==
  LET there == Exists(local, Cur.target) IN
  /\ At("took", {"Download"})
  /\ IF ~ParentReady(local, Cur.target) THEN Finish("Failed", "failed")
     ELSE IF there /\ "Download" \in run.skipAll THEN Finish("Skipped", "stopped")
     ELSE /\ pc' = IF MustAsk(there) THEN "overwrite" ELSE "transfer"
          /\ op' = [op EXCEPT !.saw = there]
          /\ UNCHANGED <<queue, run>>
  /\ UNCHANGED <<running, i, ref, frames, locks, local, remote, envLeft, user>>

CheckUpload ==
  LET all == "Upload" \in run.overwriteAll IN
  /\ At("took", {"Upload"})
  /\ IF IsFile(Follow(local, Cur.source))
       THEN /\ pc' = "transfer"
            /\ op' = [op EXCEPT !.allow = all, !.retried = all]
            /\ UNCHANGED <<queue, run>>
       ELSE Finish("Failed", "failed")
  /\ UNCHANGED <<running, i, ref, frames, locks, local, remote, envLeft, user>>

\* Seeded fault: the upload goes round without the permission just given.
RetryBlind == op

\* An upload goes round its loop again, this time allowed to overwrite.
Retrying == [op EXCEPT !.allow = TRUE, !.retried = TRUE]

\* "Overwrite" or "Overwrite all".
AnswerOverwrite(all) ==
  /\ pc = "overwrite"
  /\ pc' = "transfer"
  /\ op' = IF Cur.direction = "Upload" THEN Retrying ELSE op
  /\ run' = IF all THEN [run EXCEPT !.overwriteAll = @ \cup {Cur.direction}] ELSE run
  /\ user' = [user EXCEPT !.approved = @ \cup {i},
                !.approvedAll = IF all THEN @ \cup {Cur.direction} ELSE @]
  /\ UNCHANGED <<queue, running, i, ref, frames, locks, local, remote, envLeft>>

AnswerSkip(all) ==
  /\ pc = "overwrite"
  /\ Mark("Skipped")
  /\ run' = [run EXCEPT !.count["Skipped"] = @ + 1,
               !.skipAll = IF all THEN @ \cup {Cur.direction} ELSE @]
  /\ op' = [op EXCEPT !.outcome = "stopped"]
  /\ pc' = "marked"
  /\ UNCHANGED <<running, i, ref, frames, locks, local, remote, envLeft, user>>

AnswerCancelQueue ==
  /\ pc = "overwrite"
  /\ Mark("Cancelled")
  /\ run' = [run EXCEPT !.count["Cancelled"] = @ + 1, !.stop = TRUE]
  /\ op' = [op EXCEPT !.outcome = "stopped"]
  /\ pc' = "marked"
  /\ user' = [user EXCEPT !.stop = TRUE]
  /\ UNCHANGED <<running, i, ref, frames, locks, local, remote, envLeft>>

-----------------------------------------------------------------------------
(***************************************************************************)
(* SftpProbe::uploadLocalFile and downloadRemoteFile.  Connecting, the host *)
(* key, authentication and every SFTP request may fail; the progress        *)
(* callback lets the user cancel while data flows.                          *)
(***************************************************************************)

Return(outcome) == pc' = "closed" /\ op' = [op EXCEPT !.outcome = outcome]

\* Seeded fault: an existing target is not refused.
NeverRefused(node) == FALSE

Refused(node) == node # Absent /\ ~op.allow

\* sftp_stat of the target, and the refusal when overwriting is not allowed.
StatTarget ==
  LET node == remote[Cur.target] IN
  /\ At("transfer", {"Upload"})
  /\ \/ Return("failed")
     \/ /\ IsFile(Follow(local, Cur.source))
        /\ IF node = Dir THEN Return("isdir")
           ELSE IF Refused(node) THEN Return("exists")
           ELSE pc' = "probe" /\ op' = [op EXCEPT !.saw = node # Absent]
  /\ UNCHANGED <<queue, running, i, run, ref, frames, locks, local, remote,
                 envLeft, user>>

\* sftp_open with O_CREAT | O_TRUNC: from here on the old bytes are gone.
OpenUpload ==
  /\ pc = "probe"
  /\ \/ Return("failed") /\ UNCHANGED remote
     \/ /\ IsFile(Follow(local, Cur.source))
        /\ remote[Cur.target] # Dir /\ ParentReady(remote, Cur.target)
        /\ remote' = [remote EXCEPT ![Cur.target] = Torn]
        /\ \/ Return("failed")
           \/ /\ op' = [op EXCEPT !.data = Follow(local, Cur.source)]
              /\ pc' = "stream"
  /\ UNCHANGED <<queue, running, i, run, ref, frames, locks, local, envLeft,
                 user>>

\* Seeded fault: a short read passes for the end of the file.
ShortRead(data, now) == {data, Torn}

\* What reading a file to its end yields when others may write to it.
Read(data, now) == IF now = data THEN {data} ELSE {data, Torn}

\* The bytes may all be written when the upload is cancelled or fails.
EndUpload ==
  /\ pc = "stream" /\ Cur.direction = "Upload"
  /\ \/ Return("failed") /\ UNCHANGED remote
     \/ Return("cancelled") /\ UNCHANGED remote
     \/ /\ \E outcome \in {"failed", "cancelled", "ok"} : Return(outcome)
        /\ IF remote[Cur.target] = Torn
             THEN \E bytes \in Read(op.data, Follow(local, Cur.source)) :
                    remote' = [remote EXCEPT ![Cur.target] = bytes]
             ELSE UNCHANGED remote
  /\ UNCHANGED <<queue, running, i, run, ref, frames, locks, local, envLeft,
                 user>>

\* A QSaveFile writes where the link at its name leads, never to a folder.
CanReplace(p) ==
  ParentReady(local, Resolve(local, p)) /\ Follow(local, p) \notin {Dir, Link}

OpenDownload ==
  /\ At("transfer", {"Download"})
  /\ \/ Return("failed")
     \/ /\ IsFile(remote[Cur.source]) /\ CanReplace(Cur.target)
        /\ pc' = "stream"
        /\ op' = [op EXCEPT !.data = remote[Cur.source]]
  /\ UNCHANGED <<queue, running, i, run, ref, frames, locks, local, remote,
                 envLeft, user>>

\* Bytes go to a QSaveFile; only its commit touches the target.
EndDownload ==
  /\ pc = "stream" /\ Cur.direction = "Download"
  /\ \/ Return("failed") /\ UNCHANGED local
     \/ Return("cancelled") /\ UNCHANGED local
     \/ /\ CanReplace(Cur.target)
        /\ \E bytes \in Read(op.data, remote[Cur.source]) :
             local' = [local EXCEPT ![Resolve(local, Cur.target)] = bytes]
        /\ Return("ok")
  /\ UNCHANGED <<queue, running, i, run, ref, frames, locks, remote, envLeft,
                 user>>

\* The run reads the result after the progress dialog has closed.
Settle ==
  /\ pc = "closed"
  /\ CASE op.outcome = "ok"        -> Finish("Done", "ok")
       [] op.outcome = "cancelled" -> Finish("Cancelled", "cancelled")
       [] op.outcome = "exists" /\ ~op.allow /\ ~op.retried ->
            IF "Upload" \in run.skipAll
              THEN Finish("Skipped", "stopped")
              ELSE pc' = "overwrite" /\ UNCHANGED <<queue, run, op>>
       [] OTHER                    -> Finish("Failed", "failed")
  /\ UNCHANGED <<running, i, ref, frames, locks, local, remote, envLeft, user>>

-----------------------------------------------------------------------------
(***************************************************************************)
(* Other programs, on this computer and on the server.                      *)
(***************************************************************************)

Environment ==
  /\ pc # "crashed" /\ envLeft > 0
  /\ envLeft' = envLeft - 1
  /\ \E node \in Foreign :
       \/ \E p \in LocalPath :
            /\ local' = [local EXCEPT ![p] = node]
            /\ local' # local /\ WellFormed(local')
            /\ UNCHANGED remote
       \/ \E p \in RemotePath :
            /\ remote' = [remote EXCEPT ![p] = node]
            /\ remote' # remote /\ WellFormed(remote')
            /\ UNCHANGED local
  /\ UNCHANGED <<queue, running, pc, i, run, op, ref, frames, locks, user>>

-----------------------------------------------------------------------------
\* A user who may, but need not, click.
Click ==
  \/ \E job \in Jobs : \/ QueueTransfer(job)
                       \/ QueueRemoteDelete(job)
                       \/ QueueLocalDelete(job)
  \/ ClearFinished
  \/ \E rows \in SUBSET DOMAIN queue : RemoveSelected(rows) \/ RetrySelected(rows)
  \/ Browse
  \/ Start

\* A user in front of a modal dialog of the run.
Answer ==
  \/ ConfirmDelete \/ RefuseDelete
  \/ \E all \in BOOLEAN : AnswerOverwrite(all) \/ AnswerSkip(all)
  \/ AnswerCancelQueue
  \/ \E yes \in BOOLEAN : AnswerContinue(yes)

\* The code itself.
Step ==
  \/ PassOver \/ Take \/ FollowUp \/ EndRun
  \/ CreateLocalDir \/ CreateRemoteDir
  \/ AskDelete \/ DeleteLocal \/ DeleteRemote
  \/ CheckDownload \/ CheckUpload
  \/ StatTarget \/ OpenUpload \/ EndUpload \/ OpenDownload \/ EndDownload
  \/ Settle \/ LoseItem \/ Crash \/ FinishRefresh

Next == Click \/ Answer \/ Step \/ Environment

Spec == Init /\ [][Next]_vars

\* The run keeps going while it can: probe calls are bounded by the ten second
\* timeout of each session, and a modal dialog is answered in the end.
FairSpec == Spec /\ WF_vars(Step) /\ WF_vars(Answer)

-----------------------------------------------------------------------------
(***************************************************************************)
(* Properties.                                                             *)
(***************************************************************************)

\* Every variable has its type.
TypeOK ==
  /\ queue \in Seq(Entry)
  /\ running \in BOOLEAN
  /\ pc \in Control
  /\ i \in Nat \ {0}
  /\ run \in RunState
  /\ op \in OpState
  /\ ref \in BOOLEAN
  /\ frames \in Seq({"run", "browse"})
  /\ locks \in LockState
  /\ local \in LocalTree
  /\ remote \in RemoteTree
  /\ envLeft \in Nat
  /\ user \in Words

\* Only the item the run is working on is Running, and none is once the run is
\* over: an item left Running could be neither retried nor removed
\* (retrySelectedTransferQueueItems, removeSelectedTransferQueueItems).
OneRunning ==
  \A k \in DOMAIN queue :
    queue[k].status = "Running" =>
      /\ running /\ k = i
      /\ pc \in (InItem \ {"marked", "askContinue"}) \cup {"crashed"}

\* The four counters of the summary dialog are the statuses the run gave to
\* the items it took, whichever of its many exits each item left by.
Tally ==
  running => \A s \in Final :
    run.count[s] = Cardinality({k \in user.took : queue[k].status = s})

\* The queue buttons stay disabled through the remote refreshes a run makes
\* (the one check of m_transferQueueRunning in setRemoteBusy), and nothing
\* stays disabled once every call has returned to the event loop.
LocksFollowRun ==
  /\ running => locks.add
  /\ pc = "loop" /\ frames = <<>> => locks = Unlocked

\* What an item is for.
Achieved(item) ==
  CASE item.direction = "Upload" ->
         remote[item.target] = Follow(local, item.source)
    [] item.direction = "Download" ->
         Follow(local, item.target) = remote[item.source]
    [] item.direction = "Create local dir"  -> Follow(local, item.target) = Dir
    [] item.direction = "Create remote dir" -> remote[item.target] = Dir
    [] item.direction \in LocalDelete       -> local[item.target] = Absent
    [] OTHER                                -> remote[item.target] = Absent

\* An item is marked Done only when what it asks for has happened, as long as
\* no other program interfered.
DoneIsTrue ==
  pc = "marked" /\ op.outcome = "ok" /\ envLeft = MaxEnv => Achieved(Cur)

\* The step is the program's, not another program's.
Ours == envLeft' = envLeft

Approved == i \in user.approved \/ Cur.direction \in user.approvedAll

Overwrites(t, u, p) == IsFile(t[p]) /\ u[p] \notin {t[p], Absent}

\* An existing file loses its bytes to a transfer only with the user's word
\* given in this run, for this item or for all of its kind; the exception is a
\* file that was not there when the transfer looked.
OverwriteOnlyApproved ==
  [][Ours =>
      /\ \A p \in LocalPath : Overwrites(local, local', p) => Approved \/ ~op.saw
      /\ \A p \in RemotePath : Overwrites(remote, remote', p) =>
           \/ p = Cur.target /\ (Approved \/ ~op.saw)
           \/ pc = "stream" /\ remote[p] = Torn]_vars

Removes(t, u, p) == t[p] # Absent /\ u[p] = Absent

\* The queue removes nothing but the target of a delete item whose question the
\* user answered with Yes when the run came to it, and on this computer only
\* the kind of thing the question named.
DeleteOnlyConfirmed ==
  [][Ours =>
      /\ \A p \in LocalPath : Removes(local, local', p) =>
           /\ i \in user.confirmed /\ p = Cur.target
           /\ Cur.direction =
                IF local[p] = Dir THEN "Delete local dir" ELSE "Delete local file"
      /\ \A p \in RemotePath : Removes(remote, remote', p) =>
           /\ i \in user.confirmed /\ p = Cur.target
           /\ Cur.direction \in RemoteDelete]_vars

\* A local file gets new bytes only from a download that succeeded, and gets
\* all of them: cancelled and failed downloads leave the target as it was.
WholeDownloads ==
  [][Ours => \A p \in LocalPath :
      local'[p] # local[p] /\ IsFile(local'[p]) =>
        /\ op'.outcome = "ok"
        /\ remote[Cur.source] = op.data => local'[p] = op.data]_vars

\* Once the user has said stop (a refused delete, Cancel queue, No after a
\* cancelled item) the run takes no further item and touches no file.
StopRespected ==
  [][Ours /\ running /\ user.stop =>
      /\ UNCHANGED disks
      /\ user'.took = user.took \/ ~running']_vars

\* The queue as its user sees it: the refinement mapping to QueueLifecycle.
Promise == INSTANCE QueueLifecycle WITH
  status   <- [k \in DOMAIN queue |-> queue[k].status],
  active   <- running,
  stopping <- user.stop

\* The queue keeps the promise of QueueLifecycle: items are taken one at a time
\* and in order, none is left Running, a run ends with nothing Pending (items
\* appended while it ran included) unless the user stopped it, and after that
\* word it takes no further item.
KeepsPromise == Promise!Spec

\* Every run comes to its end, or to the end of the program.
RunEnds == running ~> (~running \/ pc = "crashed")

\* What docs/TESTCASE_0.1.8.0.4.md demands: no control mutates the queue while
\* a run is active.
QueueLocked == [][running => Len(queue') = Len(queue)]_vars

=============================================================================
