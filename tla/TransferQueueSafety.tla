------------------------- MODULE TransferQueueSafety -------------------------
(***************************************************************************)
(* Proofs about what a run does to files, to the queue's buttons and to    *)
(* its counters.                                                           *)
(***************************************************************************)
EXTENDS TransferQueueProofs, FiniteSetTheorems

USE DEF Final

-----------------------------------------------------------------------------
(***************************************************************************)
(* The buttons.                                                            *)
(***************************************************************************)

\* Every step keeps the queue buttons as the run demands.
LEMMA NextLocks == ControlInv /\ LocksFollowRun /\ [Next]_vars => LocksFollowRun'
<1> SUFFICES ASSUME ControlInv, LocksFollowRun, [Next]_vars PROVE LocksFollowRun'
  OBVIOUS
<1>1. running <=> pc # "loop"
  BY DEF ControlInv, RunPoint
<1>2. running \in BOOLEAN /\ frames \in Seq({"run", "browse"})
  BY DEF ControlInv, TypeInv, TypeOK
<1>3. CASE Browse \/ EndRun
  <2>1. /\ frames' # <<>> /\ pc' = "loop" /\ locks'.add = TRUE
    BY <1>2, <1>3 DEF Browse, EndRun, Locked
  <2>2. QED
    BY <2>1 DEF LocksFollowRun
<1>4. CASE FinishRefresh
  <2>1. ~running /\ UNCHANGED running /\ locks' = RemoteFree(running)
    BY <1>1, <1>4 DEF FinishRefresh
  <2>2. locks' = Unlocked
    BY <1>2, <2>1 DEF RemoteFree, Unlocked
  <2>3. QED
    BY <2>1, <2>2 DEF LocksFollowRun
<1>5. CASE Start
  BY <1>5 DEF Start, Locked, LocksFollowRun
<1>6. CASE FollowUp
  <2>1. running /\ running' /\ pc' # "loop"
    BY <1>1, <1>6 DEF FollowUp
  <2>2. locks'.add
    BY <1>6, <2>1 DEF FollowUp, RemoteFree, LocksFollowRun
  <2>3. QED
    BY <2>1, <2>2 DEF LocksFollowRun
<1>7. CASE UNCHANGED <<running, pc, frames, locks>>
  BY <1>7 DEF LocksFollowRun
<1>8. CASE UNCHANGED <<running, frames, locks>> /\ pc # "loop" /\ pc' # "loop"
  BY <1>8 DEF LocksFollowRun
<1> USE DEF InItem, Yields, Modal
<1>9. CASE Click
  BY <1>3, <1>5, <1>7, <1>9 DEF Click, QueueTransfer, QueueRemoteDelete, QueueLocalDelete,
    ClearFinished, RemoveSelected, RetrySelected
<1>10. CASE Answer
  BY <1>8, <1>10 DEF Answer, ConfirmDelete, RefuseDelete, AnswerOverwrite, AnswerSkip,
    AnswerCancelQueue, AnswerContinue
<1>11. CASE PassOver \/ Take \/ AskDelete \/ DeleteLocal \/ DeleteRemote
            \/ CreateLocalDir \/ CreateRemoteDir \/ LoseItem \/ Crash
  BY <1>8, <1>11 DEF PassOver, Take, AskDelete, DeleteLocal, DeleteRemote,
    CreateLocalDir, CreateRemoteDir, LoseItem, Crash, Finish, At
<1>12. CASE CheckDownload \/ CheckUpload \/ StatTarget \/ OpenUpload \/ EndUpload
            \/ OpenDownload \/ EndDownload \/ Settle
  BY <1>8, <1>12 DEF CheckDownload, CheckUpload, StatTarget, OpenUpload, EndUpload,
    OpenDownload, EndDownload, Settle, Finish, Return, At
<1>13. CASE Environment \/ UNCHANGED vars
  BY <1>7, <1>13 DEF Environment, vars
<1>14. QED
  BY <1>3, <1>4, <1>5, <1>6, <1>9, <1>10, <1>11, <1>12, <1>13 DEF Next, Step

\* The queue buttons are disabled all through a run, and every widget is free
\* again once all calls have returned.
THEOREM LocksSafe == Spec => []LocksFollowRun
<1>1. Init => LocksFollowRun
  BY DEF Init, LocksFollowRun
<1>2. Init => ControlInv
  BY InitControlInv
<1>3. ControlInv /\ [Next]_vars => ControlInv'
  BY NextControlInv
<1>4. ControlInv /\ LocksFollowRun /\ [Next]_vars => LocksFollowRun'
  BY NextLocks
<1>5. QED
  BY <1>1, <1>2, <1>3, <1>4, PTL DEF Spec

-----------------------------------------------------------------------------
(***************************************************************************)
(* The files.  First, which step may change a path at all, and how.        *)
(***************************************************************************)

\* A local path changes by a folder being made where nothing was, by the
\* delete of the item at hand, or by the download at hand being committed.
LocalChange(p) ==
  \/ local[p] = Absent /\ local'[p] = Dir
  \/ /\ pc = "deleting" /\ p = Cur.target /\ local'[p] = Absent
     /\ Cur.direction \in LocalDelete /\ Removable(Cur)
  \/ /\ pc = "stream" /\ Cur.direction = "Download" /\ op'.outcome = "ok"
     /\ local'[p] \in Read(op.data, remote[Cur.source])

\* A remote path changes likewise; an upload first truncates, then writes.
RemoteChange(p) ==
  \/ remote[p] = Absent /\ remote'[p] = Dir
  \/ /\ pc = "deleting" /\ p = Cur.target /\ remote'[p] = Absent
     /\ Cur.direction \in RemoteDelete
  \/ pc = "probe" /\ p = Cur.target /\ remote'[p] = Torn
  \/ /\ pc = "stream" /\ p = Cur.target /\ remote[p] = Torn
     /\ remote'[p] \in Read(op.data, Follow(local, Cur.source))

\* The steps that leave both trees alone.
LEMMA Bystanders ==
  ASSUME \/ Click \/ Answer
         \/ PassOver \/ Take \/ FollowUp \/ EndRun \/ AskDelete \/ CheckDownload
         \/ CheckUpload \/ StatTarget \/ OpenDownload \/ Settle \/ LoseItem
         \/ Crash \/ FinishRefresh \/ UNCHANGED vars
  PROVE  UNCHANGED disks
<1>1. CASE Click
  BY <1>1 DEF Click, QueueTransfer, QueueRemoteDelete, QueueLocalDelete, ClearFinished,
    RemoveSelected, RetrySelected, Browse, Start, disks
<1>2. CASE Answer
  BY <1>2 DEF Answer, ConfirmDelete, RefuseDelete, AnswerOverwrite, AnswerSkip,
    AnswerCancelQueue, AnswerContinue, disks
<1>3. QED
  BY <1>1, <1>2 DEF PassOver, Take, FollowUp, EndRun, AskDelete, CheckDownload,
    CheckUpload, StatTarget, OpenDownload, Settle, LoseItem, Crash, FinishRefresh,
    disks, vars

\* The local tree changes in these ways only.
LEMMA LocalChanges ==
  ASSUME TypeInv, [Next]_vars, Ours, NEW p \in LocalPath, local'[p] # local[p]
  PROVE  LocalChange(p)
<1> USE DEF LocalChange, TypeInv, TypeOK, LocalTree
<1>1. local' # local
  OBVIOUS
<1>2. CASE CreateLocalDir
  BY <1>1, <1>2 DEF CreateLocalDir, CanMkpath, Mkpath
<1>3. CASE DeleteLocal
  BY <1>1, <1>3 DEF DeleteLocal, At
<1>4. CASE EndDownload
  BY <1>1, <1>4 DEF EndDownload, Return, OpState, Outcome
<1>5. CASE CreateRemoteDir \/ DeleteRemote \/ OpenUpload \/ EndUpload
  BY <1>1, <1>5 DEF CreateRemoteDir, DeleteRemote, OpenUpload, EndUpload
<1>6. CASE Environment
  BY <1>6 DEF Environment, Ours
<1>7. QED
  BY <1>1, <1>2, <1>3, <1>4, <1>5, <1>6, Bystanders DEF Next, Step, disks

\* The remote tree changes in these ways only.
LEMMA RemoteChanges ==
  ASSUME TypeInv, [Next]_vars, Ours, NEW p \in RemotePath, remote'[p] # remote[p]
  PROVE  RemoteChange(p)
<1> USE DEF RemoteChange, TypeInv, TypeOK, RemoteTree
<1>1. remote' # remote
  OBVIOUS
<1>2. CASE CreateRemoteDir
  BY <1>1, <1>2 DEF CreateRemoteDir, CanMkdir
<1>3. CASE DeleteRemote
  BY <1>1, <1>3 DEF DeleteRemote, At
<1>4. CASE OpenUpload
  BY <1>1, <1>4 DEF OpenUpload
<1>5. CASE EndUpload
  BY <1>1, <1>5 DEF EndUpload
<1>6. CASE CreateLocalDir \/ DeleteLocal \/ EndDownload
  BY <1>1, <1>6 DEF CreateLocalDir, DeleteLocal, EndDownload
<1>7. CASE Environment
  BY <1>7 DEF Environment, Ours
<1>8. QED
  BY <1>1, <1>2, <1>3, <1>4, <1>5, <1>6, <1>7, Bystanders DEF Next, Step, disks

-----------------------------------------------------------------------------
(***************************************************************************)
(* The user's word.  The run's flags say no more than the user did, and    *)
(* every point from which a step destroys something has its answer behind. *)
(***************************************************************************)

WordInv ==
  /\ run.overwriteAll \subseteq user.approvedAll
  /\ pc \in {"transfer", "probe"} /\ Cur.direction = "Upload" /\ op.allow => Approved
  /\ pc = "probe" => Cur.direction = "Upload" /\ (op.saw => op.allow)
  /\ pc \in {"transfer", "stream"} /\ Cur.direction = "Download" /\ op.saw => Approved
  /\ pc = "stream" => op.data # Absent
  /\ pc = "deleting" => i \in user.confirmed

\* The points WordInv speaks about; a step to any other point keeps it as long
\* as it leaves the flags alone.
Pledged == {"transfer", "probe", "stream", "deleting"}

\* A step to a point WordInv does not speak of.
LEMMA WordElsewhere ==
  ASSUME WordInv, pc' \notin Pledged, run'.overwriteAll = run.overwriteAll,
         user.approvedAll \subseteq user'.approvedAll
  PROVE  WordInv'
BY DEF WordInv, Pledged

\* A step that leaves the item, its flags and the answers alone.
LEMMA WordStays ==
  ASSUME WordInv, UNCHANGED <<pc, i, run, op, user>>,
         pc \in InItem => queue'[i] = queue[i]
  PROVE  WordInv'
BY DEF WordInv, Cur, Approved, InItem, Yields, Modal

\* Every step keeps the answers behind the points that need them.
LEMMA NextWordInv == ControlInv /\ WordInv /\ [Next]_vars => WordInv'
<1> SUFFICES ASSUME ControlInv, WordInv, [Next]_vars PROVE WordInv'
  OBVIOUS
<1>0. /\ TypeInv /\ TypeInv'
      /\ run \in RunState /\ op \in OpState /\ user \in Words
  BY NextTypeInv DEF ControlInv, TypeInv, TypeOK
<1> USE DEF Pledged
<1>1. ASSUME NEW job \in Jobs,
             QueueTransfer(job) \/ QueueRemoteDelete(job) \/ QueueLocalDelete(job)
      PROVE  WordInv'
  <2>1. pc \in InItem => queue'[i] = queue[i]
    <3>1. Add(job) /\ queue \in Seq(Entry)
      BY <1>0, <1>1
        DEF QueueTransfer, QueueRemoteDelete, QueueLocalDelete, TypeInv, TypeOK
    <3>2. \A k \in DOMAIN queue : queue'[k] = queue[k]
      BY <3>1, AddFacts DEF Add
    <3>3. QED
      BY <1>0, <3>2 DEF TypeInv, Placed
  <2>2. QED
    BY <1>1, <2>1, WordStays DEF QueueTransfer, QueueRemoteDelete, QueueLocalDelete
<1>2. CASE \/ ClearFinished
           \/ \E rows \in SUBSET DOMAIN queue : RemoveSelected(rows) \/ RetrySelected(rows)
           \/ Browse \/ FinishRefresh
  BY <1>2, WordElsewhere DEF ClearFinished, RemoveSelected, RetrySelected, Browse,
    FinishRefresh
<1>3. CASE Start \/ EndRun
  BY <1>3 DEF Start, EndRun, NewRun, NoWord, WordInv
<1>4. CASE PassOver \/ FollowUp \/ AskDelete \/ Crash
  BY <1>4, WordElsewhere DEF PassOver, FollowUp, AskDelete, Crash
<1>5. CASE Take
  BY <1>0, <1>5, WordElsewhere DEF Take, Words
<1>6. ASSUME NEW yes \in BOOLEAN, AnswerContinue(yes) PROVE WordInv'
  BY <1>0, <1>6, WordElsewhere DEF AnswerContinue, Words, RunState
<1>7. CASE \E s \in Final, o \in Outcome : Finish(s, o) /\ UNCHANGED user
  BY <1>0, <1>7, WordElsewhere DEF Finish, RunState
<1>8. CASE CreateLocalDir \/ CreateRemoteDir \/ DeleteLocal \/ DeleteRemote
  BY <1>7, <1>8 DEF CreateLocalDir, CreateRemoteDir, DeleteLocal, DeleteRemote, Outcome
<1>9. CASE ConfirmDelete
  BY <1>0, <1>9 DEF ConfirmDelete, Words, WordInv, TypeInv, TypeOK
<1>10. CASE RefuseDelete
  BY <1>0, <1>10, WordElsewhere DEF RefuseDelete, Words, RunState
<1>11. CASE LoseItem
  <2>1. CASE pc = "transfer"
    BY <1>11, <2>1, WordElsewhere DEF LoseItem
  <2>2. CASE pc # "transfer"
    BY <1>7, <1>11, <2>2 DEF LoseItem, Outcome
  <2>3. QED
    BY <2>1, <2>2
<1>12. CASE CheckDownload
  <2>1. CASE \E s \in Final, o \in Outcome : Finish(s, o)
    BY <1>7, <1>12, <2>1 DEF CheckDownload
  <2>2. CASE ~ \E s \in Final, o \in Outcome : Finish(s, o)
    <3>1. /\ pc' = IF MustAsk(Exists(local, Cur.target)) THEN "overwrite" ELSE "transfer"
          /\ op' = [op EXCEPT !.saw = Exists(local, Cur.target)]
          /\ UNCHANGED <<queue, i, run, user>> /\ Cur.direction = "Download"
      BY <1>12, <2>2 DEF CheckDownload, Outcome, At
    <3>2. CASE pc' = "overwrite"
      BY <3>1, <3>2, WordElsewhere
    <3>3. CASE pc' = "transfer"
      <4>1. op'.saw => "Download" \in run.overwriteAll
        BY <1>0, <3>1, <3>3 DEF MustAsk, OpState
      <4>2. op'.saw => Approved'
        BY <3>1, <4>1 DEF Approved, Cur, WordInv
      <4>3. QED
        BY <3>1, <3>3, <4>2 DEF WordInv, Cur
    <3>4. QED
      BY <3>1, <3>2, <3>3
  <2>3. QED
    BY <2>1, <2>2
<1>13. CASE CheckUpload
  <2>1. CASE ~IsFile(Follow(local, Cur.source))
    BY <1>7, <1>13, <2>1 DEF CheckUpload, Outcome
  <2>2. CASE IsFile(Follow(local, Cur.source))
    <3>1. /\ pc' = "transfer" /\ UNCHANGED <<queue, i, run, user>>
          /\ op'.allow = ("Upload" \in run.overwriteAll)
          /\ Cur.direction = "Upload"
      BY <1>0, <1>13, <2>2 DEF CheckUpload, At, OpState
    <3>2. op'.allow => Approved'
      BY <3>1 DEF Approved, Cur, WordInv
    <3>3. QED
      BY <3>1, <3>2 DEF WordInv, Cur
  <2>3. QED
    BY <2>1, <2>2
<1>14. ASSUME NEW all \in BOOLEAN, AnswerOverwrite(all) PROVE WordInv'
  <2>1. /\ pc' = "transfer" /\ UNCHANGED <<queue, i>>
        /\ i \in user'.approved
        /\ run'.overwriteAll = IF all THEN run.overwriteAll \cup {Cur.direction}
                                      ELSE run.overwriteAll
        /\ user'.approvedAll = IF all THEN user.approvedAll \cup {Cur.direction}
                                      ELSE user.approvedAll
    BY <1>0, <1>14 DEF AnswerOverwrite, RunState, Words, TypeInv, TypeOK
  <2>2. Approved'
    BY <2>1 DEF Approved
  <2>3. run'.overwriteAll \subseteq user'.approvedAll
    BY <2>1 DEF WordInv
  <2>4. QED
    BY <2>1, <2>2, <2>3 DEF WordInv
<1>15. ASSUME NEW all \in BOOLEAN, AnswerSkip(all) PROVE WordInv'
  BY <1>0, <1>15, WordElsewhere DEF AnswerSkip, RunState
<1>16. CASE AnswerCancelQueue
  BY <1>0, <1>16, WordElsewhere DEF AnswerCancelQueue, RunState, Words
<1>17. CASE StatTarget
  <2>1. CASE pc' = "closed"
    BY <1>17, <2>1, WordElsewhere DEF StatTarget
  <2>2. CASE pc' # "closed"
    <3>1. /\ pc = "transfer" /\ pc' = "probe" /\ UNCHANGED <<queue, i, run, user>>
          /\ Cur.direction = "Upload" /\ op'.allow = op.allow
          /\ op'.saw => op.allow
      BY <1>0, <1>17, <2>2 DEF StatTarget, Return, Refused, OpState, At
    <3>2. QED
      BY <3>1 DEF WordInv, Approved, Cur
  <2>3. QED
    BY <2>1, <2>2
<1>18. CASE OpenUpload
  <2>1. CASE pc' = "closed"
    BY <1>18, <2>1, WordElsewhere DEF OpenUpload
  <2>2. CASE pc' # "closed"
    <3>1. /\ pc' = "stream" /\ UNCHANGED <<queue, i, run, user>>
          /\ Cur.direction = "Upload" /\ op'.data # Absent
      BY <1>0, <1>18, <2>2, TreeAssumption
        DEF OpenUpload, Return, OpState, IsFile, WordInv, Torn, Absent
    <3>2. QED
      BY <3>1 DEF WordInv, Cur
  <2>3. QED
    BY <2>1, <2>2
<1>19. CASE OpenDownload
  <2>1. CASE pc' = "closed"
    BY <1>19, <2>1, WordElsewhere DEF OpenDownload
  <2>2. CASE pc' # "closed"
    <3>1. /\ pc' = "stream" /\ UNCHANGED <<queue, i, run, user>>
          /\ Cur.direction = "Download" /\ op'.data # Absent /\ op'.saw = op.saw
          /\ pc = "transfer"
      BY <1>0, <1>19, <2>2, TreeAssumption
        DEF OpenDownload, Return, OpState, IsFile, At, Torn, Absent
    <3>2. QED
      BY <3>1 DEF WordInv, Approved, Cur
  <2>3. QED
    BY <2>1, <2>2
<1>20. CASE EndUpload \/ EndDownload
  BY <1>20, WordElsewhere DEF EndUpload, EndDownload, Return
<1>21. CASE Settle
  <2>1. CASE \E s \in Final, o \in Outcome : Finish(s, o)
    BY <1>7, <1>21, <2>1 DEF Settle
  <2>2. CASE ~ \E s \in Final, o \in Outcome : Finish(s, o)
    <3>1. pc' = "overwrite" /\ UNCHANGED <<queue, run, user>>
      BY <1>21, <2>2 DEF Settle, Outcome
    <3>2. QED
      BY <3>1, WordElsewhere
  <2>3. QED
    BY <2>1, <2>2
<1>22. CASE Environment \/ UNCHANGED vars
  BY <1>22, WordStays DEF Environment, vars
<1>23. QED
  BY <1>1, <1>2, <1>3, <1>4, <1>5, <1>6, <1>8, <1>9, <1>10, <1>11, <1>12,
     <1>13, <1>14, <1>15, <1>16, <1>17, <1>18, <1>19, <1>20, <1>21, <1>22
  DEF Next, Click, Answer, Step

\* The answers given in a run justify what it does to files.
SafeInv == ControlInv /\ WordInv

\* The strengthened invariant holds in every state.
LEMMA SafeInvHolds == Spec => []SafeInv
<1>1. Init => SafeInv
  <2>1. Init => ControlInv
    BY InitControlInv
  <2>2. Init => WordInv
    BY DEF Init, NewRun, NoWord, WordInv
  <2>3. QED
    BY <2>1, <2>2 DEF SafeInv
<1>2. SafeInv /\ [Next]_vars => SafeInv'
  BY NextControlInv, NextWordInv DEF SafeInv
<1>3. QED
  BY <1>1, <1>2, PTL DEF Spec

\* A folder, nothing and a file are three different things.
LEMMA Kinds == ~IsFile(Absent) /\ ~IsFile(Dir) /\ ~IsFile(Link) /\ Torn # Absent /\ Dir # Absent
               /\ Link # Dir
BY TreeAssumption DEF IsFile, Absent, Dir, Link, Torn

\* No existing file loses its bytes without the user's word, given in this run
\* for this item or for all of its kind; only a file nobody saw is exempt.
THEOREM Overwriting == Spec => OverwriteOnlyApproved
<1> DEFINE Good == Ours =>
      /\ \A p \in LocalPath : Overwrites(local, local', p) => Approved \/ ~op.saw
      /\ \A p \in RemotePath : Overwrites(remote, remote', p) =>
           \/ p = Cur.target /\ (Approved \/ ~op.saw)
           \/ pc = "stream" /\ remote[p] = Torn
<1>1. SafeInv /\ [Next]_vars => Good
  <2> SUFFICES ASSUME SafeInv, [Next]_vars, Ours PROVE Good
    OBVIOUS
  <2>0. TypeInv /\ WordInv
    BY DEF SafeInv, ControlInv
  <2>1. ASSUME NEW p \in LocalPath, Overwrites(local, local', p)
        PROVE  Approved \/ ~op.saw
    <3>1. LocalChange(p)
      BY <2>0, <2>1, LocalChanges DEF Overwrites
    <3>2. pc = "stream" /\ Cur.direction = "Download"
      BY <2>1, <3>1, Kinds DEF LocalChange, Overwrites
    <3>3. QED
      BY <2>0, <3>2 DEF WordInv
  <2>2. ASSUME NEW p \in RemotePath, Overwrites(remote, remote', p)
        PROVE  \/ p = Cur.target /\ (Approved \/ ~op.saw)
               \/ pc = "stream" /\ remote[p] = Torn
    <3>1. RemoteChange(p)
      BY <2>0, <2>2, RemoteChanges DEF Overwrites
    <3>2. (pc = "probe" /\ p = Cur.target) \/ (pc = "stream" /\ remote[p] = Torn)
      BY <2>2, <3>1, Kinds DEF RemoteChange, Overwrites
    <3>3. QED
      BY <2>0, <3>2 DEF WordInv
  <2>3. QED
    BY <2>1, <2>2
<1>2. QED
  BY <1>1, SafeInvHolds, PTL DEF Spec, OverwriteOnlyApproved

\* Nothing is removed but the target of a delete item the user said Yes to, and
\* on this computer only the kind of thing the question named.
THEOREM Deleting == Spec => DeleteOnlyConfirmed
<1> DEFINE Good == Ours =>
      /\ \A p \in LocalPath : Removes(local, local', p) =>
           /\ i \in user.confirmed /\ p = Cur.target
           /\ Cur.direction =
                IF local[p] = Dir THEN "Delete local dir" ELSE "Delete local file"
      /\ \A p \in RemotePath : Removes(remote, remote', p) =>
           /\ i \in user.confirmed /\ p = Cur.target
           /\ Cur.direction \in RemoteDelete
<1>1. SafeInv /\ [Next]_vars => Good
  <2> SUFFICES ASSUME SafeInv, [Next]_vars, Ours PROVE Good
    OBVIOUS
  <2>0. TypeInv /\ WordInv
    BY DEF SafeInv, ControlInv
  <2>1. ASSUME NEW p \in LocalPath, Removes(local, local', p)
        PROVE  /\ i \in user.confirmed /\ p = Cur.target
               /\ Cur.direction =
                    IF local[p] = Dir THEN "Delete local dir" ELSE "Delete local file"
    <3>1. LocalChange(p)
      BY <2>0, <2>1, LocalChanges DEF Removes
    <3>2. CASE pc = "stream" /\ local'[p] \in Read(op.data, remote[Cur.source])
      BY <2>0, <2>1, <3>2, Kinds DEF Read, Removes, WordInv
    <3>3. CASE /\ pc = "deleting" /\ p = Cur.target
               /\ Cur.direction \in LocalDelete /\ Removable(Cur)
      <4>1. IF Cur.direction = "Delete local dir"
              THEN local[p] = Dir ELSE IsFile(local[p]) \/ local[p] = Link
        BY <3>3 DEF Removable, CanRmdir, EmptyDir, CanUnlink
      <4>2. QED
        BY <2>0, <3>3, <4>1, Kinds DEF WordInv, LocalDelete
    <3>4. QED
      BY <2>1, <3>1, <3>2, <3>3, Kinds DEF LocalChange, Removes
  <2>2. ASSUME NEW p \in RemotePath, Removes(remote, remote', p)
        PROVE  /\ i \in user.confirmed /\ p = Cur.target
               /\ Cur.direction \in RemoteDelete
    <3>1. RemoteChange(p)
      BY <2>0, <2>2, RemoteChanges DEF Removes
    <3>2. CASE pc = "stream" /\ remote'[p] \in Read(op.data, Follow(local, Cur.source))
      BY <2>0, <2>2, <3>2, Kinds DEF Read, Removes, WordInv
    <3>3. CASE pc = "deleting" /\ p = Cur.target /\ Cur.direction \in RemoteDelete
      BY <2>0, <3>3 DEF WordInv
    <3>4. QED
      BY <2>2, <3>1, <3>2, <3>3, Kinds DEF RemoteChange, Removes
  <2>3. QED
    BY <2>1, <2>2
<1>2. QED
  BY <1>1, SafeInvHolds, PTL DEF Spec, DeleteOnlyConfirmed

\* A local file gets new bytes only from a download that ended well, and all of
\* them, whatever else fails or is cancelled.
THEOREM WholeOrNothing == Spec => WholeDownloads
<1> DEFINE Good == Ours => \A p \in LocalPath :
      local'[p] # local[p] /\ IsFile(local'[p]) =>
        /\ op'.outcome = "ok"
        /\ remote[Cur.source] = op.data => local'[p] = op.data
<1>1. SafeInv /\ [Next]_vars => Good
  <2> SUFFICES ASSUME SafeInv, [Next]_vars, Ours,
                      NEW p \in LocalPath, local'[p] # local[p], IsFile(local'[p])
               PROVE  /\ op'.outcome = "ok"
                      /\ remote[Cur.source] = op.data => local'[p] = op.data
    OBVIOUS
  <2>1. LocalChange(p)
    BY LocalChanges DEF SafeInv, ControlInv
  <2>2. op'.outcome = "ok" /\ local'[p] \in Read(op.data, remote[Cur.source])
    BY <2>1, Kinds DEF LocalChange
  <2>3. QED
    BY <2>2 DEF Read
<1>2. QED
  BY <1>1, SafeInvHolds, PTL DEF Spec, WholeDownloads

\* After the user's stop the run takes no item and touches no file.
THEOREM Stopping == Spec => StopRespected
<1> DEFINE Good == Ours /\ running /\ user.stop =>
      /\ UNCHANGED disks
      /\ user'.took = user.took \/ ~running'
<1>1. SafeInv /\ [Next]_vars => Good
  <2> SUFFICES ASSUME SafeInv, [Next]_vars, Ours, running, user.stop PROVE Good
    OBVIOUS
  <2>1. pc \in {"next", "marked", "crashed"} /\ run.stop
    BY DEF SafeInv, ControlInv, StopKnown, RunPoint, TypeInv, TypeOK, Control
  <2> USE DEF InItem, Yields, Modal
  <2>2. CASE Click
    <3>1. \E job \in Jobs : QueueLocalDelete(job)
      BY <2>1, <2>2 DEF Click, QueueTransfer, QueueRemoteDelete, ClearFinished,
        RemoveSelected, RetrySelected, Browse, Start
    <3>2. QED
      BY <3>1 DEF QueueLocalDelete, disks
  <2>3. CASE Answer
    BY <2>1, <2>3 DEF Answer, ConfirmDelete, RefuseDelete, AnswerOverwrite, AnswerSkip,
      AnswerCancelQueue, AnswerContinue
  <2>4. CASE PassOver \/ Take \/ EndRun \/ FollowUp
    BY <2>1, <2>4 DEF PassOver, Take, EndRun, FollowUp, Going, disks
  <2>5. CASE AskDelete \/ DeleteLocal \/ DeleteRemote \/ CreateLocalDir
             \/ CreateRemoteDir \/ LoseItem \/ Crash \/ FinishRefresh
    BY <2>1, <2>5 DEF AskDelete, DeleteLocal, DeleteRemote, CreateLocalDir,
      CreateRemoteDir, LoseItem, Crash, FinishRefresh, At, disks
  <2>6. CASE CheckDownload \/ CheckUpload \/ StatTarget \/ OpenUpload \/ EndUpload
             \/ OpenDownload \/ EndDownload \/ Settle
    BY <2>1, <2>6 DEF CheckDownload, CheckUpload, StatTarget, OpenUpload, EndUpload,
      OpenDownload, EndDownload, Settle, At
  <2>7. CASE Environment
    BY <2>7 DEF Environment, Ours, SafeInv, ControlInv, TypeInv, TypeOK
  <2>8. CASE UNCHANGED vars
    BY <2>8 DEF vars, disks
  <2>9. QED
    BY <2>2, <2>3, <2>4, <2>5, <2>6, <2>7, <2>8 DEF Next, Step
<1>2. QED
  BY <1>1, SafeInvHolds, PTL DEF Spec, StopRespected

-----------------------------------------------------------------------------
(***************************************************************************)
(* What Done means.  The queue holds what the user queued, and nothing but *)
(* the statuses of its items ever changes.                                 *)
(***************************************************************************)

SameItem(a, b) ==
  a.direction = b.direction /\ a.source = b.source /\ a.target = b.target

Queued == \A k \in DOMAIN queue : \E job \in Jobs : SameItem(queue[k], job)

\* A step gives items a status, drops some or appends a job; the item the run
\* works on stays where it is as long as the run does.
LEMMA ItemsStay ==
  ASSUME TypeInv, [Next]_vars
  PROVE  /\ \A k \in DOMAIN queue' : \/ \E m \in DOMAIN queue : SameItem(queue'[k], queue[m])
                                     \/ \E job \in Jobs : SameItem(queue'[k], job)
         /\ pc \in InItem => SameItem(queue'[i], queue[i])
<1> DEFINE Stay == \A k \in DOMAIN queue' : \/ \E m \in DOMAIN queue : SameItem(queue'[k], queue[m])
                                            \/ \E job \in Jobs : SameItem(queue'[k], job)
<1>0. /\ queue \in Seq(Entry) /\ DOMAIN queue = 1..Len(queue) /\ Len(queue) \in Nat
      /\ pc \in InItem => i \in DOMAIN queue
  BY DEF TypeInv, TypeOK, Placed
<1>1. ASSUME NEW job \in Jobs, Add(job)
      PROVE  Stay /\ (pc \in InItem => SameItem(queue'[i], queue[i]))
  <2>1. /\ DOMAIN queue' = 1..(Len(queue) + 1)
        /\ \A k \in DOMAIN queue : queue'[k] = queue[k]
    BY <1>0, <1>1, AddFacts DEF Add
  <2>2. queue'[Len(queue) + 1] = Item(job)
    BY <1>0, <1>1 DEF Add
  <2>3. SameItem(Item(job), job)
    BY DEF Item, SameItem
  <2>4. QED
    BY <1>0, <2>1, <2>2, <2>3 DEF SameItem
<1>2. CASE UNCHANGED queue
  BY <1>2 DEF SameItem
<1>3. ASSUME NEW keep \in SUBSET DOMAIN queue, Kept(queue, keep, queue'), pc \notin InItem
      PROVE  Stay
  <2>1. \A k \in DOMAIN queue' : \E m \in DOMAIN queue : queue'[k] = queue[m]
    BY <1>3 DEF Kept
  <2>2. QED
    BY <2>1 DEF SameItem
<1>4. ASSUME NEW s \in Status, Mark(s), i \in DOMAIN queue
      PROVE  Stay /\ (pc \in InItem => SameItem(queue'[i], queue[i]))
  <2>1. /\ DOMAIN queue' = DOMAIN queue
        /\ \A k \in DOMAIN queue : /\ queue'[k].direction = queue[k].direction
                                   /\ queue'[k].source = queue[k].source
                                   /\ queue'[k].target = queue[k].target
    BY <1>0, <1>4, MarkFacts DEF Mark
  <2>2. QED
    BY <1>0, <2>1 DEF SameItem
<1>5. ASSUME NEW rows \in SUBSET DOMAIN queue, RetrySelected(rows)
      PROVE  Stay /\ pc \notin InItem
  <2>1. DOMAIN queue' = DOMAIN queue /\ pc = "loop"
    BY <1>5 DEF RetrySelected
  <2>2. ASSUME NEW k \in DOMAIN queue PROVE SameItem(queue'[k], queue[k])
    <3>1. queue[k] \in Entry
      BY <1>0
    <3>2. queue'[k] = queue[k] \/ queue'[k] = [queue[k] EXCEPT !.status = "Pending"]
      BY <1>5 DEF RetrySelected
    <3>3. QED
      BY <3>1, <3>2 DEF SameItem, Entry
  <2>3. QED
    BY <2>1, <2>2 DEF InItem, Yields, Modal
<1> USE DEF InItem, Yields, Modal
<1>6. CASE Click
  <2>1. CASE \E job \in Jobs : QueueTransfer(job) \/ QueueRemoteDelete(job) \/ QueueLocalDelete(job)
    BY <1>1, <2>1 DEF QueueTransfer, QueueRemoteDelete, QueueLocalDelete
  <2>2. CASE ClearFinished
    <3>1. {k \in DOMAIN queue : queue[k].status \in {"Pending", "Running"}} \in SUBSET DOMAIN queue
      OBVIOUS
    <3>2. QED
      BY <1>3, <2>2, <3>1 DEF ClearFinished
  <2>3. ASSUME NEW rows \in SUBSET DOMAIN queue, RemoveSelected(rows)
        PROVE  Stay /\ pc \notin InItem
    <3>1. {k \in DOMAIN queue : k \notin rows \/ queue[k].status = "Running"} \in SUBSET DOMAIN queue
      OBVIOUS
    <3>2. QED
      BY <1>3, <2>3, <3>1 DEF RemoveSelected
  <2>4. CASE Browse \/ Start
    BY <1>2, <2>4 DEF Browse, Start
  <2>5. QED
    BY <1>5, <1>6, <2>1, <2>2, <2>3, <2>4 DEF Click
<1>7. CASE Answer
  BY <1>0, <1>2, <1>4, <1>7 DEF Answer, ConfirmDelete, RefuseDelete, AnswerOverwrite, AnswerSkip,
    AnswerCancelQueue, AnswerContinue, Status
<1>8. CASE Step
  <2>1. CASE PassOver \/ FollowUp \/ EndRun \/ AskDelete \/ StatTarget \/ OpenUpload
             \/ EndUpload \/ OpenDownload \/ EndDownload \/ Crash \/ FinishRefresh
    BY <1>2, <2>1 DEF PassOver, FollowUp, EndRun, AskDelete, StatTarget, OpenUpload,
      EndUpload, OpenDownload, EndDownload, Crash, FinishRefresh
  <2>2. CASE Take
    BY <1>4, <2>2 DEF Take, Going, Status
  <2>3. CASE CreateLocalDir \/ CreateRemoteDir \/ DeleteLocal \/ DeleteRemote \/ LoseItem
             \/ CheckDownload \/ CheckUpload \/ Settle
    BY <1>0, <1>2, <1>4, <2>3 DEF CreateLocalDir, CreateRemoteDir, DeleteLocal, DeleteRemote,
      LoseItem, CheckDownload, CheckUpload, Settle, Finish, At, Status
  <2>4. QED
    BY <1>8, <2>1, <2>2, <2>3 DEF Step
<1>9. CASE Environment \/ UNCHANGED vars
  BY <1>2, <1>9 DEF Environment, vars
<1>10. QED
  BY <1>6, <1>7, <1>8, <1>9 DEF Next

\* Nothing gets into the queue but what the user queued.
LEMMA NextQueued ==
  ASSUME TypeInv, Queued, [Next]_vars
  PROVE  Queued'
<1> SUFFICES ASSUME NEW k \in DOMAIN queue'
             PROVE  \E job \in Jobs : SameItem(queue'[k], job)
  BY DEF Queued
<1>1. CASE \E m \in DOMAIN queue : SameItem(queue'[k], queue[m])
  BY <1>1 DEF Queued, SameItem
<1>2. QED
  BY <1>1, ItemsStay

\* Each item names paths on the sides its direction needs.
LEMMA Sides ==
  ASSUME TypeInv, Queued, pc \in InItem
  PROVE  /\ Cur.direction = "Upload" => Cur.source \in LocalPath /\ Cur.target \in RemotePath
         /\ Cur.direction = "Download" => Cur.source \in RemotePath /\ Cur.target \in LocalPath
         /\ Cur.direction \in {"Create local dir"} \cup LocalDelete => Cur.target \in LocalPath
         /\ Cur.direction \in {"Create remote dir"} \cup RemoteDelete => Cur.target \in RemotePath
<1>1. PICK job \in Jobs : SameItem(Cur, job)
  BY DEF Queued, Cur, TypeInv, Placed
<1>2. WellSided(job)
  BY QueueAssumption
<1>3. QED
  BY <1>1, <1>2 DEF SameItem, WellSided

\* The two ways a local delete becomes Done and leaves its target: a link whose
\* own target is gone does not exist for QFileInfo, and the item may have moved
\* away under the run.
Excused ==
  /\ Cur.direction \in LocalDelete
  /\ ~ref \/ (local[Cur.target] = Link /\ ~Exists(local, Cur.target))

\* While no other program interferes, a transfer holds the bytes of its source,
\* and what ended well has done what its item asks for.
DoneInv ==
  /\ envLeft \in 0..MaxEnv
  /\ envLeft = MaxEnv =>
       /\ pc = "stream" /\ Cur.direction = "Upload" =>
            op.data = Follow(local, Cur.source) /\ remote[Cur.target] = Torn
       /\ pc = "stream" /\ Cur.direction = "Download" => op.data = remote[Cur.source]
       /\ pc = "closed" /\ op.outcome = "ok" => Achieved(Cur)
       /\ pc = "marked" /\ op.outcome = "ok" => Achieved(Cur) \/ Excused

\* A step to a point DoneInv says nothing of.
LEMMA DoneElsewhere ==
  ASSUME DoneInv, UNCHANGED envLeft, pc' # "stream",
         pc' \in {"closed", "marked"} => op'.outcome # "ok"
  PROVE  DoneInv'
BY DEF DoneInv

\* A step that leaves the item, its result and the trees alone.
LEMMA DoneStays ==
  ASSUME TypeInv, DoneInv, [Next]_vars, UNCHANGED <<envLeft, pc, i, op, local, remote>>,
         ~ref => ~ref'
  PROVE  DoneInv'
<1>1. CASE pc \in InItem
  <2>1. SameItem(Cur', Cur)
    BY <1>1, ItemsStay DEF Cur
  <2>2. Achieved(Cur) => Achieved(Cur)'
    BY <2>1 DEF SameItem, Achieved
  <2>3. QED
    BY <2>1, <2>2 DEF DoneInv, SameItem, Excused
<1>2. CASE pc \notin InItem
  BY <1>2, DoneElsewhere DEF InItem, Yields, Modal
<1>3. QED
  BY <1>1, <1>2

\* An item that ends well has done what it is for.
LEMMA DoneFinish ==
  ASSUME TypeInv, DoneInv, [Next]_vars, pc \in InItem, UNCHANGED <<envLeft, i>>,
         NEW s \in Final, NEW o \in Outcome, Finish(s, o),
         o = "ok" /\ envLeft = MaxEnv => Achieved(Cur)' \/ Excused'
  PROVE  DoneInv'
<1>1. pc' = "marked" /\ op'.outcome = o
  BY FinishStep
<1>2. QED
  BY <1>1 DEF DoneInv

\* Making a folder, deleting and settling a transfer: what is Done is so.
LEMMA DoneItems ==
  ASSUME TypeInv, Queued, DoneInv, [Next]_vars,
         \/ CreateLocalDir \/ CreateRemoteDir \/ DeleteLocal \/ DeleteRemote
         \/ LoseItem \/ Settle
  PROVE  DoneInv'
<1> USE DEF InItem, Yields, Modal, Outcome
<1>0. pc \in InItem /\ UNCHANGED <<i, envLeft, ref>>
  BY DEF CreateLocalDir, CreateRemoteDir, DeleteLocal, DeleteRemote, LoseItem, Settle, At
<1>1. SameItem(Cur', Cur)
  BY <1>0, ItemsStay DEF Cur
<1>2. local \in [LocalPath -> Node] /\ remote \in [RemotePath -> Node \ {Link}]
  BY DEF TypeInv, TypeOK, LocalTree, RemoteTree
<1>3. CASE CreateLocalDir
  <2>1. Cur.direction = "Create local dir" /\ Cur.target \in LocalPath
    BY <1>0, <1>3, Sides DEF CreateLocalDir, At
  <2>2. ASSUME Finish("Done", "ok") PROVE Achieved(Cur)'
    <3>1. op'.outcome = "ok"
      BY <1>0, <2>2, FinishStep
    <3>2. \/ Follow(local, Cur.target) = Dir /\ local' = local
          \/ local' = Mkpath(local, Cur.target)
      BY <1>0, <1>3, <3>1, FinishStep DEF CreateLocalDir
    <3>3. Follow(local', Cur.target) = Dir
      BY <1>2, <2>1, <3>2, Kinds DEF Mkpath, Follow, Resolve
    <3>4. QED
      BY <1>1, <2>1, <3>3 DEF SameItem, Achieved, LocalDelete
  <2>3. QED
    BY <1>0, <1>3, <2>2, DoneFinish DEF CreateLocalDir
<1>4. CASE CreateRemoteDir
  <2>1. Cur.direction = "Create remote dir" /\ Cur.target \in RemotePath
    BY <1>0, <1>4, Sides DEF CreateRemoteDir, At
  <2>2. ASSUME Finish("Done", "ok") PROVE Achieved(Cur)'
    <3>1. op'.outcome = "ok"
      BY <1>0, <2>2, FinishStep
    <3>2. remote'[Cur.target] = Dir
      BY <1>0, <1>2, <1>4, <2>1, <3>1, FinishStep DEF CreateRemoteDir
    <3>3. QED
      BY <1>1, <2>1, <3>2 DEF SameItem, Achieved, LocalDelete
  <2>3. QED
    BY <1>0, <1>4, <2>2, DoneFinish DEF CreateRemoteDir
<1>5. CASE DeleteLocal
  <2>1. Cur.direction \in LocalDelete /\ Cur.target \in LocalPath
    BY <1>0, <1>5, Sides DEF DeleteLocal, At
  <2>2. ASSUME Finish("Done", "ok") PROVE Achieved(Cur)' \/ Excused'
    <3>1. op'.outcome = "ok"
      BY <1>0, <2>2, FinishStep
    <3>2. \/ ~Exists(local, Cur.target) /\ local' = local
          \/ local'[Cur.target] = Absent
      BY <1>0, <1>2, <1>5, <2>1, <3>1, FinishStep DEF DeleteLocal
    <3>3. \/ local'[Cur.target] = Absent
          \/ local'[Cur.target] = Link /\ ~Exists(local', Cur.target)
      BY <3>2 DEF Exists, Follow, Resolve
    <3>4. QED
      BY <1>1, <2>1, <3>3 DEF SameItem, Achieved, Excused, Exists, LocalDelete
  <2>3. QED
    BY <1>0, <1>5, <2>2, DoneFinish DEF DeleteLocal
<1>6. CASE DeleteRemote
  <2>1. Cur.direction \in RemoteDelete /\ Cur.target \in RemotePath
    BY <1>0, <1>6, Sides DEF DeleteRemote, At
  <2>2. ASSUME Finish("Done", "ok") PROVE Achieved(Cur)'
    <3>1. op'.outcome = "ok"
      BY <1>0, <2>2, FinishStep
    <3>2. remote'[Cur.target] = Absent
      BY <1>0, <1>2, <1>6, <2>1, <3>1, FinishStep DEF DeleteRemote
    <3>3. QED
      BY <1>1, <2>1, <3>2 DEF SameItem, Achieved, LocalDelete, RemoteDelete
  <2>3. QED
    BY <1>0, <1>6, <2>2, DoneFinish DEF DeleteRemote
<1>7. CASE LoseItem
  <2>1. CASE pc = "transfer"
    <3>1. pc' = "closed" /\ op'.outcome = "failed"
      BY <1>7, <2>1 DEF LoseItem, TypeInv, TypeOK, OpState
    <3>2. QED
      BY <1>0, <3>1, DoneElsewhere
  <2>2. CASE pc = "deleting" /\ Cur.direction \in LocalDelete
    <3>1. Finish("Done", "ok")
      BY <1>7, <2>2 DEF LoseItem, LocalDelete, RemoteDelete
    <3>2. ~ref'
      <4>1. ref' = ref
        BY <1>0
      <4>2. ~ref
        BY <1>7, Zenon DEF LoseItem
      <4>3. QED
        BY <4>1, <4>2, Zenon
    <3>3. Excused'
      BY <1>1, <2>2, <3>2 DEF Excused, SameItem
    <3>4. QED
      BY <1>0, <3>1, <3>3, DoneFinish
  <2>3. CASE pc # "transfer" /\ ~(pc = "deleting" /\ Cur.direction \in LocalDelete)
    <3>1. Finish("Failed", "failed")
      BY <1>7, <2>3 DEF LoseItem
    <3>2. QED
      BY <1>0, <3>1, DoneFinish
  <2>4. QED
    BY <2>1, <2>2, <2>3
<1>8. CASE Settle
  <2>1. CASE op.outcome = "ok"
    <3>1. Finish("Done", "ok") /\ UNCHANGED <<local, remote>> /\ pc = "closed"
      BY <1>8, <2>1 DEF Settle
    <3>2. envLeft = MaxEnv => Achieved(Cur)
      BY <2>1, <3>1 DEF DoneInv
    <3>3. Achieved(Cur) => Achieved(Cur)'
      BY <1>1, <3>1 DEF SameItem, Achieved
    <3>4. QED
      BY <1>0, <3>1, <3>2, <3>3, DoneFinish
  <2>2. CASE pc' = "overwrite"
    BY <1>0, <2>2, DoneElsewhere
  <2>3. CASE op.outcome # "ok" /\ pc' # "overwrite"
    <3>1. \E s \in Final, o \in {"cancelled", "stopped", "failed"} : Finish(s, o)
      BY <1>8, <2>3 DEF Settle
    <3>2. QED
      BY <1>0, <3>1, DoneFinish
  <2>4. QED
    BY <2>1, <2>2, <2>3
<1>9. QED
  BY <1>3, <1>4, <1>5, <1>6, <1>7, <1>8

\* The probe's steps: what a transfer holds, and what it has written.
LEMMA DoneTransfers ==
  ASSUME TypeInv, WordInv, Queued, DoneInv, [Next]_vars,
         OpenUpload \/ EndUpload \/ OpenDownload \/ EndDownload
  PROVE  DoneInv'
<1> USE DEF InItem, Yields, Modal, Outcome
<1>0. pc \in InItem /\ UNCHANGED <<i, envLeft, ref, queue>> /\ op \in OpState
  BY DEF OpenUpload, EndUpload, OpenDownload, EndDownload, At, TypeInv, TypeOK
<1>1. Cur' = Cur
  BY <1>0 DEF Cur
<1>2. local \in [LocalPath -> Node] /\ remote \in [RemotePath -> Node \ {Link}]
  BY DEF TypeInv, TypeOK, LocalTree, RemoteTree
<1>3. CASE pc' = "closed" /\ op'.outcome # "ok"
  BY <1>0, <1>3, DoneElsewhere
<1>4. CASE OpenUpload
  <2>1. CASE pc' = "stream"
    <3>1. /\ Cur.direction = "Upload" /\ Cur.target \in RemotePath
          /\ op'.data = Follow(local, Cur.source) /\ local' = local
          /\ remote' = [remote EXCEPT ![Cur.target] = Torn]
      BY <1>0, <1>4, <2>1, Sides DEF OpenUpload, Return, OpState, WordInv
    <3>2. remote'[Cur.target] = Torn
      BY <1>2, <3>1
    <3>3. QED
      BY <1>0, <1>1, <2>1, <3>1, <3>2 DEF DoneInv
  <2>2. CASE pc' # "stream"
    BY <1>0, <1>3, <1>4, <2>2 DEF OpenUpload, Return, OpState
  <2>3. QED
    BY <2>1, <2>2
<1>5. CASE OpenDownload
  <2>1. CASE pc' = "stream"
    <3>1. /\ Cur.direction = "Download" /\ op'.data = remote[Cur.source] /\ remote' = remote
      BY <1>0, <1>5, <2>1 DEF OpenDownload, Return, OpState, At
    <3>2. QED
      BY <1>0, <1>1, <2>1, <3>1 DEF DoneInv
  <2>2. CASE pc' # "stream"
    BY <1>0, <1>3, <1>5, <2>2 DEF OpenDownload, Return, OpState
  <2>3. QED
    BY <2>1, <2>2
<1>6. CASE EndUpload /\ op'.outcome = "ok" /\ envLeft = MaxEnv
  <2>1. /\ Cur.direction = "Upload" /\ Cur.target \in RemotePath /\ local' = local
        /\ op.data = Follow(local, Cur.source) /\ remote[Cur.target] = Torn
    BY <1>0, <1>6, Sides DEF EndUpload, DoneInv
  <2>2. remote' = [remote EXCEPT ![Cur.target] = op.data] /\ pc' = "closed"
    BY <1>0, <1>6, <2>1 DEF EndUpload, Return, Read, OpState
  <2>3. Achieved(Cur)'
    BY <1>1, <1>2, <2>1, <2>2 DEF Achieved, LocalDelete
  <2>4. QED
    BY <1>0, <2>2, <2>3 DEF DoneInv
<1>7. CASE EndDownload /\ op'.outcome = "ok" /\ envLeft = MaxEnv
  <2> DEFINE p == Cur.target
             r == Resolve(local, p)
             bytes == remote[Cur.source]
  <2>1. /\ Cur.direction = "Download" /\ Cur.source \in RemotePath /\ p \in LocalPath
        /\ op.data = bytes /\ remote' = remote
    BY <1>0, <1>7, Sides DEF EndDownload, DoneInv
  <2>2. local' = [local EXCEPT ![r] = bytes] /\ CanReplace(p) /\ pc' = "closed"
    BY <1>0, <1>7, <2>1 DEF EndDownload, Return, Read, OpState
  <2>3. r \in LocalPath /\ bytes # Link /\ local[r] # Link
    BY <1>2, <2>1, <2>2, TreeAssumption DEF Resolve, CanReplace, Follow
  <2>4. Follow(local', p) = bytes
    BY <1>2, <2>1, <2>2, <2>3 DEF Resolve, Follow
  <2>5. Achieved(Cur)'
    BY <1>1, <2>1, <2>4 DEF Achieved, LocalDelete
  <2>6. QED
    BY <1>0, <2>2, <2>5 DEF DoneInv
<1>8. CASE (EndUpload \/ EndDownload) /\ envLeft # MaxEnv
  BY <1>0, <1>8 DEF DoneInv
<1>9. QED
  BY <1>3, <1>4, <1>5, <1>6, <1>7, <1>8 DEF EndUpload, EndDownload, Return

\* Every step keeps what is Done true, as long as no other program interferes.
LEMMA NextDoneInv ==
  ASSUME SafeInv, Queued, DoneInv, [Next]_vars
  PROVE  DoneInv'
<1>0. TypeInv /\ WordInv /\ op \in OpState /\ envLeft \in 0..MaxEnv
  BY DEF SafeInv, ControlInv, TypeInv, TypeOK, DoneInv
<1> USE DEF InItem, Yields, Modal
<1>1. ASSUME NEW job \in Jobs,
             QueueTransfer(job) \/ QueueRemoteDelete(job) \/ QueueLocalDelete(job)
      PROVE  DoneInv'
  <2>1. ref' \in {ref, FALSE}
    BY <1>1 DEF QueueTransfer, QueueRemoteDelete, QueueLocalDelete
  <2>2. ~ref => ~ref'
    BY <2>1
  <2>3. QED
    BY <1>0, <1>1, <2>2, DoneStays DEF QueueTransfer, QueueRemoteDelete, QueueLocalDelete
<1>2. CASE UNCHANGED vars
  <2>1. ref' = ref
    BY <1>2 DEF vars
  <2>2. ~ref => ~ref'
    BY <2>1, Zenon
  <2>3. QED
    BY <1>0, <1>2, <2>2, DoneStays DEF vars
<1>3. CASE ClearFinished \/ Browse \/ FinishRefresh
           \/ \E rows \in SUBSET DOMAIN queue : RemoveSelected(rows) \/ RetrySelected(rows)
  BY <1>3, DoneElsewhere DEF ClearFinished, Browse, FinishRefresh, RemoveSelected, RetrySelected
<1>4. CASE Start \/ PassOver \/ Take \/ EndRun \/ FollowUp \/ AskDelete \/ ConfirmDelete \/ Crash
           \/ \E yes \in BOOLEAN : AnswerContinue(yes)
  BY <1>4, DoneElsewhere DEF Start, PassOver, Take, EndRun, FollowUp, AskDelete, ConfirmDelete,
    Crash, AnswerContinue
<1>5. CASE RefuseDelete \/ AnswerCancelQueue
           \/ \E all \in BOOLEAN : AnswerOverwrite(all) \/ AnswerSkip(all)
  BY <1>0, <1>5, DoneElsewhere DEF RefuseDelete, AnswerCancelQueue, AnswerOverwrite, AnswerSkip,
    OpState
<1>6. CASE CheckDownload \/ CheckUpload
  <2>1. UNCHANGED <<i, envLeft>> /\ pc = "took"
    BY <1>6 DEF CheckDownload, CheckUpload, At
  <2>2. CASE \E s \in Final, o \in {"failed", "stopped"} : Finish(s, o)
    BY <1>0, <2>1, <2>2, DoneFinish DEF Outcome
  <2>3. CASE pc' \in {"overwrite", "transfer"}
    BY <2>1, <2>3, DoneElsewhere
  <2>4. QED
    BY <1>6, <2>2, <2>3 DEF CheckDownload, CheckUpload
<1>7. CASE StatTarget
  BY <1>0, <1>7, DoneElsewhere DEF StatTarget, Return, OpState
<1>8. CASE \/ CreateLocalDir \/ CreateRemoteDir \/ DeleteLocal \/ DeleteRemote
           \/ LoseItem \/ Settle
  BY <1>0, <1>8, DoneItems
<1>9. CASE OpenUpload \/ EndUpload \/ OpenDownload \/ EndDownload
  BY <1>0, <1>9, DoneTransfers
<1>10. CASE Environment
  BY <1>0, <1>10, QueueAssumption DEF Environment, DoneInv
<1>11. QED
  BY <1>1, <1>2, <1>3, <1>4, <1>5, <1>6, <1>7, <1>8, <1>9, <1>10
  DEF Next, Click, Answer, Step

\* The queue's items and what is Done, in every state.
LEMMA DoneInvHolds == Spec => [](Queued /\ DoneInv)
<1>1. Init => Queued /\ DoneInv
  BY QueueAssumption DEF Init, Queued, DoneInv
<1>2. SafeInv /\ Queued /\ [Next]_vars => Queued'
  BY NextQueued DEF SafeInv, ControlInv
<1>3. SafeInv /\ Queued /\ DoneInv /\ [Next]_vars => DoneInv'
  BY NextDoneInv
<1>4. QED
  BY <1>1, <1>2, <1>3, SafeInvHolds, PTL DEF Spec

\* What is Done is as its item asked when it was marked, as long as no other
\* program interfered: every transfer, every folder made and every remote
\* delete.  A local delete has two exceptions, and Excused names them.
THEOREM DoneMeansDone == Spec => [](DoneIsTrue \/ Excused)
<1>1. DoneInv => DoneIsTrue \/ Excused
  BY DEF DoneInv, DoneIsTrue
<1>2. QED
  BY <1>1, DoneInvHolds, PTL

\* In a queue without local deletes there is no exception.
THEOREM DoneTransfersAreTrue ==
  ASSUME \A job \in Jobs : job.direction \notin LocalDelete
  PROVE  Spec => []DoneIsTrue
<1>1. SafeInv /\ Queued /\ DoneInv => DoneIsTrue
  <2> SUFFICES ASSUME SafeInv, Queued, DoneInv, pc = "marked", op.outcome = "ok", envLeft = MaxEnv
               PROVE  Achieved(Cur)
    BY DEF DoneIsTrue
  <2>1. i \in DOMAIN queue
    BY DEF SafeInv, ControlInv, TypeInv, Placed, InItem, Yields
  <2>2. Cur.direction \notin LocalDelete
    BY <2>1 DEF Queued, Cur, SameItem
  <2>3. QED
    BY <2>2 DEF DoneInv, Excused
<1>2. QED
  BY <1>1, DoneInvHolds, SafeInvHolds, PTL
-----------------------------------------------------------------------------
(***************************************************************************)
(* The counters of a run's summary say what became of the items it took,   *)
(* whichever exit each of them left by.                                    *)
(***************************************************************************)

\* The items the run has given status s so far.
Ended(s) == {k \in user.took : queue[k].status = s}

\* The run took items up to the current one only, and counted those it ended.
TallyInv ==
  running =>
    /\ user.took \subseteq DOMAIN queue
    /\ \A k \in user.took : k < i \/ (k = i /\ pc \in InItem \cup {"crashed"})
    /\ pc \in Working => i \in user.took
    /\ \A s \in Final : run.count[s] = Cardinality(Ended(s))

\* A queue is finite, so what the run took of it is.
LEMMA EndedFinite ==
  ASSUME TypeInv, TallyInv, running, NEW s \in Final
  PROVE  IsFiniteSet(Ended(s))
<1>1. IsFiniteSet(1..Len(queue)) /\ DOMAIN queue = 1..Len(queue)
  BY FS_Interval DEF TypeInv, TypeOK
<1>2. Ended(s) \subseteq 1..Len(queue)
  BY <1>1 DEF Ended, TallyInv
<1>3. QED
  BY <1>1, <1>2, FS_Subset

\* A step that neither takes nor ends an item.
LEMMA SameTally ==
  ASSUME TallyInv, running, TypeInv, UNCHANGED i, user'.took = user.took,
         run'.count = run.count,
         DOMAIN queue \subseteq DOMAIN queue', \A k \in DOMAIN queue : queue'[k] = queue[k],
         pc' \in Working => pc \in Working,
         pc \in InItem => pc' \in InItem \cup {"crashed"},
         pc = "crashed" => pc' = "crashed"
  PROVE  TallyInv'
<1>1. user.took \subseteq DOMAIN queue
  BY DEF TallyInv
<1>2. \A s \in Final : Ended(s)' = Ended(s)
  BY <1>1 DEF Ended
<1>3. QED
  BY <1>1, <1>2 DEF TallyInv

\* The run moves on from an item that has its status.
LEMMA MovedTally ==
  ASSUME TallyInv, running, TypeInv, UNCHANGED queue, user'.took = user.took,
         run'.count = run.count, pc' \notin Working,
         i' = i + 1 \/ (i' = i /\ pc' \in InItem)
  PROVE  TallyInv'
<1>1. i \in Nat /\ DOMAIN queue \subseteq Nat /\ user.took \subseteq DOMAIN queue
  BY DEF TypeInv, TypeOK, TallyInv
<1>2. \A s \in Final : Ended(s)' = Ended(s)
  BY DEF Ended
<1>3. \A k \in user.took : k <= i
  BY <1>1 DEF TallyInv
<1>4. \A k \in user'.took : k < i' \/ (k = i' /\ pc' \in InItem \cup {"crashed"})
  BY <1>1, <1>3
<1>5. QED
  BY <1>2, <1>4 DEF TallyInv

\* The current item ends.
LEMMA CountedTally ==
  ASSUME ControlInv, TallyInv, pc \in Working, NEW s \in Final, Mark(s),
         run'.count = [run.count EXCEPT ![s] = @ + 1],
         pc' = "marked", UNCHANGED i, user'.took = user.took
  PROVE  TallyInv'
<1>1. /\ running /\ i \in user.took /\ user.took \subseteq DOMAIN queue
      /\ TypeInv /\ queue[i].status = "Running"
      /\ run.count \in [Final -> Nat]
  BY DEF ControlInv, RunPoint, AtWork, TallyInv, Working, InItem, Yields, Modal,
    TypeInv, TypeOK, RunState
<1>2. /\ DOMAIN queue' = DOMAIN queue /\ queue'[i].status = s
      /\ \A k \in DOMAIN queue : k # i => queue'[k] = queue[k]
  BY <1>1, MarkStep DEF TypeInv, TypeOK, Status
<1>3. i \notin Ended(s)
  BY <1>1 DEF Ended
<1>4. Ended(s)' = Ended(s) \cup {i}
  BY <1>1, <1>2 DEF Ended
<1>5. Cardinality(Ended(s) \cup {i}) = Cardinality(Ended(s)) + 1
  BY <1>1, <1>3, EndedFinite, FS_AddElement
<1>6. \A t \in Final : t # s => Ended(t)' = Ended(t)
  BY <1>1, <1>2 DEF Ended
<1>7. \A t \in Final : run'.count[t] = Cardinality(Ended(t)')
  BY <1>1, <1>4, <1>5, <1>6 DEF TallyInv
<1>8. QED
  BY <1>1, <1>2, <1>7 DEF TallyInv, Working, InItem, Yields, Modal

\* Every step keeps the counters and the statuses together.
LEMMA NextTallyInv == ControlInv /\ TallyInv /\ [Next]_vars => TallyInv'
<1> SUFFICES ASSUME ControlInv, TallyInv, [Next]_vars PROVE TallyInv'
  OBVIOUS
<1>0. TypeInv /\ TypeInv' /\ (running <=> pc # "loop") /\ (running' <=> pc' # "loop")
  BY NextTypeInv, NextControlInv DEF ControlInv, RunPoint
<1> USE DEF Working, InItem, Yields, Modal
<1>1. CASE pc = "loop" /\ UNCHANGED running
  BY <1>0, <1>1 DEF TallyInv
<1>2. ASSUME NEW job \in Jobs, QueueLocalDelete(job), running PROVE TallyInv'
  <2>1. \A k \in DOMAIN queue : k \in DOMAIN queue' /\ queue'[k] = queue[k]
    <3>1. Add(job) /\ queue \in Seq(Entry)
      BY <1>0, <1>2 DEF QueueLocalDelete, TypeInv, TypeOK
    <3>2. QED
      BY <3>1, AddFacts DEF Add
  <2>2. QED
    BY <1>0, <1>2, <2>1, SameTally DEF QueueLocalDelete
<1>3. CASE Click
  <2>1. CASE Start
    <3>1. user'.took = {} /\ run'.count = [s \in Final |-> 0] /\ pc' = "next"
      BY <2>1 DEF Start, NewRun, NoWord
    <3>2. \A s \in Final : Ended(s)' = {}
      BY <3>1 DEF Ended
    <3>3. QED
      BY <3>1, <3>2, FS_EmptySet DEF TallyInv
  <2>2. CASE pc # "loop"
    BY <1>0, <1>2, <1>3, <2>2 DEF Click, QueueTransfer, QueueRemoteDelete, ClearFinished,
      RemoveSelected, RetrySelected, Browse, Start
  <2>3. CASE pc = "loop" /\ ~Start
    BY <1>1, <1>3, <2>3 DEF Click, QueueTransfer, QueueRemoteDelete, QueueLocalDelete,
      ClearFinished, RemoveSelected, RetrySelected, Browse
  <2>4. QED
    BY <2>1, <2>2, <2>3
<1>4. CASE FinishRefresh
  BY <1>1, <1>4 DEF FinishRefresh
<1>5. CASE EndRun
  BY <1>5 DEF EndRun, TallyInv
<1>6. CASE PassOver
  BY <1>0, <1>6, MovedTally DEF PassOver
<1>7. CASE FollowUp
  BY <1>0, <1>7, MovedTally DEF FollowUp
<1>8. ASSUME NEW yes \in BOOLEAN, AnswerContinue(yes) PROVE TallyInv'
  <2>1. run'.count = run.count /\ user'.took = user.took
    BY <1>0, <1>8 DEF AnswerContinue, TypeInv, TypeOK, RunState, Words
  <2>2. QED
    BY <1>0, <1>8, <2>1, MovedTally DEF AnswerContinue
<1>9. CASE Take
  <2>1. /\ running /\ pc = "next" /\ pc' = "took" /\ UNCHANGED <<i, run>>
        /\ i \in DOMAIN queue /\ queue[i].status = "Pending"
        /\ user'.took = user.took \cup {i}
    BY <1>0, <1>9 DEF Take, Going, TypeInv, TypeOK, Words
  <2>2. /\ DOMAIN queue' = DOMAIN queue /\ queue'[i].status = "Running"
        /\ \A k \in DOMAIN queue : k # i => queue'[k] = queue[k]
    BY <1>0, <1>9, <2>1, MarkStep DEF Take, TypeInv, TypeOK, Status
  <2>3. user.took \subseteq DOMAIN queue /\ i \notin user.took /\ i \in Nat
    BY <1>0, <2>1 DEF TallyInv, TypeInv, TypeOK
  <2>4. \A s \in Final : Ended(s)' = Ended(s)
    BY <2>1, <2>2, <2>3 DEF Ended
  <2>5. QED
    BY <2>1, <2>2, <2>3, <2>4 DEF TallyInv
<1>10. CASE RefuseDelete
  <2>1. /\ running /\ pc = "confirm" /\ pc' = "marked" /\ UNCHANGED i
        /\ i \in DOMAIN queue /\ queue[i].status = "Running"
        /\ user'.took = user.took \ {i} /\ run'.count = run.count
    BY <1>0, <1>10 DEF RefuseDelete, TypeInv, TypeOK, Placed, Words, RunState, ControlInv,
      AtWork
  <2>2. /\ DOMAIN queue' = DOMAIN queue
        /\ \A k \in DOMAIN queue : k # i => queue'[k] = queue[k]
    BY <1>0, <1>10, <2>1, MarkStep DEF RefuseDelete, TypeInv, TypeOK, Status
  <2>3. user.took \subseteq DOMAIN queue
    BY <2>1 DEF TallyInv
  <2>4. \A s \in Final : Ended(s)' = Ended(s)
    BY <2>1, <2>2, <2>3 DEF Ended
  <2>5. QED
    BY <2>1, <2>2, <2>3, <2>4 DEF TallyInv
<1>11. ASSUME NEW s \in Final, NEW o \in Outcome, Finish(s, o), pc \in Working,
              UNCHANGED <<i, user>>
       PROVE  TallyInv'
  <2>1. run'.count = [run.count EXCEPT ![s] = @ + 1]
    BY <1>0, <1>11 DEF Finish, TypeInv, TypeOK, RunState
  <2>2. QED
    BY <1>11, <2>1, CountedTally DEF Finish
<1>12. CASE CreateLocalDir \/ CreateRemoteDir \/ DeleteLocal \/ DeleteRemote
  BY <1>11, <1>12 DEF CreateLocalDir, CreateRemoteDir, DeleteLocal, DeleteRemote, At,
    Outcome
<1>13. CASE LoseItem \/ CheckDownload \/ CheckUpload \/ Settle
  <2>1. CASE \E s \in Final, o \in Outcome : Finish(s, o)
    BY <1>11, <1>13, <2>1 DEF LoseItem, CheckDownload, CheckUpload, Settle, At
  <2>2. CASE ~ \E s \in Final, o \in Outcome : Finish(s, o)
    <3>1. /\ running /\ UNCHANGED <<queue, i, run, user>>
          /\ pc \in Working /\ pc' \in Working
      BY <1>0, <1>13, <2>2 DEF LoseItem, CheckDownload, CheckUpload, Settle, At, Outcome
    <3>2. QED
      BY <1>0, <3>1, SameTally
  <2>3. QED
    BY <2>1, <2>2
<1>14. CASE \/ AskDelete \/ Crash \/ StatTarget \/ OpenUpload \/ EndUpload
            \/ OpenDownload \/ EndDownload
  BY <1>0, <1>14, SameTally DEF AskDelete, Crash, StatTarget, OpenUpload, EndUpload,
    OpenDownload, EndDownload, Return, At
<1>15. CASE ConfirmDelete
  <2>1. user'.took = user.took
    BY <1>0, <1>15 DEF ConfirmDelete, TypeInv, TypeOK, Words
  <2>2. QED
    BY <1>0, <1>15, <2>1, SameTally DEF ConfirmDelete
<1>16. ASSUME NEW all \in BOOLEAN, AnswerOverwrite(all) PROVE TallyInv'
  <2>1. user'.took = user.took /\ run'.count = run.count
    BY <1>0, <1>16 DEF AnswerOverwrite, TypeInv, TypeOK, Words, RunState
  <2>2. QED
    BY <1>0, <1>16, <2>1, SameTally DEF AnswerOverwrite
<1>17. ASSUME NEW all \in BOOLEAN, AnswerSkip(all) PROVE TallyInv'
  <2>1. run'.count = [run.count EXCEPT !["Skipped"] = @ + 1]
    BY <1>0, <1>17 DEF AnswerSkip, TypeInv, TypeOK, RunState
  <2>2. QED
    BY <1>17, <2>1, CountedTally DEF AnswerSkip
<1>18. CASE AnswerCancelQueue
  <2>1. run'.count = [run.count EXCEPT !["Cancelled"] = @ + 1] /\ user'.took = user.took
    BY <1>0, <1>18 DEF AnswerCancelQueue, TypeInv, TypeOK, RunState, Words
  <2>2. QED
    BY <1>18, <2>1, CountedTally DEF AnswerCancelQueue
<1>19. CASE Environment \/ UNCHANGED vars
  BY <1>0, <1>1, <1>19, SameTally DEF Environment, vars
<1>20. QED
  BY <1>3, <1>4, <1>5, <1>6, <1>7, <1>8, <1>9, <1>10, <1>12, <1>13, <1>14, <1>15,
     <1>16, <1>17, <1>18, <1>19
  DEF Next, Answer, Step

\* The four counters a run's summary shows are the statuses of the items it took.
THEOREM Counting == Spec => []Tally
<1>1. Init => ControlInv /\ TallyInv
  BY InitControlInv DEF Init, TallyInv
<1>2. (ControlInv /\ TallyInv) /\ [Next]_vars => (ControlInv /\ TallyInv)'
  BY NextControlInv, NextTallyInv
<1>3. ControlInv /\ TallyInv => Tally
  BY DEF TallyInv, Tally, Ended
<1>4. QED
  BY <1>1, <1>2, <1>3, PTL DEF Spec

=============================================================================
