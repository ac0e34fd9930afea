------------------------- MODULE TransferQueueProofs -------------------------
(***************************************************************************)
(* Proofs about the control of TransferQueue: its types and what holds at  *)
(* each control point, for any queue, any file trees and any bounds.       *)
(***************************************************************************)
EXTENDS TransferQueue, TLAPS

-----------------------------------------------------------------------------
(***************************************************************************)
(* Lists of items.                                                         *)
(***************************************************************************)

\* Dropping rows (Clear finished, Remove selected) leaves a list of the same
\* kind of entries.
LEMMA KeptType ==
  ASSUME NEW S, NEW q \in Seq(S), NEW keep \in SUBSET DOMAIN q, NEW kept,
         Kept(q, keep, kept)
  PROVE  kept \in Seq(S)
<1>1. DOMAIN q = 1..Len(q) /\ Len(q) \in Nat
  OBVIOUS
<1>2. PICK n \in 0..Len(q) :
        \E f \in [1..n -> keep] : kept = [m \in 1..n |-> q[f[m]]]
  BY DEF Kept
<1>3. PICK f \in [1..n -> keep] : kept = [m \in 1..n |-> q[f[m]]]
  BY <1>2
<1>4. \A m \in 1..n : q[f[m]] \in S
  BY <1>1
<1>5. QED
  BY <1>1, <1>3, <1>4

\* Giving one item a status (setQueueItemStatus) changes nothing else.
LEMMA MarkFacts ==
  ASSUME NEW q \in Seq(Entry), NEW n \in DOMAIN q, NEW s \in Status,
         NEW r, r = [q EXCEPT ![n].status = s]
  PROVE  /\ r \in Seq(Entry)
         /\ Len(r) = Len(q) /\ DOMAIN r = DOMAIN q
         /\ r[n] = [q[n] EXCEPT !.status = s] /\ r[n].status = s
         /\ \A k \in DOMAIN q : k # n => r[k] = q[k]
         /\ \A k \in DOMAIN q : /\ r[k].direction = q[k].direction
                                /\ r[k].source = q[k].source
                                /\ r[k].target = q[k].target
<1>1. q[n] \in Entry
  OBVIOUS
<1>2. [q[n] EXCEPT !.status = s] \in Entry
  BY <1>1 DEF Entry
<1>3. r = [q EXCEPT ![n] = [q[n] EXCEPT !.status = s]]
  OBVIOUS
<1>4. r \in Seq(Entry) /\ Len(r) = Len(q) /\ DOMAIN r = DOMAIN q
  BY <1>2, <1>3
<1>5. /\ r[n] = [q[n] EXCEPT !.status = s]
      /\ \A k \in DOMAIN q : k # n => r[k] = q[k]
  BY <1>3
<1>6. QED
  BY <1>1, <1>2, <1>4, <1>5 DEF Entry

\* An item joins at the end, Pending.
LEMMA AddFacts ==
  ASSUME NEW q \in Seq(Entry), NEW job \in Jobs, NEW r, r = Append(q, Item(job))
  PROVE  /\ r \in Seq(Entry)
         /\ Len(r) = Len(q) + 1 /\ r[Len(q) + 1].status = "Pending"
         /\ DOMAIN r = 1..(Len(q) + 1)
         /\ \A k \in DOMAIN q : k \in DOMAIN r /\ r[k] = q[k]
<1>1. Item(job) \in Entry
  BY QueueAssumption DEF Item, Job, Entry, Status, Final
<1>2. QED
  BY <1>1 DEF Item

-----------------------------------------------------------------------------
(***************************************************************************)
(* Types.  A step writes to queue[i] only inside an item, so the types     *)
(* need the loop index to be a row of the queue there.                     *)
(***************************************************************************)

Placed  == pc \in InItem => i \in DOMAIN queue
TypeInv == TypeOK /\ Placed

\* The items of the queue, and the one the run works on.
LEMMA RowType ==
  TypeInv => /\ \A k \in DOMAIN queue : queue[k] \in Entry
             /\ pc \in InItem => queue[i] \in Entry
BY DEF TypeInv, TypeOK, Placed

USE DEF Entry, Status, Final

\* The values a run, an item and the locks start from.
LEMMA StartValues ==
  /\ NewRun \in RunState /\ NewOp \in OpState /\ NoWord \in Words
  /\ Locked \in LockState /\ Unlocked \in LockState
  /\ \A b \in BOOLEAN : RemoteFree(b) \in LockState
<1>1. NewRun \in RunState
  <2>1. [s \in Final |-> 0] \in [Final -> Nat]
    OBVIOUS
  <2>2. QED
    BY <2>1 DEF NewRun, RunState
<1>2. NewOp \in OpState
  BY DEF NewOp, OpState, Outcome
<1>3. NoWord \in Words
  BY DEF NoWord, Words
<1>4. QED
  BY <1>1, <1>2, <1>3 DEF Locked, Unlocked, RemoteFree, LockState

\* The nodes a step writes.
LEMMA NodeFacts ==
  /\ {Absent, Dir, Link, Torn} \subseteq Node /\ Content \subseteq Node
  /\ Absent # Link /\ Dir # Link /\ Torn # Link /\ Link \notin Content
BY TreeAssumption DEF Node, Absent, Dir, Link, Torn

\* The program starts well typed.
LEMMA InitTypeInv == Init => TypeInv
<1> SUFFICES ASSUME Init PROVE TypeInv
  OBVIOUS
<1>1. running \in BOOLEAN /\ ref \in BOOLEAN
  BY Zenon DEF Init
<1>2. pc \in Control /\ i \in Nat \ {0}
  BY DEF Init, Control
<1>3. queue \in Seq(Entry) /\ frames \in Seq({"run", "browse"})
  <2>1. <<>> \in Seq(Entry) /\ <<>> \in Seq({"run", "browse"})
    OBVIOUS
  <2>2. QED
    BY <2>1 DEF Init
<1>4. local \in LocalTree /\ remote \in RemoteTree /\ envLeft \in Nat
  BY QueueAssumption DEF Init
<1>5. pc \notin InItem
  BY DEF Init, InItem, Yields, Modal
<1>6. QED
  BY <1>1, <1>2, <1>3, <1>4, <1>5, StartValues DEF Init, TypeInv, TypeOK, Placed

\* What setting a status and counting it leaves behind.
LEMMA MarkType ==
  ASSUME TypeInv, pc \in InItem, NEW s \in Status, Mark(s)
  PROVE  queue' \in Seq(Entry) /\ DOMAIN queue' = DOMAIN queue
BY MarkFacts DEF TypeInv, TypeOK, Placed, Mark

\* Ending an item keeps the queue, the counters and the result well typed.
LEMMA FinishType ==
  ASSUME TypeInv, pc \in InItem, NEW s \in Final, NEW o \in Outcome, Finish(s, o)
  PROVE  /\ queue' \in Seq(Entry) /\ DOMAIN queue' = DOMAIN queue
         /\ run' \in RunState /\ op' \in OpState /\ pc' = "marked"
<1>1. queue' \in Seq(Entry) /\ DOMAIN queue' = DOMAIN queue
  BY MarkType DEF Finish, Status
<1>2. /\ run.count[s] + 1 \in Nat
      /\ run' = [run EXCEPT !.count = [run.count EXCEPT ![s] = @ + 1]]
  BY DEF Finish, TypeInv, TypeOK, RunState
<1>3. run' \in RunState
  BY <1>2 DEF TypeInv, TypeOK, RunState
<1>4. op' \in OpState
  BY DEF Finish, TypeInv, TypeOK, OpState
<1>5. QED
  BY <1>1, <1>3, <1>4 DEF Finish

\* Every step keeps the types and the place of the loop index.
LEMMA NextTypeInv == TypeInv /\ [Next]_vars => TypeInv'
<1> SUFFICES ASSUME TypeInv, [Next]_vars PROVE TypeInv'
  OBVIOUS
<1> USE DEF TypeInv, TypeOK, Placed, Control, InItem, Yields, Modal
<1>1. ASSUME NEW job \in Jobs, QueueTransfer(job) \/ QueueRemoteDelete(job) PROVE TypeInv'
  BY <1>1, AddFacts DEF QueueTransfer, QueueRemoteDelete, Add
<1>2. ASSUME NEW job \in Jobs, QueueLocalDelete(job) PROVE TypeInv'
  BY <1>2, AddFacts DEF QueueLocalDelete, Add
<1>3. CASE ClearFinished
  BY <1>3, KeptType DEF ClearFinished
<1>4. ASSUME NEW rows \in SUBSET DOMAIN queue, RemoveSelected(rows) PROVE TypeInv'
  BY <1>4, KeptType DEF RemoveSelected
<1>5. ASSUME NEW rows \in SUBSET DOMAIN queue, RetrySelected(rows) PROVE TypeInv'
  <2>1. ASSUME NEW e \in Entry PROVE [e EXCEPT !.status = "Pending"] \in Entry
    OBVIOUS
  <2>2. \A k \in DOMAIN queue : queue'[k] \in Entry
    BY <1>5, <2>1, RowType DEF RetrySelected
  <2>3. DOMAIN queue' = 1..Len(queue) /\ Len(queue) \in Nat
    BY <1>5 DEF RetrySelected
  <2>4. queue' = [k \in 1..Len(queue) |-> queue'[k]]
    BY <1>5, <2>3 DEF RetrySelected
  <2>5. queue' \in Seq(Entry)
    BY <2>2, <2>3, <2>4
  <2>6. QED
    BY <1>5, <2>5 DEF RetrySelected
<1>6. CASE Browse
  <2>1. frames' \in Seq({"run", "browse"})
    BY <1>6 DEF Browse
  <2>2. QED
    BY <1>6, <2>1, StartValues DEF Browse
<1>7. CASE FinishRefresh
  <2>1. frames' \in Seq({"run", "browse"})
    BY <1>7 DEF FinishRefresh
  <2>2. QED
    BY <1>7, <2>1, StartValues DEF FinishRefresh
<1>8. CASE Start
  BY <1>8, StartValues DEF Start
<1>9. CASE PassOver
  BY <1>9 DEF PassOver, Going
<1>10. CASE Take
  <2>1. i \in DOMAIN queue /\ "Running" \in Status
    BY <1>10 DEF Take, Going
  <2>2. queue' \in Seq(Entry) /\ DOMAIN queue' = DOMAIN queue
    BY <1>10, <2>1, MarkFacts DEF Take, Mark
  <2>3. user' \in Words
    BY <1>10 DEF Take, Words
  <2>4. QED
    BY <1>10, <2>1, <2>2, <2>3 DEF Take
<1>11. CASE EndRun
  <2>1. frames' \in Seq({"run", "browse"})
    BY <1>11 DEF EndRun
  <2>2. running' \in BOOLEAN /\ ref' \in BOOLEAN
    BY <1>11, Zenon DEF EndRun
  <2>3. QED
    BY <1>11, <2>1, <2>2, StartValues DEF EndRun
<1>12. CASE FollowUp
  <2>1. locks' \in LockState
    BY <1>12, StartValues DEF FollowUp
  <2>2. QED
    BY <1>12, <2>1, StartValues DEF FollowUp
<1>13. ASSUME NEW yes \in BOOLEAN, AnswerContinue(yes) PROVE TypeInv'
  <2>1. run' \in RunState
    BY <1>13 DEF AnswerContinue, RunState
  <2>2. user' \in Words
    BY <1>13 DEF AnswerContinue, Words
  <2>3. QED
    BY <1>13, <2>1, <2>2 DEF AnswerContinue
<1>14. CASE CreateLocalDir
  <2>1. local' \in LocalTree
    BY <1>14, NodeFacts DEF CreateLocalDir, LocalTree, Mkpath
  <2>2. QED
    BY <1>14, <2>1, FinishType DEF CreateLocalDir, Outcome, At
<1>15. CASE CreateRemoteDir
  <2>1. remote' \in RemoteTree
    BY <1>15, NodeFacts DEF CreateRemoteDir, RemoteTree
  <2>2. QED
    BY <1>15, <2>1, FinishType DEF CreateRemoteDir, Outcome, At
<1>16. CASE AskDelete
  BY <1>16 DEF AskDelete, At
<1>17. CASE ConfirmDelete
  <2>1. user' \in Words
    BY <1>17 DEF ConfirmDelete, Words
  <2>2. QED
    BY <1>17, <2>1 DEF ConfirmDelete
<1>18. CASE RefuseDelete
  <2>1. queue' \in Seq(Entry) /\ DOMAIN queue' = DOMAIN queue
    BY <1>18, MarkType DEF RefuseDelete
  <2>2. run' \in RunState
    BY <1>18 DEF RefuseDelete, RunState
  <2>3. op' \in OpState
    BY <1>18 DEF RefuseDelete, OpState, Outcome
  <2>4. user' \in Words
    BY <1>18 DEF RefuseDelete, Words
  <2>5. QED
    BY <1>18, <2>1, <2>2, <2>3, <2>4 DEF RefuseDelete
<1>19. CASE DeleteLocal
  <2>1. local' \in LocalTree
    BY <1>19, NodeFacts DEF DeleteLocal, LocalTree
  <2>2. QED
    BY <1>19, <2>1, FinishType DEF DeleteLocal, Outcome, At
<1>20. CASE DeleteRemote
  <2>1. remote' \in RemoteTree
    BY <1>20, NodeFacts DEF DeleteRemote, RemoteTree
  <2>2. QED
    BY <1>20, <2>1, FinishType DEF DeleteRemote, Outcome, At
<1>21. CASE LoseItem
  <2>1. CASE pc = "transfer"
    <3>1. op' \in OpState
      BY <1>21, <2>1 DEF LoseItem, OpState, Outcome
    <3>2. QED
      BY <1>21, <2>1, <3>1 DEF LoseItem
  <2>2. CASE pc # "transfer"
    BY <1>21, <2>2, FinishType DEF LoseItem, Outcome
  <2>3. QED
    BY <2>1, <2>2
<1>22. CASE Crash
  BY <1>22 DEF Crash
<1>23. CASE CheckDownload
  <2>1. CASE \E s \in Final, o \in Outcome : Finish(s, o)
    BY <1>23, <2>1, FinishType DEF CheckDownload, At
  <2>2. CASE ~ \E s \in Final, o \in Outcome : Finish(s, o)
    <3>1. /\ pc' \in {"overwrite", "transfer"} /\ UNCHANGED <<queue, run>>
          /\ op' = [op EXCEPT !.saw = Exists(local, Cur.target)]
      BY <1>23, <2>2 DEF CheckDownload, Outcome
    <3>2. op' \in OpState
      BY <3>1 DEF OpState, Exists
    <3>3. QED
      BY <1>23, <3>1, <3>2 DEF CheckDownload, At
  <2>3. QED
    BY <2>1, <2>2
<1>24. CASE CheckUpload
  <2>1. CASE IsFile(Follow(local, Cur.source))
    <3>1. op' \in OpState
      <4>1. ("Upload" \in run.overwriteAll) \in BOOLEAN
        OBVIOUS
      <4>2. op' = [op EXCEPT !.allow = "Upload" \in run.overwriteAll,
                             !.retried = "Upload" \in run.overwriteAll]
        BY <1>24, <2>1 DEF CheckUpload
      <4>3. QED
        BY <4>1, <4>2 DEF OpState
    <3>2. QED
      BY <1>24, <2>1, <3>1 DEF CheckUpload, At
  <2>2. CASE ~IsFile(Follow(local, Cur.source))
    BY <1>24, <2>2, FinishType DEF CheckUpload, Outcome, At
  <2>3. QED
    BY <2>1, <2>2
<1>25. ASSUME NEW all \in BOOLEAN, AnswerOverwrite(all) PROVE TypeInv'
  <2>1. Cur.direction \in Direction /\ i \in Nat
    <3>1. queue[i] \in Entry
      BY <1>25, RowType DEF AnswerOverwrite
    <3>2. QED
      BY <3>1 DEF Cur
  <2>2. op' \in OpState
    BY <1>25 DEF AnswerOverwrite, Retrying, OpState
  <2>3. run' \in RunState
    BY <1>25, <2>1 DEF AnswerOverwrite, RunState
  <2>4. user' \in Words
    BY <1>25, <2>1 DEF AnswerOverwrite, Words
  <2>5. QED
    BY <1>25, <2>2, <2>3, <2>4 DEF AnswerOverwrite
<1>26. ASSUME NEW all \in BOOLEAN, AnswerSkip(all) PROVE TypeInv'
  <2>1. Cur.direction \in Direction
    <3>1. queue[i] \in Entry
      BY <1>26, RowType DEF AnswerSkip
    <3>2. QED
      BY <3>1 DEF Cur
  <2>2. queue' \in Seq(Entry) /\ DOMAIN queue' = DOMAIN queue
    BY <1>26, MarkType DEF AnswerSkip
  <2>3. run' \in RunState
    <3>1. run' = [run EXCEPT
                    !.skipAll = IF all THEN @ \cup {Cur.direction} ELSE @,
                    !.count = [run.count EXCEPT !["Skipped"] = @ + 1]]
      BY <1>26 DEF AnswerSkip, RunState
    <3>2. [run.count EXCEPT !["Skipped"] = @ + 1] \in [Final -> Nat]
      BY DEF RunState
    <3>3. QED
      BY <2>1, <3>1, <3>2 DEF RunState
  <2>4. op' \in OpState
    BY <1>26 DEF AnswerSkip, OpState, Outcome
  <2>5. QED
    BY <1>26, <2>2, <2>3, <2>4 DEF AnswerSkip
<1>27. CASE AnswerCancelQueue
  <2>1. queue' \in Seq(Entry) /\ DOMAIN queue' = DOMAIN queue
    BY <1>27, MarkType DEF AnswerCancelQueue
  <2>2. run' \in RunState
    <3>1. run' = [run EXCEPT !.stop = TRUE,
                    !.count = [run.count EXCEPT !["Cancelled"] = @ + 1]]
      BY <1>27 DEF AnswerCancelQueue, RunState
    <3>2. [run.count EXCEPT !["Cancelled"] = @ + 1] \in [Final -> Nat]
      BY DEF RunState
    <3>3. QED
      BY <3>1, <3>2 DEF RunState
  <2>3. op' \in OpState
    BY <1>27 DEF AnswerCancelQueue, OpState, Outcome
  <2>4. user' \in Words
    BY <1>27 DEF AnswerCancelQueue, Words
  <2>5. QED
    BY <1>27, <2>1, <2>2, <2>3, <2>4 DEF AnswerCancelQueue
<1>28. CASE StatTarget
  <2>1. op' \in OpState
    BY <1>28 DEF StatTarget, Return, OpState, Outcome
  <2>2. pc' \in {"closed", "probe"}
    BY <1>28 DEF StatTarget, Return
  <2>3. QED
    BY <1>28, <2>1, <2>2 DEF StatTarget, At
<1>29. CASE OpenUpload
  <2>1. op' \in OpState
    BY <1>29 DEF OpenUpload, Return, OpState, Outcome, IsFile
  <2>2. remote' \in RemoteTree
    BY <1>29, NodeFacts DEF OpenUpload, RemoteTree
  <2>3. QED
    BY <1>29, <2>1, <2>2 DEF OpenUpload, Return
<1>30. CASE EndUpload
  <2>1. op' \in OpState
    BY <1>30 DEF EndUpload, Return, OpState, Outcome
  <2>2. Read(op.data, Follow(local, Cur.source)) \subseteq Node \ {Link}
    BY NodeFacts DEF Read, OpState
  <2>3. remote' \in RemoteTree
    BY <1>30, <2>2 DEF EndUpload, RemoteTree
  <2>4. QED
    BY <1>30, <2>1, <2>3 DEF EndUpload, Return
<1>31. CASE OpenDownload
  <2>1. op' \in OpState
    BY <1>31 DEF OpenDownload, Return, OpState, Outcome, IsFile
  <2>2. QED
    BY <1>31, <2>1 DEF OpenDownload, Return, At
<1>32. CASE EndDownload
  <2>1. op' \in OpState
    BY <1>32 DEF EndDownload, Return, OpState, Outcome
  <2>2. Read(op.data, remote[Cur.source]) \subseteq Node
    BY NodeFacts DEF Read, OpState
  <2>3. local' \in LocalTree
    BY <1>32, <2>2 DEF EndDownload, LocalTree
  <2>4. QED
    BY <1>32, <2>1, <2>3 DEF EndDownload, Return
<1>33. CASE Settle
  BY <1>33, FinishType DEF Settle, Outcome
<1>34. CASE Environment
  <2>1. envLeft' \in Nat
    BY <1>34 DEF Environment
  <2>2. PICK node \in Foreign :
          \/ \E p \in LocalPath : local' = [local EXCEPT ![p] = node] /\ UNCHANGED remote
          \/ \E p \in RemotePath : remote' = [remote EXCEPT ![p] = node] /\ UNCHANGED local
    BY <1>34 DEF Environment
  <2>3. node \in Node \ {Link}
    BY QueueAssumption, NodeFacts
  <2>4. local' \in LocalTree /\ remote' \in RemoteTree
    BY <2>2, <2>3 DEF LocalTree, RemoteTree
  <2>5. QED
    BY <1>34, <2>1, <2>4 DEF Environment
<1>35. CASE UNCHANGED vars
  BY <1>35 DEF vars
<1>36. QED
  BY <1>1, <1>2, <1>3, <1>4, <1>5, <1>6, <1>7, <1>8, <1>9, <1>10, <1>11, <1>12,
     <1>13, <1>14, <1>15, <1>16, <1>17, <1>18, <1>19, <1>20, <1>21, <1>22,
     <1>23, <1>24, <1>25, <1>26, <1>27, <1>28, <1>29, <1>30, <1>31, <1>32,
     <1>33, <1>34, <1>35
  DEF Next, Click, Answer, Step

\* Every variable keeps its type; the inductive invariant adds that the loop
\* index names an item as long as startTransferQueue works on one.
THEOREM TypeCorrect == Spec => []TypeOK
<1>1. Init => TypeInv
  BY InitTypeInv
<1>2. TypeInv /\ [Next]_vars => TypeInv'
  BY NextTypeInv
<1>3. TypeInv => TypeOK
  BY DEF TypeInv
<1>4. QED
  BY <1>1, <1>2, <1>3, PTL DEF Spec

-----------------------------------------------------------------------------
(***************************************************************************)
(* Control.  What a point of startTransferQueue says about the item the    *)
(* run works on, the items behind it and the stop flag.                    *)
(***************************************************************************)

HIDE DEF Entry, Status, Final

\* The points at which the item at hand has not ended.
Working == InItem \ {"marked", "askContinue"}

\* A run is under way exactly while its call has not returned.
RunPoint == running <=> pc # "loop"

\* The item at hand is Running until it gets its final status.
AtWork == pc \in Working => queue[i].status = "Running"

\* Nothing goes on inside an item once the stop flag is set.
StopKnown ==
  /\ user.stop = run.stop
  /\ pc \in (InItem \ {"marked"}) \cup {"loop"} => ~run.stop
  /\ pc = "marked" /\ op.outcome = "cancelled" => ~run.stop

\* A run that is not to stop leaves nothing Pending behind it.
Behind ==
  running /\ ~run.stop =>
    \A k \in DOMAIN queue :
      k < i \/ (k = i /\ pc \in {"marked", "askContinue"}) =>
        queue[k].status # "Pending"

\* The inductive invariant: each part is needed to keep another.
ControlInv ==
  TypeInv /\ RunPoint /\ AtWork /\ OneRunning /\ StopKnown /\ Behind

\* The program starts outside any run.
LEMMA InitControlInv == Init => ControlInv
<1> SUFFICES ASSUME Init PROVE ControlInv
  OBVIOUS
<1>1. TypeInv
  BY InitTypeInv
<1>2. pc = "loop" /\ running = FALSE /\ DOMAIN queue = {}
  BY DEF Init
<1>3. user.stop = run.stop /\ ~run.stop
  BY DEF Init, NewRun, NoWord
<1>4. QED
  BY <1>1, <1>2, <1>3 DEF ControlInv, RunPoint, AtWork, OneRunning, StopKnown,
    Behind, Working, InItem, Yields, Modal

\* What Mark and Finish do to the queue and to the run's stop flag.
LEMMA MarkStep ==
  ASSUME queue \in Seq(Entry), i \in DOMAIN queue, NEW s \in Status, Mark(s)
  PROVE  /\ DOMAIN queue' = DOMAIN queue /\ i \in DOMAIN queue
         /\ queue'[i].status = s /\ queue'[i].direction = queue[i].direction
         /\ \A k \in DOMAIN queue : k # i => queue'[k] = queue[k]
BY MarkFacts DEF Mark

USE DEF Status, Final

\* What ending an item changes: one status, one counter, the control point.
LEMMA FinishStep ==
  ASSUME TypeInv, pc \in InItem, NEW s \in Final, NEW o \in Outcome, Finish(s, o)
  PROVE  /\ DOMAIN queue' = DOMAIN queue /\ i \in DOMAIN queue
         /\ queue'[i].status = s /\ queue'[i].direction = queue[i].direction
         /\ \A k \in DOMAIN queue : k # i => queue'[k] = queue[k]
         /\ run'.stop = run.stop /\ op'.outcome = o /\ pc' = "marked"
<1>1. run'.stop = run.stop /\ op'.outcome = o /\ pc' = "marked"
  BY DEF Finish, TypeInv, TypeOK, RunState, OpState
<1>2. queue \in Seq(Entry) /\ i \in DOMAIN queue
  BY DEF TypeInv, TypeOK, Placed
<1>3. QED
  BY <1>1, <1>2, MarkStep DEF Finish

\* A step that ends an item from a working point keeps the control invariant.
LEMMA FinishControl ==
  ASSUME ControlInv, TypeInv', pc \in Working, NEW s \in Final, NEW o \in Outcome,
         Finish(s, o), UNCHANGED <<running, i, user>>
  PROVE  ControlInv'
<1>1. pc \in InItem /\ pc # "loop"
  BY DEF Working, InItem, Yields, Modal
<1>2. /\ DOMAIN queue' = DOMAIN queue /\ i \in DOMAIN queue
      /\ queue'[i].status = s
      /\ \A k \in DOMAIN queue : k # i => queue'[k] = queue[k]
      /\ run'.stop = run.stop /\ op'.outcome = o /\ pc' = "marked"
  BY <1>1, FinishStep DEF ControlInv
<1>3. s # "Running" /\ s # "Pending"
  OBVIOUS
<1>4. RunPoint' /\ AtWork'
  BY <1>1, <1>2 DEF ControlInv, RunPoint, AtWork, Working
<1>5. OneRunning'
  BY <1>1, <1>2, <1>3 DEF ControlInv, OneRunning
<1>6. StopKnown'
  BY <1>1, <1>2 DEF ControlInv, StopKnown, Working
<1>7. Behind'
  BY <1>1, <1>2, <1>3 DEF ControlInv, Behind, Working
<1>8. QED
  BY <1>4, <1>5, <1>6, <1>7 DEF ControlInv

\* A step from one working point to another, or from any point of an item to
\* the end of the program, that leaves the queue and the run alone.
LEMMA QuietControl ==
  ASSUME ControlInv, TypeInv', pc \in InItem,
         (pc \in Working /\ pc' \in Working) \/ pc' = "crashed",
         UNCHANGED <<queue, running, i>>, run'.stop = run.stop,
         user'.stop = user.stop
  PROVE  ControlInv'
BY DEF ControlInv, RunPoint, AtWork, OneRunning, StopKnown, Behind, Working,
  InItem, Yields, Modal

\* A step that leaves the run alone.
LEMMA OutsideControl ==
  ASSUME ControlInv, TypeInv', UNCHANGED <<queue, running, pc, i, run, op, user>>
  PROVE  ControlInv'
BY DEF ControlInv, RunPoint, AtWork, OneRunning, StopKnown, Behind

\* Editing the queue at the event loop, where no item is Running.
LEMMA EditControl ==
  ASSUME ControlInv, TypeInv', pc = "loop",
         UNCHANGED <<running, pc, i, run, op, user>>,
         \A k \in DOMAIN queue' : queue'[k].status # "Running"
  PROVE  ControlInv'
BY DEF ControlInv, RunPoint, AtWork, OneRunning, StopKnown, Behind, Working,
  InItem, Yields, Modal

\* An item joins, at the event loop or inside a run.
LEMMA AddControl ==
  ASSUME ControlInv, TypeInv', NEW job \in Jobs, Add(job),
         pc \in InItem \cup {"loop"},
         UNCHANGED <<running, pc, i, run, op, user>>
  PROVE  ControlInv'
<1>1. queue \in Seq(Entry) /\ i \in Nat /\ Len(queue) \in Nat
  BY DEF ControlInv, TypeInv, TypeOK
<1>2. /\ queue'[Len(queue) + 1].status = "Pending"
      /\ DOMAIN queue = 1..Len(queue) /\ DOMAIN queue' = 1..(Len(queue) + 1)
      /\ \A k \in DOMAIN queue : queue'[k] = queue[k]
  BY <1>1, AddFacts DEF Add
<1>3. pc \in InItem => i \in 1..Len(queue)
  BY <1>2 DEF ControlInv, TypeInv, Placed
<1>4. RunPoint' /\ StopKnown' /\ AtWork'
  BY <1>2, <1>3 DEF ControlInv, RunPoint, AtWork, StopKnown, Working
<1>5. OneRunning'
  <2>1. ASSUME NEW k \in DOMAIN queue', queue'[k].status = "Running"
        PROVE  k \in DOMAIN queue /\ queue[k].status = "Running"
    BY <1>1, <1>2, <2>1
  <2>2. QED
    BY <2>1 DEF ControlInv, OneRunning
<1>6. Behind'
  <2>1. CASE pc = "loop"
    BY <2>1 DEF ControlInv, RunPoint, Behind
  <2>2. CASE pc \in InItem
    <3>1. ASSUME NEW k \in DOMAIN queue', k <= i
          PROVE  k \in DOMAIN queue /\ queue'[k] = queue[k]
      BY <1>1, <1>2, <1>3, <2>2, <3>1
    <3>2. QED
      BY <1>1, <1>2, <3>1 DEF ControlInv, Behind
  <2>3. QED
    BY <2>1, <2>2
<1>7. QED
  BY <1>4, <1>5, <1>6 DEF ControlInv

\* Every step keeps the control invariant.
LEMMA NextControlInv == ControlInv /\ [Next]_vars => ControlInv'
<1> SUFFICES ASSUME ControlInv, [Next]_vars PROVE ControlInv'
  OBVIOUS
<1>0. TypeInv /\ TypeInv'
  BY NextTypeInv DEF ControlInv
<1> USE DEF Working, InItem, Yields, Modal, Outcome
<1>1. ASSUME NEW job \in Jobs, QueueTransfer(job) \/ QueueRemoteDelete(job) PROVE ControlInv'
  BY <1>0, <1>1, AddControl DEF QueueTransfer, QueueRemoteDelete
<1>2. ASSUME NEW job \in Jobs, QueueLocalDelete(job) PROVE ControlInv'
  BY <1>0, <1>2, AddControl DEF QueueLocalDelete
<1>3. CASE ClearFinished
  <2>1. \A k \in DOMAIN queue' : \E m \in DOMAIN queue : queue'[k] = queue[m]
    BY <1>3 DEF ClearFinished, Kept
  <2>2. QED
    BY <1>0, <1>3, <2>1, EditControl DEF ClearFinished, ControlInv, OneRunning
<1>4. ASSUME NEW rows \in SUBSET DOMAIN queue, RemoveSelected(rows) PROVE ControlInv'
  <2>1. \A k \in DOMAIN queue' : \E m \in DOMAIN queue : queue'[k] = queue[m]
    BY <1>4 DEF RemoveSelected, Kept
  <2>2. QED
    BY <1>0, <1>4, <2>1, EditControl DEF RemoveSelected, ControlInv, OneRunning
<1>5. ASSUME NEW rows \in SUBSET DOMAIN queue, RetrySelected(rows) PROVE ControlInv'
  <2>1. ASSUME NEW k \in DOMAIN queue' PROVE queue'[k].status # "Running"
    <3>1. k \in DOMAIN queue /\ queue[k] \in Entry /\ queue[k].status # "Running"
      BY <1>0, <1>5, <2>1, RowType DEF RetrySelected, ControlInv, OneRunning
    <3>2. [queue[k] EXCEPT !.status = "Pending"].status = "Pending"
      BY <3>1 DEF Entry
    <3>3. QED
      BY <1>5, <3>1, <3>2 DEF RetrySelected
  <2>2. QED
    BY <1>0, <1>5, <2>1, EditControl DEF RetrySelected
<1>6. CASE Browse \/ FinishRefresh \/ Environment \/ UNCHANGED vars
  BY <1>0, <1>6, OutsideControl DEF Browse, FinishRefresh, Environment, vars
<1>7. CASE Start
  BY <1>0, <1>7 DEF Start, NewRun, NoWord, ControlInv, RunPoint, AtWork, OneRunning,
    StopKnown, Behind, TypeInv, TypeOK
<1>8. CASE PassOver
  BY <1>0, <1>8 DEF PassOver, Going, ControlInv, RunPoint, AtWork, OneRunning,
    StopKnown, Behind, TypeInv, TypeOK
<1>9. CASE Take
  <2>1. i \in DOMAIN queue /\ queue \in Seq(Entry) /\ i \in Nat
    BY <1>0, <1>9 DEF Take, Going, TypeInv, TypeOK
  <2>2. Mark("Running") /\ "Running" \in Status
    BY <1>9 DEF Take
  <2>3. /\ DOMAIN queue' = DOMAIN queue /\ queue'[i].status = "Running"
        /\ \A k \in DOMAIN queue : k # i => queue'[k] = queue[k]
    BY <2>1, <2>2, MarkStep
  <2>4. user'.stop = user.stop
    BY <1>0, <1>9 DEF Take, TypeInv, TypeOK, Words
  <2>5. pc = "next" /\ pc' = "took" /\ ~run.stop /\ UNCHANGED <<running, i, run, op>>
    BY <1>9 DEF Take, Going
  <2>6. RunPoint' /\ AtWork' /\ StopKnown'
    BY <2>3, <2>4, <2>5 DEF ControlInv, RunPoint, AtWork, StopKnown
  <2>7. OneRunning'
    BY <2>3, <2>5 DEF ControlInv, OneRunning, RunPoint
  <2>8. Behind'
    BY <2>1, <2>3, <2>5 DEF ControlInv, Behind
  <2>9. QED
    BY <1>0, <2>6, <2>7, <2>8 DEF ControlInv
<1>10. CASE EndRun
  <2>1. \A k \in DOMAIN queue : queue[k].status # "Running"
    BY <1>10 DEF EndRun, ControlInv, OneRunning
  <2>2. QED
    BY <1>0, <1>10, <2>1 DEF EndRun, NewRun, NoWord, ControlInv, RunPoint, AtWork,
      OneRunning, StopKnown, Behind
<1>11. CASE FollowUp
  <2>1. i \in Nat /\ DOMAIN queue \subseteq Nat
    BY <1>0 DEF TypeInv, TypeOK
  <2>2. pc = "marked" /\ UNCHANGED <<queue, running, run, user>>
        /\ \/ op.outcome = "cancelled" /\ pc' = "askContinue" /\ i' = i
           \/ op.outcome # "cancelled" /\ pc' = "next" /\ i' = i + 1
    BY <1>11 DEF FollowUp
  <2>3. \A k \in DOMAIN queue : queue[k].status # "Running"
    BY <2>2 DEF ControlInv, OneRunning
  <2>4. RunPoint' /\ AtWork' /\ StopKnown' /\ OneRunning'
    BY <2>2, <2>3 DEF ControlInv, RunPoint, AtWork, StopKnown, OneRunning
  <2>5. Behind'
    BY <2>1, <2>2 DEF ControlInv, Behind
  <2>6. QED
    BY <1>0, <2>4, <2>5 DEF ControlInv
<1>12. ASSUME NEW yes \in BOOLEAN, AnswerContinue(yes) PROVE ControlInv'
  <2>1. i \in Nat /\ DOMAIN queue \subseteq Nat
    BY <1>0 DEF TypeInv, TypeOK
  <2>2. /\ pc = "askContinue" /\ pc' = "next" /\ i' = i + 1
        /\ UNCHANGED <<queue, running, op>>
        /\ run'.stop = ~yes /\ user'.stop = ~yes
    BY <1>0, <1>12 DEF AnswerContinue, TypeInv, TypeOK, RunState, Words
  <2>3. \A k \in DOMAIN queue : queue[k].status # "Running"
    BY <2>2 DEF ControlInv, OneRunning
  <2>4. RunPoint' /\ AtWork' /\ StopKnown' /\ OneRunning'
    BY <2>2, <2>3 DEF ControlInv, RunPoint, AtWork, StopKnown, OneRunning
  <2>5. ~run.stop
    BY <2>2 DEF ControlInv, StopKnown
  <2>6. Behind'
    BY <2>1, <2>2, <2>5 DEF ControlInv, Behind
  <2>7. QED
    BY <1>0, <2>4, <2>6 DEF ControlInv
<1>13. CASE CreateLocalDir \/ CreateRemoteDir \/ DeleteLocal \/ DeleteRemote
  BY <1>0, <1>13, FinishControl
    DEF CreateLocalDir, CreateRemoteDir, DeleteLocal, DeleteRemote, At
<1>14. CASE AskDelete \/ Crash
  BY <1>0, <1>14, QuietControl DEF AskDelete, Crash, At
<1>15. CASE ConfirmDelete
  <2>1. user'.stop = user.stop
    BY <1>0, <1>15 DEF ConfirmDelete, TypeInv, TypeOK, Words
  <2>2. QED
    BY <1>0, <1>15, <2>1, QuietControl DEF ConfirmDelete
<1>16. CASE RefuseDelete
  <2>1. /\ pc = "confirm" /\ pc' = "marked" /\ UNCHANGED <<running, i>>
        /\ run'.stop /\ user'.stop /\ run'.stop = user'.stop
        /\ op'.outcome # "cancelled"
    BY <1>0, <1>16 DEF RefuseDelete, TypeInv, TypeOK, RunState, OpState, Words
  <2>2. /\ DOMAIN queue' = DOMAIN queue /\ queue'[i].status = "Pending"
        /\ \A k \in DOMAIN queue : k # i => queue'[k] = queue[k]
    BY <1>0, <1>16, MarkStep DEF RefuseDelete, TypeInv, TypeOK, Placed
  <2>3. RunPoint' /\ AtWork' /\ StopKnown' /\ Behind'
    BY <2>1 DEF ControlInv, RunPoint, AtWork, StopKnown, Behind
  <2>4. OneRunning'
    BY <2>1, <2>2 DEF ControlInv, OneRunning
  <2>5. QED
    BY <1>0, <2>3, <2>4 DEF ControlInv
<1>17. CASE LoseItem
  <2>1. CASE pc = "transfer"
    BY <1>0, <1>17, <2>1, QuietControl DEF LoseItem
  <2>2. CASE pc # "transfer"
    BY <1>0, <1>17, <2>2, FinishControl DEF LoseItem
  <2>3. QED
    BY <2>1, <2>2
<1>18. CASE CheckDownload
  <2>1. CASE \E s \in Final, o \in Outcome : Finish(s, o)
    BY <1>0, <1>18, <2>1, FinishControl DEF CheckDownload, At
  <2>2. CASE ~ \E s \in Final, o \in Outcome : Finish(s, o)
    <3>1. pc' \in {"overwrite", "transfer"} /\ UNCHANGED <<queue, run>>
      BY <1>18, <2>2 DEF CheckDownload
    <3>2. QED
      BY <1>0, <1>18, <3>1, QuietControl DEF CheckDownload, At
  <2>3. QED
    BY <2>1, <2>2
<1>19. CASE CheckUpload
  <2>1. CASE IsFile(Follow(local, Cur.source))
    BY <1>0, <1>19, <2>1, QuietControl DEF CheckUpload, At
  <2>2. CASE ~IsFile(Follow(local, Cur.source))
    BY <1>0, <1>19, <2>2, FinishControl DEF CheckUpload, At
  <2>3. QED
    BY <2>1, <2>2
<1>20. ASSUME NEW all \in BOOLEAN, AnswerOverwrite(all) PROVE ControlInv'
  <2>1. run'.stop = run.stop /\ user'.stop = user.stop
    BY <1>0, <1>20 DEF AnswerOverwrite, TypeInv, TypeOK, RunState, Words
  <2>2. QED
    BY <1>0, <1>20, <2>1, QuietControl DEF AnswerOverwrite
<1>21. ASSUME NEW all \in BOOLEAN, AnswerSkip(all) PROVE ControlInv'
  <2>1. /\ pc = "overwrite" /\ pc' = "marked" /\ UNCHANGED <<running, i, user>>
        /\ run'.stop = run.stop /\ op'.outcome = "stopped"
    BY <1>0, <1>21 DEF AnswerSkip, TypeInv, TypeOK, RunState, OpState
  <2>2. /\ DOMAIN queue' = DOMAIN queue /\ queue'[i].status = "Skipped"
        /\ \A k \in DOMAIN queue : k # i => queue'[k] = queue[k]
    BY <1>0, <1>21, MarkStep DEF AnswerSkip, TypeInv, TypeOK, Placed
  <2>3. RunPoint' /\ AtWork' /\ StopKnown'
    BY <2>1 DEF ControlInv, RunPoint, AtWork, StopKnown
  <2>4. OneRunning'
    BY <2>1, <2>2 DEF ControlInv, OneRunning
  <2>5. Behind'
    BY <2>1, <2>2 DEF ControlInv, Behind
  <2>6. QED
    BY <1>0, <2>3, <2>4, <2>5 DEF ControlInv
<1>22. CASE AnswerCancelQueue
  <2>1. /\ pc = "overwrite" /\ pc' = "marked" /\ UNCHANGED <<running, i>>
        /\ run'.stop /\ user'.stop /\ run'.stop = user'.stop
        /\ op'.outcome # "cancelled"
    BY <1>0, <1>22 DEF AnswerCancelQueue, TypeInv, TypeOK, RunState, OpState, Words
  <2>2. /\ DOMAIN queue' = DOMAIN queue /\ queue'[i].status = "Cancelled"
        /\ \A k \in DOMAIN queue : k # i => queue'[k] = queue[k]
    BY <1>0, <1>22, MarkStep DEF AnswerCancelQueue, TypeInv, TypeOK, Placed
  <2>3. RunPoint' /\ AtWork' /\ StopKnown' /\ Behind'
    BY <2>1 DEF ControlInv, RunPoint, AtWork, StopKnown, Behind
  <2>4. OneRunning'
    BY <2>1, <2>2 DEF ControlInv, OneRunning
  <2>5. QED
    BY <1>0, <2>3, <2>4 DEF ControlInv
<1>23. CASE StatTarget
  BY <1>0, <1>23, QuietControl DEF StatTarget, Return, At
<1>24. CASE OpenUpload
  BY <1>0, <1>24, QuietControl DEF OpenUpload, Return
<1>25. CASE EndUpload
  BY <1>0, <1>25, QuietControl DEF EndUpload, Return
<1>26. CASE OpenDownload
  BY <1>0, <1>26, QuietControl DEF OpenDownload, Return, At
<1>27. CASE EndDownload
  BY <1>0, <1>27, QuietControl DEF EndDownload, Return
<1>28. CASE Settle
  <2>1. CASE \E s \in Final, o \in Outcome : Finish(s, o)
    BY <1>0, <1>28, <2>1, FinishControl DEF Settle
  <2>2. CASE ~ \E s \in Final, o \in Outcome : Finish(s, o)
    <3>1. pc' = "overwrite" /\ UNCHANGED <<queue, run>>
      BY <1>28, <2>2 DEF Settle
    <3>2. QED
      BY <1>0, <1>28, <3>1, QuietControl DEF Settle
  <2>3. QED
    BY <2>1, <2>2
<1>29. QED
  BY <1>1, <1>2, <1>3, <1>4, <1>5, <1>6, <1>7, <1>8, <1>9, <1>10, <1>11, <1>12,
     <1>13, <1>14, <1>15, <1>16, <1>17, <1>18, <1>19, <1>20, <1>21, <1>22,
     <1>23, <1>24, <1>25, <1>26, <1>27, <1>28
  DEF Next, Click, Answer, Step

\* At most one item is Running, only while the run works on it, whatever exit
\* it leaves by.
THEOREM OneAtATime == Spec => []OneRunning
<1>1. Init => ControlInv
  BY InitControlInv
<1>2. ControlInv /\ [Next]_vars => ControlInv'
  BY NextControlInv
<1>3. ControlInv => OneRunning
  BY DEF ControlInv
<1>4. QED
  BY <1>1, <1>2, <1>3, PTL DEF Spec

=============================================================================
