------------------------ MODULE TransferQueueRefines ------------------------
(***************************************************************************)
(* The transfer queue keeps the promise of QueueLifecycle: every step of   *)
(* TransferQueue is one of QueueLifecycle's or changes nothing it sees.    *)
(***************************************************************************)
EXTENDS TransferQueueProofs

Statuses == [k \in DOMAIN queue |-> queue[k].status]

USE DEF Status, Final

\* The empty queue is the empty list of statuses.
LEMMA InitPromise == Init => Promise!Init
<1> SUFFICES ASSUME Init PROVE Promise!Init
  OBVIOUS
<1>1. Statuses = <<>>
  BY DEF Init, Statuses
<1>2. running = FALSE /\ user.stop = FALSE
  BY DEF Init, NoWord
<1>3. QED
  BY <1>1, <1>2, Zenon DEF Promise!Init, Statuses

\* Steps that neither the items' statuses nor the run show.
LEMMA Hidden ==
  ASSUME UNCHANGED <<queue, running>>, user'.stop = user.stop
  PROVE  UNCHANGED Promise!lvars
BY DEF Promise!lvars

\* Queueing an item is the promise's Add.
LEMMA AddPromise ==
  ASSUME ControlInv, NEW job \in Jobs, Add(job), UNCHANGED <<running, user>>
  PROVE  Promise!Next
<1>1. queue \in Seq(Entry) /\ queue' = Append(queue, Item(job))
  BY DEF ControlInv, TypeInv, TypeOK, Add
<1>2. /\ queue' \in Seq(Entry) /\ Len(queue) \in Nat
      /\ queue'[Len(queue) + 1].status = "Pending"
      /\ DOMAIN queue = 1..Len(queue) /\ DOMAIN queue' = 1..(Len(queue) + 1)
      /\ \A k \in DOMAIN queue : queue'[k] = queue[k]
  BY <1>1, AddFacts
<1>3. Statuses \in Seq(Status) /\ Len(Statuses) = Len(queue)
  <2>1. \A k \in 1..Len(queue) : queue[k].status \in Status
    <3>1. \A k \in 1..Len(queue) : queue[k] \in Entry
      BY <1>1, <1>2
    <3>2. QED
      BY <3>1 DEF Entry
  <2>2. QED
    BY <1>2, <2>1 DEF Statuses
<1>4. Statuses' = Append(Statuses, "Pending")
  <2>1. DOMAIN Append(Statuses, "Pending") = 1..(Len(queue) + 1)
    BY <1>3
  <2>2. \A k \in 1..(Len(queue) + 1) :
          Append(Statuses, "Pending")[k] = queue'[k].status
    BY <1>2, <1>3 DEF Statuses
  <2>3. QED
    BY <1>2, <1>3, <2>1, <2>2 DEF Statuses
<1>5. Promise!Add
  BY <1>4 DEF Promise!Add, Statuses
<1>6. QED
  BY <1>5 DEF Promise!Next

\* Clear finished and Remove selected drop statuses.
LEMMA DropPromise ==
  ASSUME ControlInv, NEW keep \in SUBSET DOMAIN queue, Kept(queue, keep, queue'),
         ~running, UNCHANGED <<running, user>>
  PROVE  Promise!Next
<1>1. PICK n \in 0..Len(queue) : \E f \in [1..n -> keep] :
        /\ \A k \in keep : \E m \in 1..n : f[m] = k
        /\ \A m \in 1..n-1 : f[m] < f[m+1]
        /\ queue' = [m \in 1..n |-> queue[f[m]]]
  BY DEF Kept
<1>2. PICK f \in [1..n -> keep] :
        /\ \A k \in keep : \E m \in 1..n : f[m] = k
        /\ \A m \in 1..n-1 : f[m] < f[m+1]
        /\ queue' = [m \in 1..n |-> queue[f[m]]]
  BY <1>1
<1>3. Promise!Kept(Statuses, keep, Statuses')
  <2>1. n \in 0..Len(Statuses)
    BY DEF Statuses, ControlInv, TypeInv, TypeOK
  <2>2. Statuses' = [m \in 1..n |-> Statuses[f[m]]]
    BY <1>2 DEF Statuses
  <2>3. \E g \in [1..n -> keep] :
          /\ \A k \in keep : \E m \in 1..n : g[m] = k
          /\ \A m \in 1..n-1 : g[m] < g[m+1]
          /\ Statuses' = [m \in 1..n |-> Statuses[g[m]]]
    BY <1>2, <2>2
  <2>4. QED
    BY <2>1, <2>3 DEF Promise!Kept
<1>4. keep \in SUBSET DOMAIN Statuses
  BY DEF Statuses
<1>5. Promise!Drop(keep)
  BY <1>3 DEF Promise!Drop, Statuses
<1>6. QED
  BY <1>4, <1>5 DEF Promise!Next, Statuses

\* Retry selected puts final statuses back to Pending.
LEMMA RetryPromise ==
  ASSUME ControlInv, NEW rows \in SUBSET DOMAIN queue, RetrySelected(rows)
  PROVE  Promise!Next
<1>1. /\ ~running /\ UNCHANGED <<running, user>> /\ DOMAIN queue' = DOMAIN queue
      /\ queue' = [k \in DOMAIN queue |->
                     IF k \in rows /\ queue[k].status \in Final
                       THEN [queue[k] EXCEPT !.status = "Pending"]
                       ELSE queue[k]]
  BY DEF RetrySelected
<1>2. ASSUME NEW k \in DOMAIN queue
      PROVE  [queue[k] EXCEPT !.status = "Pending"].status = "Pending"
  <2>1. queue[k] \in Entry
    BY RowType DEF ControlInv
  <2>2. QED
    BY <2>1 DEF Entry
<1>3. Statuses' = [k \in DOMAIN Statuses |->
                     IF k \in rows /\ Statuses[k] \in Final
                       THEN "Pending" ELSE Statuses[k]]
  BY <1>1, <1>2 DEF Statuses
<1>4. Promise!Retry(rows)
  BY <1>1, <1>3 DEF Promise!Retry, Promise!Final, Statuses
<1>5. QED
  BY <1>4 DEF Promise!Next

\* A step on one item of the list.
LEMMA ItemPromise ==
  ASSUME NEW k \in DOMAIN queue, Promise!Take(k) \/ Promise!PutBack(k)
  PROVE  Promise!Next
BY DEF Promise!Next

\* The item at hand ends with a final status.
LEMMA ConcludePromise ==
  ASSUME ControlInv, pc \in Working, NEW s \in Final, Mark(s), UNCHANGED running,
         user'.stop \in BOOLEAN
  PROVE  Promise!Next
<1>1. /\ queue \in Seq(Entry) /\ i \in DOMAIN queue /\ running /\ ~user.stop
      /\ queue[i].status = "Running"
  BY DEF ControlInv, TypeInv, TypeOK, Placed, RunPoint, AtWork, StopKnown, Working,
    InItem, Yields, Modal
<1>2. /\ DOMAIN queue' = DOMAIN queue /\ queue'[i].status = s
      /\ \A k \in DOMAIN queue : k # i => queue'[k] = queue[k]
  BY <1>1, MarkStep
<1>3. Statuses' = [Statuses EXCEPT ![i] = s]
  BY <1>1, <1>2 DEF Statuses
<1>4. Promise!Conclude(i, s)
  BY <1>1, <1>3 DEF Promise!Conclude, Statuses
<1>5. QED
  BY <1>1, <1>4 DEF Promise!Next, Promise!Final

\* An item that ends and leaves the stop flag alone.
LEMMA FinishPromise ==
  ASSUME ControlInv, pc \in Working, NEW s \in Final, NEW o \in Outcome,
         Finish(s, o), UNCHANGED <<running, user>>
  PROVE  Promise!Next
<1>1. user'.stop \in BOOLEAN
  BY DEF ControlInv, TypeInv, TypeOK, Words
<1>2. QED
  BY <1>1, ConcludePromise DEF Finish

\* Every step of the queue is a step of the promise or none of it.
LEMMA StepPromise == ControlInv /\ [Next]_vars => [Promise!Next]_(Promise!lvars)
<1> SUFFICES ASSUME ControlInv, [Next]_vars
             PROVE  Promise!Next \/ UNCHANGED Promise!lvars
  OBVIOUS
<1>0. TypeInv /\ TypeInv'
  BY NextTypeInv DEF ControlInv
<1> DEFINE Matched == Promise!Next \/ UNCHANGED Promise!lvars
<1> USE DEF Working, InItem, Yields, Modal, Outcome
<1>1. ASSUME NEW job \in Jobs,
             QueueTransfer(job) \/ QueueRemoteDelete(job) \/ QueueLocalDelete(job)
      PROVE  Matched
  BY <1>1, AddPromise DEF QueueTransfer, QueueRemoteDelete, QueueLocalDelete
<1>2. CASE ClearFinished
  BY <1>2, DropPromise DEF ClearFinished
<1>3. ASSUME NEW rows \in SUBSET DOMAIN queue, RemoveSelected(rows) \/ RetrySelected(rows)
      PROVE  Matched
  BY <1>3, DropPromise, RetryPromise DEF RemoveSelected
<1>4. CASE \/ Browse \/ FinishRefresh \/ Environment \/ PassOver \/ FollowUp
           \/ AskDelete \/ Crash \/ StatTarget \/ OpenUpload \/ EndUpload
           \/ OpenDownload \/ EndDownload \/ UNCHANGED vars
  BY <1>4, Hidden DEF Browse, FinishRefresh, Environment, PassOver, FollowUp, AskDelete,
    Crash, StatTarget, OpenUpload, EndUpload, OpenDownload, EndDownload, vars
<1>5. CASE Start
  <2>1. PICK k \in DOMAIN queue : queue[k].status = "Pending"
    BY <1>5 DEF Start, AnyPending
  <2>2. ~Promise!NonePending
    BY <2>1 DEF Promise!NonePending
  <2>3. user.stop = FALSE /\ user'.stop = FALSE
    <3>1. user.stop \in BOOLEAN
      BY <1>0 DEF TypeInv, TypeOK, Words
    <3>2. QED
      BY <1>5, <3>1 DEF Start, NoWord, ControlInv, StopKnown
  <2>4. ~running /\ running' = TRUE /\ UNCHANGED queue
    BY <1>5 DEF Start
  <2>5. Promise!Begin
    BY <2>2, <2>3, <2>4, Zenon DEF Promise!Begin
  <2>6. QED
    BY <2>5 DEF Promise!Next
<1>6. CASE Take
  <2>1. /\ pc = "next" /\ i \in DOMAIN queue /\ ~run.stop
        /\ queue[i].status = "Pending" /\ UNCHANGED running
    BY <1>6 DEF Take, Going
  <2>2. /\ DOMAIN queue' = DOMAIN queue /\ queue'[i].status = "Running"
        /\ \A k \in DOMAIN queue : k # i => queue'[k] = queue[k]
    <3>1. queue \in Seq(Entry) /\ Mark("Running") /\ "Running" \in Status
      BY <1>0, <1>6 DEF Take, TypeInv, TypeOK
    <3>2. QED
      BY <2>1, <3>1, MarkStep
  <2>3. running /\ ~user.stop /\ user'.stop = user.stop
    BY <1>0, <1>6, <2>1 DEF Take, ControlInv, RunPoint, StopKnown, TypeInv, TypeOK, Words
  <2>4. Promise!NoneRunning
    BY <2>1 DEF Promise!NoneRunning, ControlInv, OneRunning
  <2>5. \A j \in 1..i-1 : j \in DOMAIN queue /\ queue[j].status # "Pending"
    BY <1>0, <2>1, <2>3 DEF ControlInv, Behind, TypeInv, TypeOK
  <2>6. Statuses' = [Statuses EXCEPT ![i] = "Running"]
    BY <2>2 DEF Statuses
  <2>7. PICK k \in DOMAIN queue : k = i
    BY <2>1
  <2>8. Promise!Take(k)
    BY <2>1, <2>3, <2>4, <2>5, <2>6, <2>7 DEF Promise!Take, Statuses
  <2>9. QED
    BY <2>8, ItemPromise
<1>7. CASE EndRun
  <2>1. running /\ running' = FALSE /\ user'.stop = FALSE /\ UNCHANGED queue
    BY <1>7 DEF EndRun, ControlInv, RunPoint, NoWord
  <2>2. Promise!NoneRunning
    BY <1>7 DEF EndRun, Promise!NoneRunning, ControlInv, OneRunning
  <2>3. user.stop \/ Promise!NonePending
    <3>1. CASE run.stop
      BY <3>1 DEF ControlInv, StopKnown
    <3>2. CASE i \notin DOMAIN queue /\ ~run.stop
      <4>1. \A k \in DOMAIN queue : k < i
        BY <1>0, <3>2 DEF TypeInv, TypeOK
      <4>2. QED
        BY <2>1, <3>2, <4>1 DEF Promise!NonePending, ControlInv, Behind
    <3>3. QED
      BY <1>7, <3>1, <3>2 DEF EndRun, Going
  <2>4. Promise!Over
    BY <2>1, <2>2, <2>3, Zenon DEF Promise!Over
  <2>5. QED
    BY <2>4 DEF Promise!Next
<1>8. ASSUME NEW yes \in BOOLEAN, AnswerContinue(yes) PROVE Matched
  <2>1. UNCHANGED <<queue, running>> /\ running /\ ~user.stop /\ user'.stop = ~yes
    BY <1>0, <1>8 DEF AnswerContinue, ControlInv, RunPoint, StopKnown, TypeInv, TypeOK,
      Words
  <2>2. Promise!NoneRunning
    BY <1>8 DEF AnswerContinue, Promise!NoneRunning, ControlInv, OneRunning
  <2>3. CASE yes
    <3>1. user.stop \in BOOLEAN
      BY <1>0 DEF TypeInv, TypeOK, Words
    <3>2. QED
      BY <2>1, <2>3, <3>1, Hidden
  <2>4. CASE ~yes
    <3>1. user'.stop = TRUE
      BY <2>1, <2>4
    <3>2. Promise!Stop
      BY <2>1, <2>2, <3>1, Zenon DEF Promise!Stop
    <3>3. QED
      BY <3>2 DEF Promise!Next
  <2>5. QED
    BY <2>3, <2>4
<1>9. CASE CreateLocalDir \/ CreateRemoteDir \/ DeleteLocal \/ DeleteRemote
  BY <1>9, FinishPromise
    DEF CreateLocalDir, CreateRemoteDir, DeleteLocal, DeleteRemote, At
<1>10. CASE ConfirmDelete
  <2>1. user'.stop = user.stop
    BY <1>0, <1>10 DEF ConfirmDelete, TypeInv, TypeOK, Words
  <2>2. QED
    BY <1>10, <2>1, Hidden DEF ConfirmDelete
<1>11. CASE RefuseDelete
  <2>1. /\ pc = "confirm" /\ UNCHANGED running /\ i \in DOMAIN queue
        /\ user'.stop = TRUE
    BY <1>0, <1>11 DEF RefuseDelete, TypeInv, TypeOK, Placed, Words
  <2>2. running /\ ~user.stop /\ queue[i].status = "Running"
    BY <2>1 DEF ControlInv, RunPoint, StopKnown, AtWork
  <2>3. /\ DOMAIN queue' = DOMAIN queue /\ queue'[i].status = "Pending"
        /\ \A k \in DOMAIN queue : k # i => queue'[k] = queue[k]
    <3>1. queue \in Seq(Entry) /\ Mark("Pending") /\ "Pending" \in Status
      BY <1>0, <1>11 DEF RefuseDelete, TypeInv, TypeOK
    <3>2. QED
      BY <2>1, <3>1, MarkStep
  <2>4. Statuses' = [Statuses EXCEPT ![i] = "Pending"]
    BY <2>3 DEF Statuses
  <2>5. PICK k \in DOMAIN queue : k = i
    BY <2>1
  <2>6. Promise!PutBack(k)
    BY <2>1, <2>2, <2>4, <2>5 DEF Promise!PutBack, Statuses
  <2>7. QED
    BY <2>6, ItemPromise
<1>12. CASE LoseItem \/ CheckDownload \/ CheckUpload \/ Settle
  <2>1. CASE \E s \in Final, o \in Outcome : Finish(s, o)
    BY <1>12, <2>1, FinishPromise DEF LoseItem, CheckDownload, CheckUpload, Settle, At
  <2>2. CASE ~ \E s \in Final, o \in Outcome : Finish(s, o)
    BY <1>12, <2>2, Hidden DEF LoseItem, CheckDownload, CheckUpload, Settle
  <2>3. QED
    BY <2>1, <2>2
<1>13. ASSUME NEW all \in BOOLEAN, AnswerOverwrite(all) PROVE Matched
  <2>1. user'.stop = user.stop
    BY <1>0, <1>13 DEF AnswerOverwrite, TypeInv, TypeOK, Words
  <2>2. QED
    BY <1>13, <2>1, Hidden DEF AnswerOverwrite
<1>14. ASSUME NEW all \in BOOLEAN, AnswerSkip(all) PROVE Matched
  <2>1. user'.stop \in BOOLEAN
    BY <1>0 DEF TypeInv, TypeOK, Words
  <2>2. QED
    BY <1>14, <2>1, ConcludePromise DEF AnswerSkip
<1>15. CASE AnswerCancelQueue
  <2>1. user'.stop \in BOOLEAN
    BY <1>0 DEF TypeInv, TypeOK, Words
  <2>2. QED
    BY <1>15, <2>1, ConcludePromise DEF AnswerCancelQueue
<1>16. QED
  BY <1>1, <1>2, <1>3, <1>4, <1>5, <1>6, <1>7, <1>8, <1>9, <1>10, <1>11, <1>12,
     <1>13, <1>14, <1>15
  DEF Next, Click, Answer, Step

\* The transfer queue implements QueueLifecycle.
THEOREM Refinement == Spec => KeepsPromise
<1>1. Init => Promise!Init
  BY InitPromise
<1>2. Init => ControlInv
  BY InitControlInv
<1>3. ControlInv /\ [Next]_vars => ControlInv'
  BY NextControlInv
<1>4. ControlInv /\ [Next]_vars => [Promise!Next]_(Promise!lvars)
  BY StepPromise
<1>5. QED
  BY <1>1, <1>2, <1>3, <1>4, PTL DEF Spec, KeepsPromise, Promise!Spec

=============================================================================
