--------------------------- MODULE QueueLifecycle ---------------------------
(***************************************************************************)
(* What the transfer queue promises about its items, whatever they do to   *)
(* files: one run at a time, one item at a time, in order, no item lost    *)
(* between Pending and a final status, and a run that goes on until        *)
(* nothing is Pending unless the user says stop.  TransferQueue is the     *)
(* code that keeps the promise.                                            *)
(***************************************************************************)
EXTENDS Rows

Final == {"Done", "Failed", "Cancelled", "Skipped"}

VARIABLES
  status,    \* the status of each item, in queue order
  active,    \* a run is under way
  stopping   \* the user has told it to stop

lvars == <<status, active, stopping>>

NoneRunning == \A k \in DOMAIN status : status[k] # "Running"
NonePending == \A k \in DOMAIN status : status[k] # "Pending"

Init == status = <<>> /\ active = FALSE /\ stopping = FALSE

\* Items can join at any time, even during a run.
Add ==
  /\ status' = Append(status, "Pending")
  /\ UNCHANGED <<active, stopping>>

\* Items leave, and finished ones return to Pending, between runs only.
Drop(keep) ==
  /\ ~active
  /\ Kept(status, keep, status')
  /\ UNCHANGED <<active, stopping>>

Retry(rows) ==
  /\ ~active
  /\ status' = [k \in DOMAIN status |->
                  IF k \in rows /\ status[k] \in Final THEN "Pending" ELSE status[k]]
  /\ UNCHANGED <<active, stopping>>

Begin ==
  /\ ~active /\ ~NonePending
  /\ active' = TRUE
  /\ UNCHANGED <<status, stopping>>

Take(k) ==
  /\ active /\ ~stopping /\ NoneRunning
  /\ status[k] = "Pending" /\ \A j \in 1..k-1 : status[j] # "Pending"
  /\ status' = [status EXCEPT ![k] = "Running"]
  /\ UNCHANGED <<active, stopping>>

\* An item ends; cancelling the whole queue at its overwrite question ends the
\* item and stops the run at once.
Conclude(k, s) ==
  /\ active /\ ~stopping /\ status[k] = "Running"
  /\ status' = [status EXCEPT ![k] = s]
  /\ stopping' = TRUE \/ stopping' = FALSE
  /\ UNCHANGED active

\* A delete the user refuses waits for another run.
PutBack(k) ==
  /\ active /\ ~stopping /\ status[k] = "Running"
  /\ status' = [status EXCEPT ![k] = "Pending"]
  /\ stopping' = TRUE
  /\ UNCHANGED active

\* "No" to going on after a cancelled item.
Stop ==
  /\ active /\ NoneRunning
  /\ stopping' = TRUE
  /\ UNCHANGED <<status, active>>

Over ==
  /\ active /\ NoneRunning /\ (stopping \/ NonePending)
  /\ active' = FALSE /\ stopping' = FALSE
  /\ UNCHANGED status

Next ==
  \/ Add
  \/ \E keep \in SUBSET DOMAIN status : Drop(keep) \/ Retry(keep)
  \/ Begin \/ Stop \/ Over
  \/ \E k \in DOMAIN status :
       Take(k) \/ PutBack(k) \/ \E s \in Final : Conclude(k, s)

Spec == Init /\ [][Next]_lvars

=============================================================================
