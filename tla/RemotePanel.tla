----------------------------- MODULE RemotePanel -----------------------------
(***************************************************************************)
(* The file browser's remote panel: the current path, the rows it shows,   *)
(* and the clicks that queue selected rows.                                *)
(*                                                                         *)
(* Everything runs on the GUI thread, but refreshRemoteDirectory and the   *)
(* folder scans call processEvents, where another click runs a whole       *)
(* handler.  calls is the stack of handlers that wait there; the last one  *)
(* is where the program is.  A run of the transfer queue is one of them:   *)
(* what it does to its items is TransferQueue's subject, here it lets      *)
(* clicks in and refreshes the panel.                                      *)
(***************************************************************************)
EXTENDS FolderScan

CONSTANTS
  Home,       \* the first remote folder
  Typed,      \* paths typed into the path field
  MaxLength,  \* bound: names in the current path
  MaxCalls,   \* bound: handlers that wait for one another
  MaxClicks   \* bound: selections queued

ASSUME PanelAssumption ==
  /\ Home \in Seq(Name) /\ Len(Home) <= MaxLength /\ Typed \subseteq Seq(Name)
  /\ MaxLength \in Nat /\ MaxCalls \in Nat /\ MaxClicks \in Nat

VARIABLES
  path,      \* m_currentRemotePath
  rows,      \* the table: the paths of the entries as they were listed
  calls,     \* the handlers on the stack
  running,   \* m_transferQueueRunning
  locks,     \* what is disabled: remote navigation, queue buttons
  queue,     \* m_transferQueue
  clicks,    \* selections queued
  listed,    \* history: the folder of the rows, and was the last listing one
  selected   \* history: the entries the user selected and queued

vars == <<path, rows, calls, running, locks, queue, clicks, listed, selected>>
panel == <<path, rows, locks, listed>>
picked == <<queue, clicks, selected>>

Unlocked == [nav |-> FALSE, add |-> FALSE]
Locked   == [nav |-> TRUE, add |-> TRUE]

\* setRemoteBusy(false).
RemoteFree == [nav |-> FALSE, add |-> running]

\* A handler: the path it lists, or the rows it has left, what its scans have
\* counted, whether one stopped, the folders it scanned, and whether it waits
\* in processEvents.
Call(kind, asked, left) ==
  [kind |-> kind, asked |-> asked, left |-> left, count |-> 0, issue |-> FALSE,
   scanned |-> {}, waits |-> kind \in {"refresh", "run"}]

Top == Last(calls)
Below1 == Front(calls)
Push(call) == Len(calls) < MaxCalls /\ calls' = Append(calls, call)

\* Where a click is heard.
Idle == calls = <<>>
Heard == ~Idle => Top.waits

Init ==
  /\ path = Home /\ rows = Listing(Home) /\ calls = <<>> /\ running = FALSE
  /\ locks = Unlocked /\ queue = <<>> /\ clicks = 0
  /\ listed = [folder |-> Home, ok |-> TRUE] /\ selected = {}
-----------------------------------------------------------------------------
(***************************************************************************)
(* Navigation.  Every way sets the path before the folder is listed.       *)
(***************************************************************************)

GoTo(folder) ==
  /\ Heard /\ ~locks.nav
  /\ Len(folder) <= MaxLength /\ path' = folder
  /\ Push(Call("refresh", folder, <<>>))
  /\ locks' = Locked
  /\ UNCHANGED <<rows, running, listed, picked>>

RefreshPanel == GoTo(path)
GoUp == GoTo(Parent(path))
OpenFromEditor == \E folder \in Typed : GoTo(folder)

\* The row's name under the path of now.
PathOf(row) == Join(path, Last(rows[row]))
IsDirRow(row) == Server[rows[row]] = "dir"
OpenRow == \E row \in DOMAIN rows : IsDirRow(row) /\ GoTo(PathOf(row))

\* Seeded fault: the path is not set to the one that was listed.
StaysPut(asked) == path

\* The path a listing is for is the one asked for at its start.
PathListed(asked) == asked

ListingArrives ==
  /\ ~Idle /\ Top.kind = "refresh" /\ Top.asked \in DOMAIN Server
  /\ path' = PathListed(Top.asked)
  /\ rows' = Listing(Top.asked)
  /\ listed' = [folder |-> Top.asked, ok |-> TRUE]
  /\ calls' = Below1 /\ locks' = RemoteFree
  /\ UNCHANGED <<running, picked>>

\* The path stays, and so do the rows.
ListingFails ==
  /\ ~Idle /\ Top.kind = "refresh"
  /\ listed' = [listed EXCEPT !.ok = FALSE]
  /\ calls' = Below1 /\ locks' = RemoteFree
  /\ UNCHANGED <<path, rows, running, picked>>
-----------------------------------------------------------------------------
(***************************************************************************)
(* Queueing a selection.                                                   *)
(***************************************************************************)

\* The rows of a selection, in their order.
Selections(n) ==
  {left \in UNION {[1..m -> 1..n] : m \in 1..n} :
     \A j, k \in DOMAIN left : j < k => left[j] < left[k]}

Clicked(paths) ==
  /\ clicks < MaxClicks /\ clicks' = clicks + 1
  /\ selected' = selected \cup paths

QueueDownloads ==
  /\ Heard /\ ~locks.add
  /\ \E left \in Selections(Len(rows)) :
       /\ Push(Call("download", <<>>, left))
       /\ Clicked({rows[r] : r \in Range(left)})
  /\ UNCHANGED <<panel, running, queue>>

\* Local rows are paths of the disk's top folder.
DiskRows == SetToSeq(Inside(Disk, <<>>))

QueueUploads ==
  /\ Heard /\ ~locks.add
  /\ \E left \in Selections(Len(DiskRows)) :
       /\ Push(Call("upload", <<>>, left))
       /\ Clicked({DiskRows[r] : r \in Range(left)})
  /\ UNCHANGED <<panel, running, queue>>

\* Delete remote is disabled by a run only, and does not process events.
QueueDeletes ==
  /\ Heard /\ ~running
  /\ \E left \in Selections(Len(rows)) :
       /\ Clicked({rows[r] : r \in Range(left)})
       /\ queue' = queue \o
            [k \in DOMAIN left |->
               Item(IF IsDirRow(left[k]) THEN "Delete remote dir" ELSE "Delete remote file",
                    PathOf(left[k]), PathOf(left[k]), "Pending")]
  /\ UNCHANGED <<panel, running, calls>>

InSelection(kind) == ~Idle /\ Top.kind = kind /\ Top.left # <<>>
Row == Head(Top.left)
Rest == [Top EXCEPT !.left = Tail(@), !.waits = FALSE]
Continue(call) == calls' = Append(Below1, call)

\* A row that is gone, a link where links are not taken, or a No.
SkipRow ==
  /\ \/ InSelection("download") /\ (Row \in DOMAIN rows => IsDirRow(Row))
     \/ InSelection("upload") /\ Disk[DiskRows[Row]] \in {"link", "dir"}
  /\ Continue(Rest)
  /\ UNCHANGED <<panel, running, picked>>

TakeFile ==
  /\ \/ /\ InSelection("download") /\ Row \in DOMAIN rows /\ ~IsDirRow(Row)
        /\ queue' = Append(queue, Item("Download", PathOf(Row), <<Last(rows[Row])>>, "Pending"))
     \/ /\ InSelection("upload") /\ Disk[DiskRows[Row]] = "file"
        /\ queue' = Append(queue, Item("Upload", DiskRows[Row],
                                       Join(path, Last(DiskRows[Row])), "Pending"))
  /\ Continue(Rest)
  /\ UNCHANGED <<panel, running, clicks, selected>>

\* Seeded fault: the last scan decides what is reported.
OfLastScan(call, scan) == ~scan.ok

\* folderScanIssue: one scan that stopped is enough.
HasIssue(call, scan) == call.issue \/ ~scan.ok

\* After a scan the handler processes events.
ScanDone(scan, folder) ==
  /\ queue' = queue \o scan.items
  /\ Continue([Rest EXCEPT !.count = scan.count, !.issue = HasIssue(Top, scan),
                           !.scanned = @ \cup {folder}, !.waits = TRUE])
  /\ UNCHANGED <<panel, running, clicks, selected>>

TakeRemoteFolder ==
  /\ InSelection("download") /\ Row \in DOMAIN rows /\ IsDirRow(Row)
  /\ \E unlisted \in SUBSET ({PathOf(Row)} \cup Folders(Server, PathOf(Row))),
        walk \in RemoteWalks(PathOf(Row)) :
       ScanDone(ScanRemote(NewScan(Top.count), PathOf(Row), <<Last(rows[Row])>>, unlisted, walk),
                PathOf(Row))

TakeLocalFolder ==
  /\ InSelection("upload") /\ Disk[DiskRows[Row]] = "dir"
  /\ \E walk \in LocalWalks(DiskRows[Row]) :
       ScanDone(ScanLocal(NewScan(Top.count), DiskRows[Row],
                          Join(path, Last(DiskRows[Row])), walk), DiskRows[Row])

EndSelection ==
  /\ ~Idle /\ Top.kind \in {"download", "upload"} /\ Top.left = <<>>
  /\ calls' = Below1
  /\ UNCHANGED <<panel, running, picked>>
-----------------------------------------------------------------------------
(***************************************************************************)
(* A run of the queue.                                                     *)
(***************************************************************************)

Start ==
  /\ Heard /\ ~running /\ \E k \in DOMAIN queue : queue[k].status = "Pending"
  /\ Push(Call("run", <<>>, <<>>))
  /\ running' = TRUE /\ locks' = Locked
  /\ UNCHANGED <<path, rows, listed, picked>>

\* After an upload or a remote delete.
RunRefreshes ==
  /\ ~Idle /\ Top.kind = "run"
  /\ Push(Call("refresh", path, <<>>)) /\ locks' = Locked
  /\ UNCHANGED <<path, rows, running, listed, picked>>

\* The last refresh comes when the run is over.
FinishRun ==
  /\ ~Idle /\ Top.kind = "run"
  /\ running' = FALSE
  /\ Continue(Call("refresh", path, <<>>)) /\ locks' = Locked
  /\ UNCHANGED <<path, rows, listed, picked>>

Navigate == RefreshPanel \/ GoUp \/ OpenFromEditor \/ OpenRow
Select == QueueDownloads \/ QueueUploads \/ QueueDeletes
Work == \/ ListingArrives \/ ListingFails \/ SkipRow \/ TakeFile
        \/ TakeRemoteFolder \/ TakeLocalFolder \/ EndSelection
Run == Start \/ RunRefreshes \/ FinishRun

Next == Navigate \/ Select \/ Work \/ Run
Spec == Init /\ [][Next]_vars
-----------------------------------------------------------------------------
(***************************************************************************)
(* Properties.                                                             *)
(***************************************************************************)

\* Rows are entries of the server; calls and statuses are of their kinds.
TypeOK ==
  /\ \A k \in DOMAIN rows : rows[k] \in DOMAIN Server
  /\ Len(path) <= MaxLength /\ Len(calls) <= MaxCalls /\ clicks \in 0..MaxClicks
  /\ running \in BOOLEAN /\ locks \in [nav : BOOLEAN, add : BOOLEAN]
  /\ \A k \in DOMAIN calls :
       /\ calls[k].kind \in {"refresh", "download", "upload", "run"}
       /\ calls[k].waits \in BOOLEAN /\ calls[k].issue \in BOOLEAN
  /\ \A k \in DOMAIN queue : queue[k].status \in {"Pending", "Failed"}

\* Whatever was clicked while a listing was under way, by its end the path and
\* the rows belong together, if the last listing was one.
RowsMatchPath == Idle /\ listed.ok => path = listed.folder

\* A folder joins the queue before what a scan finds in it, on both sides, so
\* that no transfer of a run misses its folder.
ParentFirst ==
  /\ \A k \in DOMAIN queue :
       queue[k].direction \in {"Create local dir", "Download"} /\ Len(queue[k].target) > 1
         => \E j \in 1..(k - 1) :
              queue[j].direction = "Create local dir" /\ queue[j].target = Front(queue[k].target)
  /\ \A k \in DOMAIN queue :
       queue[k].direction \in {"Create remote dir", "Upload"} /\ Len(queue[k].source) > 1
         => \E j \in 1..(k - 1) :
              /\ queue[j].direction = "Create remote dir"
              /\ queue[j].source = Front(queue[k].source)
              /\ queue[j].target = Front(queue[k].target)

\* One click queues no more than the limit by its scans; the folders selected
\* for an upload come on top.
WithinLimit ==
  \A k \in DOMAIN calls :
    calls[k].count <= MaxScanned
      + (IF calls[k].kind = "upload" THEN Cardinality(calls[k].scanned) ELSE 0)

\* A scan that was stopped by a failed listing, the depth or the limit is
\* reported: without a report every file of the folders is in the queue.
WholeOrReported ==
  \A k \in DOMAIN calls : ~calls[k].issue =>
    LET tree == IF calls[k].kind = "upload" THEN Disk ELSE Server
    IN \A folder \in calls[k].scanned : \A p \in Below(tree, folder) :
         tree[p] = "file" => \E j \in DOMAIN queue :
           queue[j].source = p /\ queue[j].direction \in {"Download", "Upload"}

\* "Delete local and Delete remote add selected supported items" (FEATURES.md:63),
\* Queue download and Queue upload do: what is queued was selected, or lies in a
\* folder that was, although the path may have moved on from the rows.
QueuedIsSelected ==
  \A k \in DOMAIN queue : \E p \in selected : IsPrefix(p, queue[k].source)
=============================================================================
