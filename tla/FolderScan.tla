----------------------------- MODULE FolderScan -----------------------------
(***************************************************************************)
(* The two scans that turn a folder into items of the transfer queue:      *)
(* addRemoteFolderDownloadToQueue, which lists the server folder by folder, *)
(* and addLocalFolderUploadToQueue, which goes through the local disk.     *)
(*                                                                         *)
(* A path is the sequence of its names, a tree a function from its paths   *)
(* to "dir", "file" or "link".  The counters belong to one click and go on *)
(* from one selected folder to the next.                                   *)
(***************************************************************************)
EXTENDS Naturals, FiniteSets, Sequences, SequencesExt

CONSTANTS
  Name,       \* names of files and folders
  Server,     \* the tree on the server
  Disk,       \* the tree on this computer
  MaxDepth,   \* kMaxFolderScanDepth (64 in the code)
  MaxScanned  \* kMaxQueuedFolderItems (5000 in the code)

Join(folder, name) == Append(folder, name)
Parent(path) == IF path = <<>> THEN path ELSE Front(path)

\* Only a folder holds entries.
IsTree(tree) ==
  /\ IsFiniteSet(DOMAIN tree) /\ DOMAIN tree \subseteq Seq(Name)
  /\ \A p \in DOMAIN tree :
       /\ tree[p] \in {"dir", "file", "link"}
       /\ p # <<>> => Parent(p) \in DOMAIN tree /\ tree[Parent(p)] = "dir"

ASSUME ScanAssumption ==
  /\ IsTree(Server) /\ IsTree(Disk)
  /\ MaxDepth \in Nat /\ MaxScanned \in Nat

Inside(tree, folder) == {p \in DOMAIN tree : p # <<>> /\ Parent(p) = folder}
Below(tree, folder)  == {p \in DOMAIN tree : IsStrictPrefix(folder, p)}
Folders(tree, folder) == {p \in Below(tree, folder) : tree[p] = "dir"}

\* The entries of a folder, in one order.
Listing(folder) == SetToSeq(Inside(Server, folder))

Item(direction, source, target, status) ==
  [direction |-> direction, source |-> source, target |-> target, status |-> status]

\* What a scan has done so far: the items it appended, how many of them count,
\* and whether it goes on.
NewScan(count) == [items |-> <<>>, count |-> count, ok |-> TRUE]
Stopped(scan)  == [scan EXCEPT !.ok = FALSE]

\* Seeded fault: the item goes in front.
AddedInFront(scan, item) ==
  [scan EXCEPT !.items = <<item>> \o @, !.count = @ + 1]

Added(scan, item) ==
  [scan EXCEPT !.items = Append(@, item), !.count = @ + 1]

\* Seeded fault: one item too many.
FullLate(scan) == scan.count > MaxScanned

Full(scan) == scan.count >= MaxScanned

\* Seeded fault: a status word the queue does not know.
MarkedOddly(scan, folder, target) ==
  [scan EXCEPT !.items = Append(@, Item("Create local dir", folder, target, "Scan failed")),
               !.ok = FALSE]

\* A folder that cannot be listed leaves an item that says so, not counted.
Marked(scan, folder, target) ==
  [scan EXCEPT !.items = Append(@, Item("Create local dir", folder, target, "Failed")),
               !.ok = FALSE]

\* An entry's path under the folder the scan copies to.
CopyOf(p, folder, target) == target \o SubSeq(p, Len(folder) + 1, Len(p))

\* The orders of all that is under a folder, a folder before what it holds.
Walks(tree, folder) ==
  {w \in SetToSeqs(Below(tree, folder)) :
     \A j, k \in DOMAIN w : IsStrictPrefix(w[j], w[k]) => j < k}

\* All under a folder comes before the next entry beside it.
DepthFirst(walk) ==
  \A i, k \in DOMAIN walk : IsPrefix(walk[i], walk[k]) =>
    \A j \in i..k : IsPrefix(walk[i], walk[j])
-----------------------------------------------------------------------------
(***************************************************************************)
(* The remote scan calls itself for a folder in a folder, and a call that  *)
(* returns false ends all that wait for it.  So it is one pass over the    *)
(* folder and what is under it, depth first, up to the first entry where a *)
(* call returns false.                                                     *)
(***************************************************************************)

RemoteWalks(folder) == {<<folder>> \o w : w \in {v \in Walks(Server, folder) : DepthFirst(v)}}

IsFolder(p, folder) == p = folder \/ Server[p] = "dir"
TooDeep(p, folder)  == Len(p) > Len(folder) + MaxDepth

\* A path that went away, or is none of a folder, cannot be listed.
CannotList(p, unlisted) == p \in unlisted \/ p \notin DOMAIN Server \/ Server[p] = "file"

\* The start of a call for a folder.
EnterFolder(scan, p, folder, to, unlisted) ==
  LET made == Added(scan, Item("Create local dir", p, to, "Pending"))
  IN CASE TooDeep(p, folder) -> Stopped(scan)
       [] ~TooDeep(p, folder) /\ CannotList(p, unlisted) -> Marked(made, p, to)
       [] OTHER -> made

RemoteEntry(scan, p, folder, target, unlisted) ==
  LET to == CopyOf(p, folder, target)
  IN CASE ~scan.ok -> scan
       [] scan.ok /\ Full(scan) -> Stopped(scan)
       [] scan.ok /\ ~Full(scan) /\ IsFolder(p, folder) ->
            EnterFolder(scan, p, folder, to, unlisted)
       [] scan.ok /\ ~Full(scan) /\ ~IsFolder(p, folder) /\ Server[p] = "file" ->
            Added(scan, Item("Download", p, to, "Pending"))
       [] OTHER -> scan

ScanRemote(scan, folder, target, unlisted, walk) ==
  LET after[k \in 0..Len(walk)] ==
        IF k = 0 THEN scan ELSE RemoteEntry(after[k - 1], walk[k], folder, target, unlisted)
  IN after[Len(walk)]
-----------------------------------------------------------------------------
\* QDirIterator follows no links.
LocalWalks(folder) == Walks(Disk, folder)

LocalEntry(scan, p, folder, target) ==
  LET to == CopyOf(p, folder, target)
  IN CASE ~scan.ok -> scan
       [] scan.ok /\ Full(scan) -> Stopped(scan)
       [] scan.ok /\ ~Full(scan) /\ Disk[p] = "dir" ->
            Added(scan, Item("Create remote dir", p, to, "Pending"))
       [] scan.ok /\ ~Full(scan) /\ Disk[p] = "file" ->
            Added(scan, Item("Upload", p, to, "Pending"))
       [] OTHER -> scan

\* The folder itself is queued without a look at the limit.
ScanLocal(scan, folder, target, walk) ==
  LET after[k \in 0..Len(walk)] ==
        IF k = 0 THEN Added(scan, Item("Create remote dir", folder, target, "Pending"))
        ELSE LocalEntry(after[k - 1], walk[k], folder, target)
  IN after[Len(walk)]
=============================================================================
