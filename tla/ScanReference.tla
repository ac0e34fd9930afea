---------------------------- MODULE ScanReference ----------------------------
(***************************************************************************)
(* addRemoteFolderDownloadToQueue as it is written, a function that calls  *)
(* itself, against the single pass of FolderScan: every listing order and  *)
(* every set of folders that cannot be listed gives the same scans.        *)
(***************************************************************************)
EXTENDS FolderScan

\* The orders in which the server may list its folders.
Orders(folders) ==
  {order \in [folders -> UNION {SetToSeqs(Inside(Server, f)) : f \in folders}] :
     \A f \in folders : order[f] \in SetToSeqs(Inside(Server, f))}

RECURSIVE AddFolder(_, _, _, _, _, _)
AddFolder(scan, folder, target, depth, unlisted, order) ==
  LET made == Added(scan, Item("Create local dir", folder, target, "Pending"))
      Entry(acc, p) ==
        LET to == Join(target, Last(p))
        IN CASE ~acc.ok -> acc
             [] acc.ok /\ Full(acc) -> Stopped(acc)
             [] acc.ok /\ ~Full(acc) /\ Server[p] = "dir" ->
                  AddFolder(acc, p, to, depth + 1, unlisted, order)
             [] acc.ok /\ ~Full(acc) /\ Server[p] = "file" ->
                  Added(acc, Item("Download", p, to, "Pending"))
             [] OTHER -> acc
  IN IF depth > MaxDepth \/ Full(scan) THEN Stopped(scan)
     ELSE IF CannotList(folder, unlisted) THEN Marked(made, folder, target)
     ELSE FoldLeft(Entry, made, order[folder])

\* Scans of every folder a row may show, and of one that is gone.
Scanned == Folders(Server, <<>>) \cup {<<"gone">>}

ASSUME PassIsRecursion ==
  \A folder \in Scanned, count \in 0..MaxScanned :
    LET within == {folder} \cup Folders(Server, folder)
    IN \A unlisted \in SUBSET within :
         {ScanRemote(NewScan(count), folder, <<"to">>, unlisted, walk) :
            walk \in RemoteWalks(folder)}
         = {AddFolder(NewScan(count), folder, <<"to">>, 0, unlisted, order) :
              order \in Orders(within)}
=============================================================================
