--------------------------- MODULE MCTransferQueue ---------------------------
(***************************************************************************)
(* Small instances of TransferQueue.  "l" and "la".."lc" are local paths,  *)
(* "r" and "ra".."rc" remote ones; "lx" lies in the folder "l" and "rx" in *)
(* the folder "r".                                                         *)
(***************************************************************************)
EXTENDS TransferQueue

Job1(direction, source, target) ==
  [direction |-> direction, source |-> source, target |-> target]

Files    == {"old", "new", "far"}
FlatPath == {"la", "lb"}
FarPath  == {"ra", "rb"}
DirPath  == {"l", "lx"}
FarDir   == {"r", "rx"}

NothingAbove == [p \in FlatPath \cup FarPath |-> {}]
FolderAbove  == [p \in DirPath \cup FarDir |->
                   CASE p = "lx" -> {"l"} [] p = "rx" -> {"r"} [] OTHER -> {}]
NoLinks      == [p \in FlatPath |-> p]
NoDirLinks   == [p \in DirPath |-> p]
LinkAToB     == [p \in FlatPath |-> "lb"]

Pair(a, x, b, y) == [p \in {a, b} |-> IF p = a THEN x ELSE y]

\* Two uploads onto files that exist, and a download onto one.
ConflictJobs  == {Job1("Upload", "la", "ra"), Job1("Upload", "la", "rb"),
                  Job1("Download", "rb", "lb")}
ConflictLocal  == Pair("la", "new", "lb", "old")
ConflictRemote == Pair("ra", "old", "rb", "far")

\* An upload, and deletes on both sides.
DeleteJobs   == {Job1("Upload", "la", "ra"), Job1("Delete remote file", "rb", "rb"),
                 Job1("Delete local file", "lb", "lb")}

\* An upload, and a local delete that can be queued while it runs.
LateJobs     == {Job1("Upload", "la", "ra"), Job1("Delete local file", "lb", "lb")}

\* A folder on each side and what goes into it, in both directions.
FolderJobs   == {Job1("Create local dir", "r", "l"), Job1("Download", "rx", "lx"),
                 Job1("Delete local dir", "l", "l"), Job1("Create remote dir", "l", "r"),
                 Job1("Upload", "lx", "rx"), Job1("Delete remote dir", "r", "r")}
FolderLocal  == Pair("l", "absent", "lx", "absent")
FolderRemote == Pair("r", "dir", "rx", "far")

\* A file and a link to it.
LinkJobs  == {Job1("Delete local file", "la", "la"), Job1("Delete local file", "lb", "lb")}
LinkLocal == Pair("la", "link", "lb", "old")
=============================================================================
