------------------------------ MODULE FileTree ------------------------------
(***************************************************************************)
(* The two file trees a transfer run works on: the local disk as Qt's      *)
(* QFileInfo, QDir, QFile and QSaveFile show it, and the remote tree as    *)
(* the SFTP server shows it.  Neither is code of the repository; this      *)
(* module states what SftpBrowserTab and SftpProbe rely on.                *)
(*                                                                         *)
(* A tree maps every path to a node: nothing, a folder, a symbolic link, a *)
(* whole file (one of Content) or a file whose bytes are not, or not yet,  *)
(* those of any whole file (Torn).                                         *)
(***************************************************************************)
EXTENDS Naturals

CONSTANTS
  LocalPath,   \* the local paths of the instance
  RemotePath,  \* the remote paths of the instance
  Content,     \* what a complete file may hold
  Above,       \* the folders above a path, nearest or not
  LinkTo       \* where a symbolic link at a local path points

Absent == "absent"
Dir    == "dir"
Link   == "link"
Torn   == "torn"

Path == LocalPath \cup RemotePath
Node == Content \cup {Absent, Dir, Link, Torn}

ASSUME TreeAssumption ==
  /\ LocalPath \cap RemotePath = {}
  /\ Content \cap {Absent, Dir, Link, Torn} = {}
  /\ Above \in [Path -> SUBSET Path]
  /\ LinkTo \in [LocalPath -> LocalPath]
  /\ \A p \in Path : p \notin Above[p]

LocalTree  == [LocalPath -> Node]
RemoteTree == [RemotePath -> Node \ {Link}]

IsFile(node) == node \in Content \cup {Torn}

\* The path a name leads to once a symbolic link at its end is followed.
Resolve(t, p) == IF t[p] = Link THEN LinkTo[p] ELSE p

\* What QFileInfo and QFile see of a local path: they follow the link.
Follow(t, p) == t[Resolve(t, p)]

\* QFileInfo::exists: a link whose target is gone does not exist.
Exists(t, p) == Follow(t, p) \notin {Absent, Link}

\* The folder a path lives in is there.
ParentReady(t, p) == \A a \in Above[p] : t[a] = Dir

EmptyDir(t, d) ==
  t[d] = Dir /\ \A p \in DOMAIN t : d \in Above[p] => t[p] = Absent

\* Nothing exists below a path that is not a folder.
WellFormed(t) == \A p \in DOMAIN t : t[p] # Absent => ParentReady(t, p)

\* QDir::mkpath: the folder and every missing folder above it.
CanMkpath(t, p) == \A a \in Above[p] \cup {p} : t[a] \in {Absent, Dir}
Mkpath(t, p)    == [q \in DOMAIN t |-> IF q \in Above[p] \cup {p} THEN Dir ELSE t[q]]

\* sftp_mkdir: one level, below a folder that is there.
CanMkdir(t, p) == t[p] = Absent /\ ParentReady(t, p)

\* QFile::remove and sftp_unlink take files and links (never the link's
\* target), QDir::rmdir and sftp_rmdir empty folders.
CanUnlink(t, p) == IsFile(t[p]) \/ t[p] = Link
CanRmdir(t, p)  == EmptyDir(t, p)

=============================================================================
