---------------------------- MODULE MCRemotePanel ----------------------------
(***************************************************************************)
(* A server with two folders, one of them with a folder too deep to scan,  *)
(* and a disk with a folder and a file.                                    *)
(***************************************************************************)
EXTENDS RemotePanel, ScanReference

Tree(dirs, files, links) ==
  [p \in dirs \cup files \cup links |->
     IF p \in dirs THEN "dir" ELSE IF p \in files THEN "file" ELSE "link"]

OnServer == Tree({<<>>, <<"a">>, <<"a", "s">>, <<"a", "s", "t">>, <<"b">>},
                 {<<"b", "f">>, <<"a", "s", "t", "g">>}, {})
OnDisk   == Tree({<<>>, <<"d">>}, {<<"d", "y">>, <<"u">>}, {<<"d", "k">>})
TopFolder == <<>>
FolderA   == <<"a">>
TypedPath == {<<"b">>}
=============================================================================
