----------------------------- MODULE ConfigStore -----------------------------
(***************************************************************************)
(* dd-ssh.json and the files around it: the backups, the files moved aside *)
(* by a restore, and an exported copy.                                     *)
(*                                                                         *)
(* Every operation of ConfigManager and KnownHostsManager is one call on   *)
(* the GUI thread that reads the file, changes a copy and replaces the     *)
(* file.  The calls do not overlap; what can come between their steps is a *)
(* failure of the file system or the end of the program.  op names the     *)
(* call and the step it takes next.                                        *)
(***************************************************************************)
EXTENDS ConfigContents, Sequences

CONSTANTS
  Missing,    \* there is no such file
  Bad,        \* a file that is no JSON object
  Imports,    \* what the files a user may import hold: any JSON object will do,
              \* whether its sessions have their secrets or not
  MaxOps,     \* bound: operations started
  MaxDamage   \* bound: files damaged by others

ASSUME StoreAssumption ==
  /\ \A c \in Imports : IsContents(c)
  /\ MaxOps \in Nat /\ MaxDamage \in Nat
  /\ Missing # Bad

VARIABLES
  file,       \* dd-ssh.json
  bak,        \* the dd-ssh.json.bak-* files, newest first
  aside,      \* the dd-ssh.json.corrupt-* and .pre-restore-* files
  exported,   \* the file of the last export
  op,         \* the call in progress
  ops,        \* operations started
  damage      \* files damaged

vars == <<file, bak, aside, exported, op, ops, damage>>
counters == <<ops, damage>>

Idle == [kind |-> "idle", step |-> "idle", new |-> Base, touched |-> {}]
Kinds == {"save", "import", "restore", "fresh", "export"}
Steps == {"backup", "write", "moveAside", "copyBack", "copyOut"}

\* restoreLatestValidBackup takes the newest backup that is a JSON object.
IsLatestValid(files, k) ==
  /\ k \in DOMAIN files /\ files[k] # Bad
  /\ \A j \in 1..(k - 1) : files[j] = Bad

Init ==
  /\ file = Missing /\ bak = <<>> /\ aside = {} /\ exported = Missing
  /\ op = Idle /\ ops = 0 /\ damage = 0
-----------------------------------------------------------------------------
(***************************************************************************)
(* Starting a call.  It reads the file first, and refuses a bad one.       *)
(***************************************************************************)

\* readRootObject and ensureBaseObjects.
ReadRoot == IF file = Missing THEN Base ELSE file

Begin(kind, step, new, touched) ==
  /\ op = Idle /\ ops < MaxOps
  /\ op' = [kind |-> kind, step |-> step, new |-> new, touched |-> touched]
  /\ ops' = ops + 1
  /\ UNCHANGED <<file, bak, aside, exported, damage>>

BeginSave(new, touched) == Begin("save", "backup", new, touched)

\* Connect with "save connection", after the authentication succeeded: a new
\* session, or the session of the same target updated, or a copy of it.
SaveNew(id, target, auth, secret) ==
  /\ SameTarget(ReadRoot, target) = {}
  /\ BeginSave(SaveSession(ReadRoot, id, target, auth, secret), {id})

UpdateExisting(old, id, target, auth, secret) ==
  /\ old \in SameTarget(ReadRoot, target)
  /\ CanUpdate(ReadRoot, old, id, auth, TRUE)
  /\ BeginSave(UpdateSession(ReadRoot, old, id, target, auth, TRUE, secret), {old, id})

CreateCopy(id, target, auth, secret) ==
  /\ SameTarget(ReadRoot, target) # {}
  /\ FreeCopies(ReadRoot, id) # {}
  /\ BeginSave(SaveSession(ReadRoot, UniqueId(ReadRoot, id), target, auth, secret), {})

SaveConnection ==
  \E id \in Ids, target \in Targets, auth \in Auths, secret \in Values :
    \/ SaveNew(id, target, auth, secret)
    \/ \E old \in Ids : UpdateExisting(old, id, target, auth, secret)
    \/ CreateCopy(id, target, auth, secret)

\* An empty secret field keeps the saved secret.
EditSession ==
  \E old, id \in Ids, target \in Targets, auth \in Auths, replace \in BOOLEAN,
     secret \in Values :
    /\ CanUpdate(ReadRoot, old, id, auth, replace)
    /\ BeginSave(UpdateSession(ReadRoot, old, id, target, auth, replace, secret), {old, id})

RemoveSession ==
  \E id \in DOMAIN ReadRoot.sessions : BeginSave(DeleteSession(ReadRoot, id), {id})

ChangeSettings ==
  \E keep \in 0..DefaultKeep : BeginSave(SaveSettings(ReadRoot, keep), {})

TrustKey ==
  \E h \in Hosts, print \in Prints : BeginSave(TrustHost(ReadRoot, h, print), {h})

Save ==
  /\ file # Bad
  /\ \/ SaveConnection \/ EditSession \/ RemoveSession \/ ChangeSettings \/ TrustKey

Import ==
  /\ file # Bad
  /\ \E c \in Imports \cup ({exported} \ {Missing, Bad}) : Begin("import", "backup", c, {})

Export == file \notin {Missing, Bad} /\ Begin("export", "copyOut", ReadRoot, {})

\* From the File menu, and from the recovery dialog of a start that finds a
\* bad file: the newest backup that is a JSON object.
Restore ==
  \E k \in DOMAIN bak :
    /\ IsLatestValid(bak, k)
    /\ Begin("restore", "moveAside", bak[k], {})

CreateFresh == file = Bad /\ Begin("fresh", "moveAside", Base, {})
-----------------------------------------------------------------------------
(***************************************************************************)
(* The steps of a call.                                                    *)
(***************************************************************************)

At(step) == op.step = step
Goto(step) == op' = [op EXCEPT !.step = step]
Done == op' = Idle

\* Seeded fault: the oldest backups stay.
KeepOldest(files, n) == SubSeq(files, Len(files) + 1 - n, Len(files))

\* pruneConfigBackups keeps the newest n; one it cannot remove stays.
Pruned(files, n) == SubSeq(files, 1, n)
Stale(files, n)  == SubSeq(files, n + 1, Len(files))

\* Seeded faults: an import copies only if the settings say so; a file that
\* is not there is copied.
IfEnabled   == op.new.keep > 0 /\ file # Missing
EvenMissing == op.kind = "import" \/ op.new.keep > 0

\* A save copies the file before it is replaced if the new settings say so;
\* an import always does, and removes none.
NeedsBackup == (op.kind = "import" \/ op.new.keep > 0) /\ file # Missing

Backup ==
  /\ At("backup") /\ NeedsBackup
  /\ LET all == <<file>> \o bak IN
       IF op.kind = "import" \/ Len(all) <= op.new.keep THEN bak' = all
       ELSE \E left \in {<<>>, Stale(all, op.new.keep)} :
              bak' = Pruned(all, op.new.keep) \o left
  /\ Goto("write")
  /\ UNCHANGED <<file, aside, exported, counters>>

NoBackup ==
  /\ At("backup") /\ ~NeedsBackup
  /\ Goto("write")
  /\ UNCHANGED <<file, bak, aside, exported, counters>>

\* QSaveFile: the new contents replace the file at once, or not at all.
Write ==
  /\ At("write")
  /\ file' = op.new /\ Done
  /\ UNCHANGED <<bak, aside, exported, counters>>

\* moveExistingConfigAside: a rename, or a copy and a removal.
MoveAside ==
  /\ At("moveAside")
  /\ file' = Missing
  /\ aside' = aside \cup ({file} \ {Missing})
  /\ Goto(IF op.kind = "fresh" THEN "write" ELSE "copyBack")
  /\ UNCHANGED <<bak, exported, counters>>

\* The copy was made but the original could not be removed.
MoveAsideHalf ==
  /\ At("moveAside") /\ file # Missing
  /\ aside' = aside \cup {file} /\ Done
  /\ UNCHANGED <<file, bak, exported, counters>>

CopyBack ==
  /\ At("copyBack")
  /\ file' = op.new /\ Done
  /\ UNCHANGED <<bak, aside, exported, counters>>

\* exportConfigToFile removes the target, then copies.
ClearTarget ==
  /\ At("copyOut") /\ exported # Missing
  /\ exported' = Missing
  /\ UNCHANGED <<file, bak, aside, op, counters>>

CopyOut ==
  /\ At("copyOut") /\ exported = Missing
  /\ exported' = file /\ Done
  /\ UNCHANGED <<file, bak, aside, counters>>

\* A step fails and the call returns, or the program ends before it.
Stop ==
  /\ op # Idle /\ Done
  /\ UNCHANGED <<file, bak, aside, exported, counters>>
-----------------------------------------------------------------------------
\* Other programs, and people with an editor, damage a file between calls.
Damage ==
  /\ op = Idle /\ damage < MaxDamage /\ damage' = damage + 1
  /\ \/ file # Missing /\ file' = Bad /\ UNCHANGED bak
     \/ bak # <<>> /\ bak' = [bak EXCEPT ![1] = Bad] /\ UNCHANGED file
  /\ UNCHANGED <<aside, exported, op, ops>>

Call == Save \/ Import \/ Export \/ Restore \/ CreateFresh
Step == \/ Backup \/ NoBackup \/ Write \/ MoveAside \/ MoveAsideHalf \/ CopyBack
        \/ ClearTarget \/ CopyOut \/ Stop

Next == Call \/ Step \/ Damage
Spec == Init /\ [][Next]_vars
-----------------------------------------------------------------------------
(***************************************************************************)
(* Properties.                                                             *)
(***************************************************************************)

Stored == ({file, exported} \cup Range(bak) \cup aside) \ {Missing, Bad}

\* The files hold configs, or are missing or bad; the call is at a step it has.
TypeOK ==
  /\ \A c \in Stored : IsContents(c)
  /\ \A k \in DOMAIN bak : bak[k] # Missing
  /\ op.kind \in Kinds \cup {"idle"} /\ op.step \in Steps \cup {"idle"}
  /\ op.touched \subseteq Ids \cup Hosts
  /\ ops \in 0..MaxOps /\ damage \in 0..MaxDamage

\* Whatever sequence of saves, edits, copies, deletes, imports and restores
\* led here, with failures in between: a session of a stored config, backups and
\* files moved aside included, has its secret, unless an import brought it in
\* without one and no save has named it since.
RefsResolve ==
  \A c \in Stored : \A id \in DOMAIN c.sessions :
    \/ HasSecret(c, id)
    \/ \E i \in Imports : /\ id \in DOMAIN i.sessions /\ ~HasSecret(i, id)
                         /\ i.sessions[id] = c.sessions[id]

\* A config that is replaced is still in a backup or in a file moved aside,
\* unless a save replaced it under settings that turn backups off.
NothingLost ==
  [][(file' # file /\ file # Missing /\ file' # Bad
       /\ ~(op.kind = "save" /\ op.new.keep = 0))
       => file \in Range(bak') \cup aside']_vars

\* After a save or an import with backups on, "Restore latest backup" gets
\* back exactly what the save replaced.
RestoreUndoes ==
  [][(op.step = "write" /\ op.kind \in {"save", "import"} /\ file' # file
       /\ file # Missing /\ op.new.keep > 0)
       => \E k \in DOMAIN bak' : IsLatestValid(bak', k) /\ bak'[k] = file]_vars

\* A save changes the sessions and host keys its dialog named and no others, and
\* a copy changes none that exist.
SaveKeepsTheRest ==
  [][(op.kind = "save" /\ file' # file /\ file # Missing)
       => /\ \A h \in DOMAIN file.hosts \ op.touched :
               h \in DOMAIN file'.hosts /\ file'.hosts[h] = file.hosts[h]
          /\ \A id \in DOMAIN file.sessions \ op.touched :
               id \in DOMAIN file'.sessions /\ file'.sessions[id] = file.sessions[id]]_vars

\* Leaving the secret field empty keeps the saved secret (README.md:139), so
\* the password or key of a session changes only by a save that names it.
SaveKeepsSecrets ==
  [][(op.kind = "save" /\ file' # file /\ file # Missing)
       => \A id \in DOMAIN file.sessions \ op.touched :
            HasSecret(file, id) =>
              HasSecret(file', id) /\ SecretOf(file', id) = SecretOf(file, id)]_vars
=============================================================================
