# DD-SSH: verification project

DD-SSH is a desktop SSH client (C++17, Qt 6, libssh): terminal tabs with a
worker thread each, a two-panel SFTP browser with a transfer queue, and one JSON
file for settings, sessions and trusted host keys. This directory holds TLA+
models of the parts where order, failure and the user's decisions matter, the
TLC configurations that check them and the TLAPS proofs about them.

Paths below are relative to `src/src/`.

## 1. Inventory

| Component | State it keeps | Operations | Talks to |
|---|---|---|---|
| **SFTP transfer queue** (`ui/SftpBrowserTab.cpp` 1623-2467, 2469-3371) | `m_transferQueue`, `m_transferQueueRunning`, the locals of `startTransferQueue`, enabled widgets | queue uploads, downloads, deletes; start, clear finished, retry selected, remove selected | SFTP operations (blocking calls), modal dialogs, the event loop |
| **SFTP operations** (`sftp/SftpProbe.cpp`) | none between calls; one connection per call | list, make folder, delete, download, upload | libssh, host key check, progress callback |
| **File browser panels** (`ui/SftpBrowserTab.cpp` 707-1049) | current paths, the two tables, selections | navigate, refresh, double click | SFTP list, local disk |
| **SSH shell worker** (`ssh/SshShellWorker.cpp`) | pending input bytes, pending window size, stop flag | start, send input, resize, stop | libssh in its thread, the tab by queued signals |
| **Terminal tabs** (`ui/WebTerminalTab.cpp`, `ui/BasicTerminalTab.cpp`, `ui/TerminalBridge.cpp`) | worker and thread pointers, started/active/disconnecting flags | start, send, resize, disconnect, reconnect, close | the worker across threads, JavaScript through the bridge |
| **Main window** (`ui/MainWindow.cpp`) | tabs, session tree, traffic samples | open and close tabs, exit, session menus | every tab, the configuration store, known hosts |
| **Configuration store** (`core/ConfigManager.cpp`) | `dd-ssh.json`, its backups | load, save, import, export, restore, repair, prune | the disk |
| **Known hosts** (`core/KnownHostsManager.cpp`) | the `knownHosts` part of `dd-ssh.json` | check, trust | the disk; the same file as the store |
| **SSH session tests** (`ssh/SshSession.cpp`, `ssh/SshCompatibility.cpp`) | none | handshake test, authentication test | libssh |
| **Dialogs, logging, entry** | none that matters | forms, log lines, start-up | |

What is hard, and what makes each part correct:

* **Transfer queue.** Everything is on the GUI thread, yet handlers interleave:
  `setQueueItemStatus` and `refreshRemoteDirectory` call `processEvents`, so a
  click runs a handler in the middle of `startTransferQueue`. Only widgets that
  are disabled are safe from that, and two functions (`setTransferQueueBusy`,
  `setRemoteBusy`) enable and disable the same widgets. Correct means: one item
  at a time, in order, each ending with one status and one count; nothing
  overwritten or deleted without the user's answer; a stop is a stop; Done is
  true.
* **SFTP operations.** Every request can fail, answers can be lost, other
  programs act between two requests, the user can cancel between two chunks.
  Correct means: a refused overwrite touches nothing, a download replaces its
  target wholly or not at all.
* **Browser panels.** The shown rows and the current path must belong together
  when a row is queued; navigation sets the path before the listing succeeds.
* **Shell worker.** Two threads share two buffers; a stop must be seen, input
  must keep its order across partial writes, the last window size must arrive.
* **Terminal tabs.** Queued signals from a thread that is ending; the worker is
  deleted before the tab forgets it; a reconnect must meet no old worker.
* **Main window.** Tabs closed from inside the calls they are running.
* **Configuration store, known hosts.** Crashes between moving a file aside and
  writing the new one, backups pruned while needed, two writers of one file,
  an unreadable file that looks like an empty one.

`PROJECT.json` lists the hazards line by line, with the properties that cover
them, and says of each of the others why none does.

## 2. Modules

| Module | What it is |
|---|---|
| `FileTree` | External. The local disk as Qt shows it and the server's tree as SFTP shows it: files, folders, symbolic links, and `Torn` for a file whose bytes are no file's. |
| `Rows` | Dropping rows from a list in order. |
| `QueueLifecycle` | Abstract. What the queue promises about statuses, runs and stops, with no files at all. |
| `TransferQueue` | `startTransferQueue`, the editing handlers, the locks and the SFTP calls. Implements `QueueLifecycle`. |
| `FolderScan` | The two scans that turn a folder into queue items, as functions of a tree, with their limits. |
| `ScanReference` | The remote scan as the recursive function the code has, and the assumption that `FolderScan` computes the same. |
| `RemotePanel` | The remote panel's path, rows and selection under handlers nested in one another; queues what `FolderScan` finds. |
| `ConfigContents` | What `dd-ssh.json` holds, and what each save does to a copy of it. |
| `ConfigStore` | The file, its backups, files moved aside and an export; every operation as steps that may fail or be cut short. Extends `ConfigContents`. |
| `HostTrust` | Stored host keys, the user's decisions and the connections that authenticate. |
| `ShellWorker` | The worker of one SSH shell in its thread, and the calls the GUI thread makes on it. |
| `TerminalTab` | A terminal tab over its life: workers come and go, their signals wait in the event queue. Extends `ShellWorker`. |
| `MCTransferQueue`, `MCRemotePanel`, `MCConfigStore`, `MCHostTrust`, `MCTerminalTab` | Small instances; one `.cfg` per run. |
| `TransferQueueProofs`, `...Refines`, `...Safety` | Types and control; the refinement; locks, overwriting, deleting, downloads, stops, Done, the counters. |
| `RemotePanelProofs` | What a folder scan queues; path and rows, order and limits. |
| `HostTrustProofs`, `ConfigStoreProofs` | Where keys and secrets come from; what the files on disk hold. |
| `TerminalTabProofs` | Input, window sizes and the tab's picture of its worker. |
| `Induction` | Induction over numbers, and functions defined by it. |

Definitions commented *Seeded fault* are not used by any specification. Each is
a form that a definition below it could have taken by a plausible mistake, kept
beside it to show that the properties notice.

### How TransferQueue follows the code

`startTransferQueue` is one long call. `pc` is the point where it stands,
`"loop"` meaning that it is not running and the event loop is:

    next -> took -> confirm -> deleting -> marked -> next
                 -> overwrite -> transfer -> probe -> stream -> closed -> marked
                 -> transfer ...            closed -> overwrite (uploads)
                 -> marked (folders)        marked -> askContinue -> next

| Code | Model |
|---|---|
| `for` header, `shouldStopQueue` test (2515-2518) | `Going`, with `PassOver`, `Take`, `EndRun` |
| `setQueueItemStatus` and its counter | `Mark`, `Finish` |
| create local / remote folder (2535-2587) | `CreateLocalDir`, `CreateRemoteDir` |
| deletes with their second confirmation (2590-2710) | `AskDelete`, `ConfirmDelete`, `RefuseDelete`, `DeleteLocal`, `DeleteRemote` |
| download checks and dialog (2712-2778) | `CheckDownload`, `AnswerOverwrite`, `AnswerSkip`, `AnswerCancelQueue` |
| upload loop (2888-3079) | `CheckUpload`, `Settle`, the same answers, `Retrying` |
| `SftpProbe::uploadLocalFile` | `StatTarget`, `OpenUpload`, `EndUpload` |
| `SftpProbe::downloadRemoteFile` | `OpenDownload`, `EndDownload` |
| what follows a status: refresh, "continue?" | `FollowUp`, `AnswerContinue` |
| end of the run and its summary (3086-3118) | `EndRun`, then `FinishRefresh` |
| `setRemoteBusy`, `setTransferQueueBusy` | `locks`, `RemoteFree`, `Locked`, `Unlocked` |
| `refreshRemoteDirectory` outside a run | `Browse`, `FinishRefresh`; `frames` is the stack of suspended calls |
| clear, retry, remove | `ClearFinished`, `RetrySelected`, `RemoveSelected` |

Points worth knowing:

* **`Yields`** are the points of an item where `processEvents` runs with no modal
  dialog up. Of all handlers only Delete local can be reached there, and only
  after a remote refresh of the same run has enabled it. A remote refresh
  started there by the user finds the queue buttons disabled and leaves every
  lock as it was, so it is not a step.
* **The dangling reference.** The run holds `TransferQueueItem &item` (2520)
  across those points. An append made there may move the list; `ref` says
  whether the reference still names the item. Where it does not, reading it is
  undefined behaviour: it may still read right (`ref` stays true), it may read as
  empty strings (`LoseItem` is what the code then does, branch by branch), or the
  program may end (`Crash`).
* **`user`** is a history variable: which items the user approved, confirmed or
  stopped in this run, and which items the run took. The code has no such
  variable; no action reads it.
* **Failures.** Every SFTP request may fail, and may fail after the server has
  acted, when only the answer is lost. A write that was acknowledged is taken as
  stored.
* **Other programs** (`Environment`) change one path at a time, at any point,
  `MaxEnv` times.
* **Numbers.** `i` counts from 1. At the end of a run its locals are set back to
  their initial values, so that the state does not keep what the code forgets.
* `m_sftpTransferActive` and the traffic counters follow from `pc` and are left
  out; so are names, sizes, times and messages.

### How FolderScan and RemotePanel follow the code

| Code (`ui/SftpBrowserTab.cpp`) | Model |
|---|---|
| `addRemoteFolderDownloadToQueue`, recursive | `ScanRemote`: one pass over the folder and all below it, depth first (`RemoteWalks`), given the set of folders whose listing fails |
| the start of each call of it; the body of its loop | `EnterFolder`; `RemoteEntry` |
| `addLocalFolderUploadToQueue` with `QDirIterator` | `ScanLocal` along one of the `LocalWalks` the iterator may take, `LocalEntry` for each entry |
| depth and item limits, the "Scan failed" item | `TooDeep`, `Full`, `Marked` |
| go, up, double click, refresh | `OpenFromEditor`, `GoUp`, `OpenRow`, `RefreshPanel`: each is `GoTo` |
| the listing and what follows it | `ListingArrives`, `ListingFails` |
| `queueSelectedRemoteDownloads`, `queueSelectedUploads` | `QueueDownloads`, `QueueUploads`, then one of `SkipRow`, `TakeFile`, `TakeRemoteFolder`, `TakeLocalFolder` per row, and `EndSelection` |
| `queueSelectedRemoteDeletes` | `QueueDeletes`, one step |
| `startTransferQueue` as far as the panel notices | `Start`, `RunRefreshes`, `FinishRun` |

* **One pass for a recursion.** A call of the remote scan that returns false makes
  every call that waits for it return false, so the recursion stops at the first
  entry that fails, and until then it visits a tree depth first. `ScanRemote`
  says just that, as a recursive function over the walk. `ScanReference`
  keeps the recursion itself (`AddFolder`), and its assumption `PassIsRecursion`
  compares the two: for every folder a row may show and one that is gone, every
  count to start from, every set of folders that cannot be listed, the pass over
  all depth-first walks gives the very scans that the recursion gives over all
  orders in which a server may list its folders. The runs of `MCRemotePanel`
  evaluate it.
* **`calls`** is the program's call stack: a handler that waits in
  `processEvents` is an entry with `waits`, and a click is heard (`Heard`) only
  where the last entry waits. Only the last entry moves. What is *disabled* is
  kept apart in `locks`, since `setRemoteBusy` ends a nested refresh by enabling
  things its caller still needs disabled.
* A row remembers the path of the entry it was listed from; the code joins the
  row's *name* to the path of *now*. `PathOf` is that join. The run `wrong_row`
  shows the difference.
* The limit on items is one per click (`count` goes on from folder to folder),
  and the local scan queues the selected folder itself without looking at it, so
  `WithinLimit` allows one item above the limit per folder of an upload.
* The server's tree does not change here; a listing that fails does what a
  vanished folder would do. Two selections may queue the same thing twice; so
  may the code.

### How ConfigContents and ConfigStore follow the code

| Code | Model |
|---|---|
| `makeSessionId`, `makeUniqueSessionId` | `Ids`, `UniqueId` |
| `saveSessionWithPlainSecret` | `SaveSession` |
| `updateSessionWithOptionalPlainSecret`, with its refusals | `CanUpdate`, `UpdateSession` |
| `deleteSession`, and a secret that is still referred to | `DeleteSession`, `DropUnused` |
| `KnownHostsManager::trustHost`, settings | `TrustHost`, `SaveSettings` |
| the dialogs of `MainWindow` that call them | `SaveNew`, `UpdateExisting`, `CreateCopy`, `EditSession`, `RemoveSession`, `ChangeSettings` |
| `writeRootObject`: backup, prune, `QSaveFile` | `Backup` or `NoBackup`, then `Write` |
| import | `Import`, `Backup`, `Write` |
| `restoreLatestValidBackup`, fresh config | `Restore` or `CreateFresh`, `MoveAside` or `MoveAsideHalf`, `CopyBack` or `Write` |
| export | `Export`, `ClearTarget`, `CopyOut` |

* An operation reads the file and builds the new contents in one step (`Begin`),
  since nothing else runs on the GUI thread meanwhile; `op` then names the file
  operation that comes next. `Stop` may take the place of any of them: an error
  return and the end of the program leave the same files.
* `QSaveFile` replaces a file at once or not at all, and `QFile::copy` leaves no
  half copy under the final name.
* `bak` is in the order of the file times, newest first. Pruning may fail to
  remove what it wants to.
* A secret is its name and a value, as the code stores it; groups, appearance,
  time stamps and metadata are left out.
* An import stores whatever the file holds, if it is a JSON object. So `Imports`
  are any contents: a session may refer to a secret the file lacks, or to none
  at all (`NoRef`), and what the program then does with such a session is in
  the model: it can be deleted, edited with a new secret, or shadowed by a save,
  and an edit that would keep the missing secret is refused (`CanUpdate`).
  Two sessions of one id, ids the program would never make, and secrets under
  names it would never make are left out; so is editing `dd-ssh.json` by hand
  into another JSON object.
* `hosts` is what `known_hosts` has for one host and key type each: a
  fingerprint, which `TrustHost` replaces. How the types of one host live
  together, the older form included, is in `HostTrust`.
* Two things look odd in the model because they are so in the code: saving a new
  session under an id that exists, for another target, replaces the session of
  that id; and if the replaced one had another kind of authentication, its secret
  stays in the file, where deleting the session later does not find it (compare
  `docs/PUBLIC_ALPHA_CHECKLIST.md:75`). `RefsResolve` says nothing of unused
  secrets.

### How HostTrust follows the code

| Code | Model |
|---|---|
| `normalizedKeysForHost`, `checkHost`, `trustHost` | `Normalized`, `Verdict`, `TrustHost` |
| start of a flow, `SshSession::testHandshake` | `Handshake` |
| `MainWindow` between check and connection | `CheckTrusted`, `CheckAndAsk`, `TrustOnce`, `TrustPermanently`, `GiveUp` |
| `verifyConnectedServerHostKey` in every later connection | `Verified`, `Authenticate` |
| `testAuthentication`; shell and SFTP tabs | `TestAuthentication`; `OpenTab`, `TabConnect`, `CloseTab` |
| `createConfigBackupIfNeeded`, before every write | `Backup` |
| the other writers of `known_hosts`: saves of sessions and settings, Import config, Restore latest config backup, the recovery dialog | `SaveConfig`, `ImportConfig`, `RestoreBackup`, `FileRecovered` |

* One host is enough: hosts share nothing but the file. A key is a type and a
  fingerprint; `Unreadable` is what the code stores in the result when libssh
  has no key to give.
* `keys` and `legacy` are this host's part of `dd-ssh.json`, `backups` what the
  valid backups hold of it. Which backup is the newest depends on the settings,
  on pruning and on what became of the others, so a restore may bring back any
  of them (`ConfigStore` says which it chooses); so may the recovery dialog,
  which is offered at the start and when the settings are opened, with the tabs
  left open. A copy that fails, and a fresh config, leave the host with no key.
* Importing asks no question about keys: what the file trusts is trusted from
  then on. `brought` remembers those keys, as `accepted` and `kept` remember
  what was said in the host key dialogs; no action reads these three.
* A flow waits for its handshake in `processEvents`, with no key seen yet; a click
  delivered there runs a whole flow of its own, and the first one goes on as if
  it started after that. A test waits once more before it authenticates
  (`ui/MainWindow.cpp` 2565, 2870), holding only the key it saw; there it is what
  a tab is, and `TabConnect` is its authentication. Imports and restores may
  happen at both points (`Undisturbed`), but not between the comparison of a key
  and the end of the dialog about it.

### How ShellWorker and TerminalTab follow the code

`at` is the point `SshShellWorker::start` has reached:

    connecting -> opening -> loop -> write -> resize -> read -> loop ...
                       any of them -> cleanup -> returned -> gone (deleted)

| Code | Model |
|---|---|
| `sendInput`, `resizePty`, `stop`, under the mutexes | `SendInput`, `ResizePty`, `RequestStop` |
| connect, open, the early returns | `Connect`, `OpenShell`, `FailToOpen` |
| one turn of the loop | `TakeInput`, `WriteSome`, `EndWrite`, `ApplySize`, `ReadUntilDry`; `LeaveLoop` and `Lose` end it |
| `startShell`, `reconnectShell` | `Ready`, `Reconnect` |
| `sendToWorker`, `requestPtyResize`, `disconnectShell` | `Type`, `Resize`, `Disconnect` |
| closing: `MainWindow`'s question, `deleteLater`, the destructor | `RequestClose`, `CancelClose`, `ConfirmClose`, `OnDelete`, `WaitEnds`, `WaitTimesOut` |
| queued slots | `OnConnected`, `OnDisconnected`, `OnFinished`, `OnThreadFinished` |

* Signals of the worker are appended to `events` when emitted and handled by the
  GUI thread in order, some time later; the deletion of a closed tab waits in the
  same queue.
* The worker is deleted when its thread ends, the tab's pointer is cleared when
  the GUI thread handles that. In between the pointer is `Dangling`, and a call
  through it is `Undefined`: nothing happens, or the program ends.
* The two mutexes make each call on the worker one step. A byte of input is its
  place in what was typed, so order and loss are visible.
* What the server prints is not modelled; that it prints is: `ReadUntilDry` is
  the moment the worker finds nothing more to read, and until then it may stay
  at `"read"` for as long as the server likes, whatever the stop flag says.
* `WaitTimesOut` is the end of the destructor's three seconds while the thread
  still runs. It may come where the worker can stay that long: in a call of
  libssh before the shell is open (`Blocking`), and in the read loops. Elsewhere
  the worker tests the stop flag within milliseconds.

## 3. Runs

Every run but `panel`, `wrong_row` and `trust` turns the deadlock check off: the
bounded operations run out, a closed tab does nothing more, a crash ends the
program. In the three others some step is always possible, and a deadlock would
be a handler that cannot return.

| Run | Instance | Checks |
|---|---|---|
| `conflicts` | two uploads and a download onto existing files; 2 items; 1 outside change; 1 suspended call | types, counters, Done is true, overwriting, whole downloads, stops, refinement |
| `deletes` | an upload and a delete on each side; 3 items; 2 suspended calls | one item Running, locks, counters, deleting, stops, refinement |
| `folders` | on each side: create a folder, transfer into it, delete it; any 2 items at a time; 2 outside changes; under `FairSpec` | Done is true, overwriting, deleting, whole downloads, every run ends |
| `panel` | a server with two folders, one too deep to scan, a disk with a folder; depth 1, 3 items per click, 2 handlers on the stack, 2 selections | types, path and rows, order and limits of scans, nothing missed unreported |
| `store` | 1 name and its copy, 2 targets, both kinds of authentication, 2 host keys with 2 fingerprints, an import with its secret and one without; 4 operations, 1 file damaged; 2 backups kept | types, secret references, nothing lost, restore, saves touch what they should |
| `trust` | 2 key types, 2 fingerprints, one key stored in the older form, another in a file that may be imported; 1 change of the host, 1 backup, 1 tab, 1 unreadable file | types, where secrets go, what is stored, what storing keeps |
| `terminal` | 2 window sizes, 3 bytes typed, 2 shells in the tab; under `FairSpec` | types, input order, window size, live worker, reconnect, stop and close |
| `links` | a file and a link to it, both deleted | violates `DoneIsTrue` |
| `locked` | an upload, a local delete | violates `QueueLocked` |
| `wrong_row` | the server of `panel`, one handler, one selection | violates `QueuedIsSelected` |
| `secrets` | 2 names, passwords only, 3 operations, nothing fails | violates `SaveKeepsSecrets` |
| `aborts` | one shell, one byte | violates `NeverAborts` |

Why the bounds are enough.

* Queue: two items of one direction are what "all" decisions and stops need, a
  third of another direction is what must not be affected by them; a retry, or
  Clear finished and queueing again, brings items back, so runs repeat without
  limit although `MaxItems` is small. `MaxFrames` 2 allows a run inside a
  suspended refresh and a refresh inside a run's last refresh. One outside change
  suffices for each check-then-act pair; `folders` has two, so that a folder can
  be replaced and replaced again between a check, an action and its outcome.
* Panel: two handlers on the stack give every pair (a selection inside a listing,
  a listing inside a run, a run inside a scan). The limits are reached with three
  items and two levels; two selections show that the counters of one click do
  not reach the next.
* Store: four operations are two saves, one of which shares a secret by a rename,
  and two more that pull it away, or an import and a restore after them. Two
  backups kept make pruning happen at the third. Of the two imported files one
  has what its session needs; the other has a session without the secret it
  names and one that names none, and three operations are left to edit, delete
  or supply what is missing. Two host keys with two fingerprints tell replacing a
  key from adding one.
* Trust: two types distinguish an additional key from a changed one. The
  host's key changes once between the handshake, the flow's connection and the
  tab's; that any key may be presented first, and that a restore or an import may
  bring another key back any number of times, makes up for a second change. One
  backup at a time is enough for an old key to survive its replacement and
  return. The theorems have none of these bounds.
* Terminal: three bytes are one written, one left over and one typed meanwhile;
  two shells are a reconnect.

### Properties

Transfer queue:

* `TypeOK`; `OneRunning`: no item stays Running; `Tally`: the summary's counters
  are the statuses of the items the run took.
* `LocksFollowRun`: the queue buttons stay disabled through a run's own
  refreshes, and nothing stays disabled afterwards.
* `DoneIsTrue`: at the moment an item becomes Done, the trees are as it asked,
  unless another program interfered. Two kinds of local delete are exceptions: of
  a link whose own target is gone (the finding `links`), and of an item read
  through a dangling reference, which may be marked Done for nothing (a
  consequence of the finding `locked`). The instances that check `DoneIsTrue`
  have no links and queue no local delete during an upload; the theorem
  `DoneMeansDone` shows that there is no third exception.
* `OverwriteOnlyApproved`, `DeleteOnlyConfirmed`, `WholeDownloads`,
  `StopRespected`: action properties over the two trees and the user's answers.
  A file that appeared after the transfer looked is exempt from the first one:
  the code cannot see it.
* `KeepsPromise`: the refinement of `QueueLifecycle`. `RunEnds`: liveness.

Panel and scans:

* `RowsMatchPath`: whatever was clicked during a listing, in the end the path and
  the rows belong together, if the last listing was one.
* `ParentFirst`, `WithinLimit`, `WholeOrReported`: a folder is queued before what
  is in it; one click stays within the limit; a scan that stopped early was
  reported, else every file is queued.

Configuration:

* `RefsResolve`: a session of a stored config, backups and moved files included,
  has its secret, unless it is exactly a session that an imported file brought
  without one. No operation of the program makes a reference dangle.
* `NothingLost`, `RestoreUndoes`: what a call replaces is still on the disk, and
  is what a restore would choose.
* `SaveKeepsTheRest`: a save changes the sessions and host keys its dialog named
  and no others. Replacing a stored key does drop that key; it is the one named.

Host keys:

* `SecretOnlyToAccepted`: a secret reaches only a host whose key the user let pass
  in a dialog, brought in with a file he imported, or had stored, in the file or
  a backup, at the start.
* `StoredOnlyIfTold`: no key is stored, and none is in a backup, but those the user
  told the program to store, imported, or had at the start. A host trusted once
  and a changed key that was refused leave no trace anywhere.
* `TrustKeepsTheRest`: storing a key leaves the keys of other types, the older form
  included.

Terminal:

* `InputInOrder`, `SizeFollows`: what the remote shell gets, across partial
  writes, refused sizes and reconnects.
* `InputReachesWorker`, `ReconnectStarts`: no input goes to a deleted worker, and
  a new shell meets nothing of the old one, its late signals included.
* `StopEnds`, `CloseIsClean`: liveness. Both say of an execution in which the worker
  is out of its read loops again and again that a stop, and a close, get through;
  what the loops do otherwise is the finding `aborts`.

### Fairness

`TransferQueue!FairSpec` asks for weak fairness of `Step` (the code goes on:
libssh calls have a ten-second timeout, reads and writes end) and of `Answer` (a
modal dialog is answered some day, in any way). Nothing is asked of `Click` or
`Environment`. `RunEnds` then holds because an upload's second round carries the
permission and so cannot be refused again, although its target may come and go;
and because appends made during a run are bounded by `MaxItems`: a user who
queues deletes for ever keeps a run going for ever.

`TerminalTab!FairSpec` asks for weak fairness of `Handled` (the GUI thread handles
its events, and a wait that can end ends), of `Thread`, and of `Worker` at every
point but `"read"`: the operating system runs both threads, and a blocking libssh
call returns within its time limit. Nothing is assumed of the read loops
(`ssh/SshShellWorker.cpp` 643-667, 674-698), which look neither at the stop flag
nor at pending input: how long the worker stays there is up to the server, and
under a command that prints without a pause it stays for ever. `StopEnds` and
`CloseIsClean` therefore have `[]<>(at # "read")` as their premise (or, in the second,
that the program has ended meanwhile), and
`CloseIsClean` still allows the program to end where a pause comes later than the
three seconds of the destructor. It starts from an open shell, because before
that a call of libssh may outlast the three seconds as well (`aborts`). Nothing is
asked of the user's clicks, or of `WaitTimesOut`.

### Findings

* `locked`: `setRemoteBusy(false)` enables Delete local in the middle of a run,
  and its handler does not check for a run. `docs/TESTCASE_0.1.8.0.4.md` rules
  that out. The same append is what makes the item reference dangle.
* `links`: a symbolic link whose target is gone is reported deleted and is still
  there.
* `wrong_row`: Delete remote stays enabled while a folder loads, and a failed
  listing leaves the old rows under the new path; a selected row then stands for
  an entry of the same name in another folder. The confirmation that comes
  before the delete counts files and folders and does not name them.
* `secrets`: a session renamed with its secret kept goes on using the secret
  named after its old id; a new session that takes the old id overwrites it.
* `aborts`: closing a tab while its worker is in a libssh call, or reads output that
  does not pause, destroys a thread that still runs.

## 4. Proofs

Theorems hold for every value of the constants that satisfies the modules'
assumptions; the bounds on items, clicks, operations and changes play no part.

**Transfer queue** (`TreeAssumption`, `QueueAssumption`: paths of the two sides
are disjoint, jobs name paths of the right side, the first trees are well formed).

* `TypeCorrect` (`TypeOK`). Inductive with `Placed`: at a point inside an item
  the loop index is a row of the queue. Without it `queue[i]` need not exist.
* `OneAtATime` (`OneRunning`). Inductive as `ControlInv`: a run is under way
  exactly when `pc` is not `"loop"` (`RunPoint`); the item at hand is Running
  until it ends (`AtWork`); the code's stop flag is the user's word, and nothing
  goes on inside an item once it is set (`StopKnown`); a run that is not to stop
  leaves nothing Pending behind it (`Behind`).
* `Refinement` (`KeepsPromise`). Steps map to steps of `QueueLifecycle` or to
  stutters under `ControlInv`; `Behind` gives "in order" and "nothing left
  Pending", `StopKnown` gives the stop.
* `LocksSafe` (`LocksFollowRun`), over `ControlInv`.
* `Overwriting`, `Deleting`, `WholeOrNothing`, `Stopping`. Lemmas
  `LocalChanges` and `RemoteChanges` say by which steps a path of either tree
  can change; `WordInv` says that each point from which such a step is taken has
  the answer it needs behind it.
* `Counting` (`Tally`). `TallyInv` adds that the run took items up to the
  current one only, and that the current one is not counted before it ends.
* `DoneMeansDone` (`DoneIsTrue \/ Excused`) and `DoneTransfersAreTrue`
  (`DoneIsTrue`, for jobs without local deletes). `DoneInv` is about the times
  before any other program acts: while bytes are written, what has been read is
  the source's content, and an upload's target is `Torn`; when a call has
  returned well, its item is `Achieved`. `Excused` is the two exceptions the
  findings describe, both of local deletes, so a queue without those has none.

**Remote panel and folder scans** (`ScanAssumption`: in both trees only folders
hold entries; `PanelAssumption`). No bound on trees, depth, items, calls or
clicks plays a part.

* What a scan queues is an induction over its walk, which `Induction` provides:
  lemma `LeastNumber` from the library's theorem that the finite subsets of a set
  are well founded, `Climb` from that (what holds of 0 and is handed on holds up
  to n, said of a set of numbers), and `Iteration`, that a function defined
  number by number exists. `WalkOn` hands on the invariant of a walk (`Walked`)
  from one entry to the next: what is queued has its folder in front of it, the
  count is within the limit, and as long as the scan goes on every entry visited
  that had to be queued is queued. `RemoteScan` and `LocalScan` state what
  follows for whole scans.
* `PanelKept` proves `PanelInv`: the types (`TypeInv`); for every handler on the
  stack what it has counted and scanned so far (`Stack`, `Handler`), which
  includes that a selection of local rows meets each row once, else the limit
  would not hold; path and rows agree unless a listing is under way on *some*
  level of the stack (`Matches`), since a nested listing that returns leaves its
  callers' requests to come; and `ParentFirst`. `PanelTypes` (`TypeOK`),
  `RowsFollowPath` (`RowsMatchPath`), `FoldersComeFirst` (`ParentFirst`), `LimitKept`
  (`WithinLimit`) and `StoppedScansAreReported` (`WholeOrReported`) follow.

**Host keys** (`HostTrustProofs`). `SecretsSafe` and `StoreSafe`
(`SecretOnlyToAccepted`, `StoredOnlyIfTold`) use none of `TrustAssumption`: the
keys stored at the start, the backups there were and the files a user may import
are arbitrary. They rest on `OriginsKept`: a key in the file or in a backup was
told, brought or there at the start; what was told was accepted; and the key a
flow carries to its connection, and every tab's expectation, was accepted,
brought or there at the start. The last two are the strengthening: a tab
authenticates long after its flow is over and after the file may have been
replaced, so the statement about `sentTo` alone says nothing of what the tab will
accept; and without the backups a restore could bring in any key (lemmas
`BackupOrigins`, `TrustHostOrigins`). `TrustTypes` (`TypeOK`) needs that the older
form holds one key at most (lemma `TrustHostType`), without which turning it into
the new form could give a type two keys; that the first store, the backups and
the imports are such stores is its only assumption. `TrustSparesTheRest`
(`TrustKeepsTheRest`) looks at the steps that store.

**Configuration** (`ConfigStoreProofs`, from `ContentsAssumption` and
`StoreAssumption`, which asks of an import only that it is contents). `StoreKept` proves the invariant `StoreInv`: every stored config and
what a call is about to write are `Good`, which is that each session is
`Explained`, by its secret or by an import that brought it as it is; before a
write the file to be replaced is the newest backup, unless backups are off, and
where a restore copies back there is no file (`Saved`); and until a save
writes, the file is what it read, so that what it writes keeps the rest of it
(`Saving`). `SaveSessionGood`, `UpdateSessionGood`, `DeleteSessionGood` and
`OtherSavesGood` say that each save is `Good` again and leaves the sessions and
host keys it does not name; they share `StaysGood`, that it is enough if each
session has its secret or is one that already lacked it, so a save may neither
take a secret away nor move a dangling reference to another session.
`UniqueIdIsFree` says that `makeUniqueSessionId` finds an id nobody has while
there is one, `BackupLists` that a pruned list still starts with the newest
backup. `RefsSafe` (`RefsResolve`), `NothingIsLost` (`NothingLost`),
`RestoreGetsItBack` (`RestoreUndoes`), `StoreTypes` (`TypeOK`) and
`SaveSparesTheRest` (`SaveKeepsTheRest`) follow: the action properties look one
step ahead of what `Saved` and `Saving` remember.

**Terminal** (`TerminalTabProofs`; any sizes, input and number of shells).

* `TabTypes` (`TypeOK`). The queue of signals keeps its type because deletion and
  every handler only take from its front.
* `InputArrivesInOrder` (`InputInOrder`). `InputInv` extends the split of the input
  into sent, taken and pending to the points before the loop, where a window
  already accepts input, and says that only a write has taken any.
* `InputHasAWorker` (`InputReachesWorker`) and `ReconnectIsClean`
  (`ReconnectStarts`). `TabInv`: for each point of the worker, which signals may
  still wait (`Waiting`), and what the tab must believe given them (`Picture`).
  Neither property says anything of signals under way, yet each depends on them:
  Reconnect is offered by the slot of one signal and the pointer cleared by the
  slot of the next.
* `SizeIsFollowed` (`SizeFollows`). `SizeInv`: a size that waits is the last one,
  and before the shell is open it always waits.

**Model-checked only.** `RunEnds`, `StopEnds`, `CloseIsClean`: liveness is out of
the prover's reach. `PassIsRecursion`: the prover takes no `RECURSIVE`
operator, so TLC compares pass and recursion on the trees of the runs, and the
theorems are about the pass. Every other property of the passing runs is a
theorem. Each inductive invariant was checked by TLC on the instance of its run
before it was proved.

## 5. Not modelled

* The single-file upload, download and make-folder handlers behind buttons the
  program hides (`ui/SftpBrowserTab.cpp` 1050-1620); the queue replaced them.
* Closing an SFTP tab while its queue runs, from the events the run processes.
  What happens depends on when Qt carries out a deferred deletion that was asked
  for inside a nested event loop; a model would only state a guess of that rule.
* Sorting a table by a click on its header, and changing the local folder: rows
  of `RemotePanel` change by listings only, its local folder is fixed.
* Leaving the program with several tabs open: it asks once, requests disconnect
  on each and destroys the tabs one after the other; what one of them then does
  is what `TerminalTab` says from `ConfirmClose` on.
* `BasicTerminalTab`: the same calls, signals and destructor as
  `WebTerminalTab`, with a plain text widget.
* What an imported or hand-edited `dd-ssh.json` may hold beyond `Imports` of the
  modules: several sessions of one id, ids and names of secrets the program does
  not make, values of the wrong JSON type (read as absent).
* Two instances of the program, which share `dd-ssh.json` without a lock and can
  lose each other's saves.
* Session groups, appearance, time stamps, byte counts, traffic rates, texts of
  errors; `SshCompatibility`'s choice of algorithms; rendering, menus, the layout
  of dialogs, the terminal page, logging, program entry, packaging. libssh and Qt
  are external: models of them say only what the code relies on.

## 6. Plan

Every component that carries the program's logic has its module, and every
safety property its proof. What could come next, in order:

* An abstract specification of the store (the current config and those that
  can be brought back), implemented by `ConfigStore`; `NothingLost` and
  `RestoreUndoes` would be consequences of it.
* The relation of pass and recursion in `FolderScan` as a theorem, with the
  recursion stated as a function over depths.
* The hazards without a property (`PROJECT.json` says why each has none),
  closing a tab under its running queue first, once Qt's rule for deferred
  deletions inside nested event loops is settled.
