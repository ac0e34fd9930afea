------------------------------ MODULE HostTrust ------------------------------
(***************************************************************************)
(* Host keys: what KnownHostsManager stores for one host, what the user    *)
(* decides, and where a password or private key is sent.                   *)
(*                                                                         *)
(* A flow of MainWindow makes a first connection to read the host's key    *)
(* (SshSession::testHandshake), compares it with the stored keys, asks the *)
(* user, and only then makes the connections that authenticate: one at     *)
(* once for a test, later ones from the tab it opens for a shell or for    *)
(* SFTP, as often as the tab reconnects.  Each of these reads the key      *)
(* again.  The host may present another key at every connection.           *)
(*                                                                         *)
(* A click delivered by the processEvents before the first connection runs *)
(* a whole flow before this one has seen a key, so flows follow each other. *)
(* One delivered before the authentication of a test leaves that test its  *)
(* key and nothing else, which is what a tab has: it does as a tab does.   *)
(*                                                                         *)
(* The keys live in dd-ssh.json, and so in its backups.  Importing another *)
(* file or restoring a backup replaces them all, in the running program    *)
(* and without a dialog about any key; ConfigStore has how that is done.   *)
(***************************************************************************)
EXTENDS FiniteSets, Naturals

CONSTANTS
  Types,      \* host key algorithms
  Prints,     \* fingerprints
  Unreadable, \* stands for the texts put in place of a key libssh cannot give
  Stored0,    \* the keys stored at the start, in the "keys" object
  Legacy0,    \* a key stored in the older single-key form, at most one
  Backups0,   \* what the backups at the start hold of the host
  Imports,    \* what the files a user may import hold of the host
  MaxBackups, \* bound: backups with different keys
  MaxChanges, \* bound: changes of the host's key
  MaxTabs,    \* bound: tabs opened
  MaxDamage   \* bound: times dd-ssh.json becomes unreadable

Key  == [type : Types, print : Prints]
Keys == Key \cup {Unreadable}

\* What one file holds of the host: the "keys" object has one key of a type,
\* the older form has at most one key.
OneOfEach(ks) == \A j, k \in ks : j.type = k.type => j = k
AtMostOne(ks) == \A j, k \in ks : j = k
Stores == {s \in [keys : SUBSET Keys, legacy : SUBSET Keys] :
             OneOfEach(s.keys) /\ AtMostOne(s.legacy)}
Empty == [keys |-> {}, legacy |-> {}]
Held(s) == s.keys \cup s.legacy

ASSUME TrustAssumption ==
  /\ [keys |-> Stored0, legacy |-> Legacy0] \in Stores
  /\ Backups0 \subseteq Stores /\ Imports \subseteq Stores /\ MaxBackups \in Nat
  /\ Unreadable \notin Key /\ Unreadable.type \notin Types
  /\ MaxChanges \in Nat /\ MaxTabs \in Nat /\ MaxDamage \in Nat

VARIABLES
  server,    \* the key the host presents
  keys,      \* known_hosts: the "keys" object of the host
  legacy,    \* known_hosts: the older "algorithm" and "fingerprint"
  readable,  \* is dd-ssh.json a JSON object
  backups,   \* what its valid backups hold of the host
  flow,      \* the flow in progress: its step and the key it saw
  tabs,      \* the expectations open tabs were given
  changes, damage,
  accepted,  \* history: keys the user let pass in a dialog
  kept,      \* history: keys the user told the program to store
  brought,   \* history: keys that came with a file the user imported
  sentTo     \* history: keys a secret was sent to

vars == <<server, keys, legacy, readable, backups, flow, tabs, changes, damage,
          accepted, kept, brought, sentTo>>
known == <<keys, legacy, readable, backups>>
world == <<server, changes, damage>>
words == <<accepted, kept, brought>>

Steps == {"idle", "check", "asked", "connect"}
NoFlow == [step |-> "idle", seen |-> Unreadable]

Init ==
  /\ server \in Key
  /\ keys = Stored0 /\ legacy = Legacy0 /\ readable = TRUE /\ backups = Backups0
  /\ flow = NoFlow /\ tabs = {} /\ changes = 0 /\ damage = 0
  /\ accepted = {} /\ kept = {} /\ brought = {} /\ sentTo = {}
-----------------------------------------------------------------------------
(***************************************************************************)
(* KnownHostsManager.                                                      *)
(***************************************************************************)

OfType(ks, t) == {k \in ks : k.type = t}

\* Seeded fault: the older form is forgotten.
NewFormOnly(ks, old) == ks

\* normalizedKeysForHost: an older key counts unless its type is stored.
Normalized(ks, old) == ks \cup {k \in old : OfType(ks, k.type) = {}}

\* Seeded fault: a stored key of the type is enough.
TypeIsEnough(seen) ==
  LET ks == IF readable THEN Normalized(keys, legacy) ELSE {}
  IN IF OfType(ks, seen.type) # {} THEN "Trusted"
     ELSE IF ks = {} THEN "Unknown" ELSE "AdditionalKeyType"

\* checkHost: a file that cannot be read is one that stores nothing.
Verdict(seen) ==
  LET ks == IF readable THEN Normalized(keys, legacy) ELSE {}
  IN CASE seen \in ks                  -> "Trusted"
       [] ks = {}                      -> "Unknown"
       [] OfType(ks, seen.type) # {}   -> "Changed"
       [] OTHER                        -> "AdditionalKeyType"

\* Before a write the file is copied, if the settings say so, and old copies are
\* pruned; any copy may be damaged later.  So any of the copies made so far may be
\* what is left, and be the newest.
Backup ==
  \E left \in SUBSET (backups \cup {[keys |-> keys, legacy |-> legacy]}) :
    Cardinality(left) <= MaxBackups /\ backups' = left

\* Seeded fault: the key it replaces stays.
AddKey(k) ==
  /\ readable /\ Backup
  /\ keys' = Normalized(keys, legacy) \cup {k}
  /\ legacy' = {}
  /\ UNCHANGED readable

\* trustHost: the key replaces the one of its type, the older form is
\* rewritten.  It refuses a file that is no JSON object.
TrustHost(k) ==
  /\ readable /\ Backup
  /\ LET all == Normalized(keys, legacy)
     IN keys' = (all \ OfType(all, k.type)) \cup {k}
  /\ legacy' = {}
  /\ UNCHANGED readable
-----------------------------------------------------------------------------
(***************************************************************************)
(* The flows of MainWindow.                                                *)
(***************************************************************************)

\* A new connection, a test, a shell or SFTP: they differ in how they end.
\* testHandshake succeeds once connected, even if the key cannot be read; until
\* then the flow holds nothing.
Handshake ==
  /\ flow = NoFlow
  /\ \E seen \in {server, Unreadable} : flow' = [step |-> "check", seen |-> seen]
  /\ UNCHANGED <<known, tabs, world, words, sentTo>>

\* checkHost, and at once trustHost for a key that is stored; that this call
\* may fail is only reported.
CheckTrusted ==
  /\ flow.step = "check" /\ Verdict(flow.seen) = "Trusted"
  /\ flow' = [flow EXCEPT !.step = "connect"]
  /\ TrustHost(flow.seen) \/ UNCHANGED known
  /\ UNCHANGED <<tabs, world, words, sentTo>>

CheckAndAsk ==
  /\ flow.step = "check" /\ Verdict(flow.seen) # "Trusted"
  /\ flow' = [flow EXCEPT !.step = "asked"]
  /\ UNCHANGED <<known, tabs, world, words, sentTo>>

TrustOnce ==
  /\ flow.step = "asked"
  /\ flow' = [flow EXCEPT !.step = "connect"]
  /\ accepted' = accepted \cup {flow.seen}
  /\ UNCHANGED <<known, tabs, world, kept, brought, sentTo>>

\* Trust permanently, Trust additional key, Replace stored key.
TrustPermanently ==
  /\ flow.step = "asked"
  /\ TrustHost(flow.seen)
  /\ flow' = [flow EXCEPT !.step = "connect"]
  /\ accepted' = accepted \cup {flow.seen}
  /\ kept' = kept \cup {flow.seen}
  /\ UNCHANGED <<tabs, world, brought, sentTo>>

\* A connection or a save that fails, Cancel in the dialog.
GiveUp ==
  /\ flow.step \in {"asked", "connect"} /\ flow' = NoFlow
  /\ UNCHANGED <<known, tabs, world, words, sentTo>>

\* Seeded fault: the key of this connection is not compared.
NotCompared(expected) == server

\* verifyConnectedServerHostKey before an authentication: the key read on
\* this connection has the type and the fingerprint of the expectation.
Verified(expected) == IF server = expected THEN server ELSE Unreadable

Authenticate(expected) ==
  /\ Verified(expected) # Unreadable
  /\ sentTo' = sentTo \cup {Verified(expected)}

\* testAuthentication; for a new connection the session may now be saved.
TestAuthentication ==
  /\ flow.step = "connect"
  /\ Authenticate(flow.seen)
  /\ flow' = NoFlow
  /\ UNCHANGED <<known, tabs, world, words>>

OpenTab ==
  /\ flow.step = "connect"
  /\ Cardinality(tabs) < MaxTabs
  /\ tabs' = tabs \cup {flow.seen}
  /\ flow' = NoFlow
  /\ UNCHANGED <<known, world, words, sentTo>>

\* A shell that starts or reconnects, or one call of SftpProbe.
TabConnect ==
  /\ \E expected \in tabs : Authenticate(expected)
  /\ UNCHANGED <<known, flow, tabs, world, words>>

CloseTab ==
  /\ \E k \in tabs : tabs' = tabs \ {k}
  /\ UNCHANGED <<known, flow, world, words, sentTo>>
-----------------------------------------------------------------------------
\* The host is reinstalled, or another one answers.
HostChanges ==
  /\ changes < MaxChanges /\ changes' = changes + 1
  /\ server' \in Key \ {server}
  /\ UNCHANGED <<known, flow, tabs, damage, words, sentTo>>

FileDamaged ==
  /\ readable /\ damage < MaxDamage /\ damage' = damage + 1
  /\ readable' = FALSE
  /\ UNCHANGED <<server, changes, keys, legacy, backups, flow, tabs, words, sentTo>>
-----------------------------------------------------------------------------
(***************************************************************************)
(* What else the user does to dd-ssh.json, between two flows or from a     *)
(* processEvents of one: while a key is compared nothing else runs, and    *)
(* the dialog about it is modal.                                           *)
(***************************************************************************)

Undisturbed == flow.step \notin {"check", "asked"}

Replace(s) == keys' = s.keys /\ legacy' = s.legacy /\ readable' = TRUE

\* A session or the settings are saved: the host's keys stay as they are.
SaveConfig ==
  /\ readable /\ Undisturbed /\ Backup
  /\ UNCHANGED <<keys, legacy, readable, flow, tabs, world, words, sentTo>>

\* Import config: any JSON object.  Only a readable dd-ssh.json is replaced.
ImportConfig ==
  /\ readable /\ Undisturbed /\ Backup
  /\ \E s \in Imports : Replace(s) /\ brought' = brought \cup Held(s)
  /\ UNCHANGED <<flow, tabs, world, accepted, kept, sentTo>>

\* Restore latest config backup, from the menu; the current file is moved aside
\* first, and nothing is left if the backup then cannot be copied.
RestoreBackup ==
  /\ readable /\ Undisturbed /\ backups # {}
  /\ \E s \in backups \cup {Empty} : Replace(s)
  /\ UNCHANGED <<backups, flow, tabs, world, words, sentTo>>

\* The recovery dialog, at the start or when the settings are opened: the keys
\* of a backup, or none in a fresh file or after a copy that failed.
FileRecovered ==
  /\ ~readable /\ Undisturbed
  /\ \E s \in backups \cup {Empty} : Replace(s)
  /\ UNCHANGED <<backups, flow, tabs, world, words, sentTo>>

Ask == \/ Handshake \/ CheckTrusted \/ CheckAndAsk
       \/ TrustOnce \/ TrustPermanently \/ GiveUp
Use == TestAuthentication \/ OpenTab \/ TabConnect \/ CloseTab
File == SaveConfig \/ ImportConfig \/ RestoreBackup \/ FileRecovered
World == HostChanges \/ FileDamaged

Next == Ask \/ Use \/ File \/ World
Spec == Init /\ [][Next]_vars
-----------------------------------------------------------------------------
(***************************************************************************)
(* Properties.                                                             *)
(***************************************************************************)

\* Keys, stores and steps are what they should be, one stored key per type.
TypeOK ==
  /\ server \in Key /\ readable \in BOOLEAN
  /\ [keys |-> keys, legacy |-> legacy] \in Stores /\ backups \subseteq Stores
  /\ flow \in [step : Steps, seen : Keys]
  /\ tabs \subseteq Keys /\ accepted \subseteq Keys /\ kept \subseteq Keys
  /\ brought \subseteq Keys /\ sentTo \subseteq Key
  /\ changes \in 0..MaxChanges /\ damage \in 0..MaxDamage

\* The keys that were there from the start, in the file or in a backup.
First == Stored0 \cup Legacy0 \cup UNION {Held(s) : s \in Backups0}

\* However the host's key changes between the connections of a flow or the
\* reconnects of a tab, and whatever file is imported, restored or recovered
\* meanwhile, a secret only ever reaches a host whose key the user let pass in a
\* dialog, brought in with a file he imported, or had stored at the start.
SecretOnlyToAccepted == sentTo \subseteq accepted \cup brought \cup First

\* No key is stored, and none is in a backup that may be restored, but those the
\* user told the program to store, imported, or had at the start: Trust once and
\* a key that changed leave no trace.
StoredOnlyIfTold ==
  keys \cup legacy \cup UNION {Held(s) : s \in backups} \subseteq kept \cup brought \cup First

\* Storing a key changes no key of another type, one in the older form included,
\* although trustHost rewrites the host's whole entry.
TrustKeepsTheRest ==
  [][~Undisturbed /\ readable /\ keys' # keys
       => \A k \in keys \cup {old \in legacy : OfType(keys, old.type) = {}} :
            k.type # flow.seen.type => k \in keys' \cup legacy']_vars
=============================================================================
