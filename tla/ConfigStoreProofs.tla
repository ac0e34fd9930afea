-------------------------- MODULE ConfigStoreProofs --------------------------
(***************************************************************************)
(* Theorems about ConfigStore for any names, secrets, hosts and imports,   *)
(* however many operations are started and however many files damaged.     *)
(***************************************************************************)
EXTENDS ConfigStore, Induction, SequenceTheorems, TLAPS

\* A session has its secret, or came without one in an imported file.
Explained(c, id) ==
  \/ HasSecret(c, id)
  \/ \E i \in Imports : /\ id \in DOMAIN i.sessions /\ ~HasSecret(i, id)
                       /\ i.sessions[id] = c.sessions[id]

Good(c) == IsContents(c) /\ \A id \in DOMAIN c.sessions : Explained(c, id)

\* What a call is about to write is as good as what is stored.
AllGood == \A c \in Stored \cup {op.new} : Good(c)

BackupList ==
  /\ bak \in Seq(Range(bak))
  /\ Missing \notin Range(bak)

\* The points of a call, and what has been saved from being overwritten there:
\* before a write the newest backup is the file, unless backups are off, and
\* where a restore copies back there is no file.
Saved ==
  /\ op \in [kind : Kinds \cup {"idle"}, step : Steps \cup {"idle"},
             new : {op.new}, touched : {op.touched}]
  /\ op.step = "backup" => op.kind \in {"save", "import"} /\ file # Bad
  /\ op.step = "copyBack" => file = Missing
  /\ op.step = "write" =>
       CASE op.kind = "fresh" -> file = Missing
         [] op.kind \in {"save", "import"} ->
              /\ file # Bad
              /\ NeedsBackup => bak # <<>> /\ bak[1] = file
         [] OTHER -> FALSE

\* The config a save is about to write keeps what the save does not name.
KeepsTheRest(old, new, touched) ==
  /\ \A h \in DOMAIN old.hosts \ touched :
       h \in DOMAIN new.hosts /\ new.hosts[h] = old.hosts[h]
  /\ \A id \in DOMAIN old.sessions \ touched :
       id \in DOMAIN new.sessions /\ new.sessions[id] = old.sessions[id]

\* During a save the file stays what the save read.
Saving ==
  op.kind = "save" =>
    /\ op.step \in {"backup", "write"}
    /\ file # Missing => KeepsTheRest(file, op.new, op.touched)

Counted == op.touched \subseteq Ids \cup Hosts /\ ops \in 0..MaxOps /\ damage \in 0..MaxDamage

StoreInv == AllGood /\ BackupList /\ Saved /\ Saving /\ Counted
-----------------------------------------------------------------------------
\* makeUniqueSessionId: where an id is free, the one it takes is.
LEMMA UniqueIdIsFree ==
  ASSUME NEW c, NEW id \in Ids, FreeCopies(c, id) # {}
  PROVE  UniqueId(c, id) \in Ids /\ UniqueId(c, id) \notin DOMAIN c.sessions
<1> DEFINE free == FreeCopies(c, id)
<1>1. id[1] \in Names /\ id[2] \in Nat
  BY ContentsAssumption DEF Ids
<1>2. /\ free \in SUBSET Nat
      /\ \A k \in free : k \in 0..MaxCopies /\ <<id[1], k>> \notin DOMAIN c.sessions
  BY <1>1, ContentsAssumption DEF FreeCopies
<1>3. PICK m \in free : \A j \in free : m <= j
  <2> HIDE DEF free
  <2>1. free # {}
    BY DEF free
  <2>2. QED
    BY <1>2, <2>1, LeastNumber
<1>4. (CHOOSE k \in free : \A j \in free : k <= j) \in free
  BY <1>3
<1> DEFINE first == CHOOSE k \in free : \A j \in free : k <= j
<1>5. first \in free
  BY <1>4
<1>6. UniqueId(c, id) = <<id[1], first>>
  BY DEF UniqueId
<1> HIDE DEF first
<1>7. first \in 0..MaxCopies /\ <<id[1], first>> \notin DOMAIN c.sessions
  BY <1>2, <1>5
<1>8. QED
  BY <1>1, <1>6, <1>7 DEF Ids

\* What makes a changed config as good as it was: each session in it has its
\* secret, or is one the config had and lacked the secret of.
LEMMA StaysGood ==
  ASSUME NEW c, Good(c), NEW new, IsContents(new),
         \A id \in DOMAIN new.sessions :
           \/ HasSecret(new, id)
           \/ /\ id \in DOMAIN c.sessions /\ new.sessions[id] = c.sessions[id]
              /\ ~HasSecret(c, id)
  PROVE  Good(new)
BY DEF Good, Explained

\* saveSessionWithPlainSecret: the config stays one, the secret is stored with
\* its session, and the other sessions stay.
LEMMA SaveSessionGood ==
  ASSUME NEW c, Good(c), NEW id \in Ids, NEW target \in Targets, NEW auth \in Auths,
         NEW secret \in Values
  PROVE  /\ Good(SaveSession(c, id, target, auth, secret))
         /\ KeepsTheRest(c, SaveSession(c, id, target, auth, secret), {id})
         /\ id \notin DOMAIN c.sessions
              => KeepsTheRest(c, SaveSession(c, id, target, auth, secret), {})
<1> DEFINE entry    == [target |-> target, auth |-> auth, ref |-> RefOf(id, auth)]
           sessions == Put(c.sessions, id, entry)
           secrets  == Put(c.secrets, RefOf(id, auth), secret)
           new      == SaveSession(c, id, target, auth, secret)
<1>1. new = [c EXCEPT !.sessions = sessions, !.secrets = secrets]
  BY DEF SaveSession, Good, IsContents
<1>2. entry \in Session /\ RefOf(id, auth) \in Refs
  BY DEF Session, RefOf, Refs
<1>3. /\ DOMAIN sessions = DOMAIN c.sessions \cup {id}
      /\ \A x \in DOMAIN sessions : sessions[x] = IF x = id THEN entry ELSE c.sessions[x]
      /\ DOMAIN secrets = DOMAIN c.secrets \cup {RefOf(id, auth)}
      /\ \A r \in DOMAIN secrets :
           secrets[r] = IF r = RefOf(id, auth) THEN secret ELSE c.secrets[r]
  BY DEF Put
<1>4. entry.ref = RefOf(id, auth) /\ entry.auth = auth
  OBVIOUS
<1> HIDE DEF sessions, secrets, new, entry
<1>5. /\ DOMAIN new = DOMAIN c /\ new.sessions = sessions /\ new.secrets = secrets
      /\ new.hosts = c.hosts /\ new.keep = c.keep
  BY <1>1 DEF Good, IsContents
<1>6. IsContents(new)
  BY <1>2, <1>3, <1>5 DEF Good, IsContents
<1>7. \A x \in DOMAIN new.sessions :
        \/ HasSecret(new, x)
        \/ x \in DOMAIN c.sessions /\ new.sessions[x] = c.sessions[x] /\ ~HasSecret(c, x)
  BY <1>3, <1>4, <1>5 DEF HasSecret
<1>8. Good(new)
  BY <1>6, <1>7, StaysGood
<1>9. QED
  BY <1>3, <1>5, <1>8 DEF KeepsTheRest, new

\* updateSessionWithOptionalPlainSecret: the secret a session refers to is
\* stored after the old one is dropped, and the other sessions stay.
LEMMA UpdateSessionGood ==
  ASSUME NEW c, Good(c), NEW old, NEW id \in Ids, NEW target \in Targets, NEW auth \in Auths,
         NEW replace \in BOOLEAN, NEW secret \in Values, CanUpdate(c, old, id, auth, replace)
  PROVE  /\ Good(UpdateSession(c, old, id, target, auth, replace, secret))
         /\ KeepsTheRest(c, UpdateSession(c, old, id, target, auth, replace, secret), {old, id})
<1> DEFINE was      == c.sessions[old].ref
           ref      == IF replace THEN RefOf(id, auth) ELSE was
           entry    == [target |-> target, auth |-> auth, ref |-> ref]
           sessions == Put(Drop(c.sessions, old), id, entry)
           secrets  == IF replace THEN Put(c.secrets, ref, secret) ELSE c.secrets
           kept     == IF ref = was THEN secrets ELSE DropUnused(secrets, was, sessions)
           new      == UpdateSession(c, old, id, target, auth, replace, secret)
<1>1. new = [c EXCEPT !.sessions = sessions, !.secrets = kept]
  BY DEF UpdateSession
<1>2. /\ DOMAIN sessions = (DOMAIN c.sessions \ {old}) \cup {id}
      /\ \A x \in DOMAIN sessions : sessions[x] = IF x = id THEN entry ELSE c.sessions[x]
  BY DEF Put, Drop, Restrict
<1>3. old \in DOMAIN c.sessions /\ (~replace => was \in DOMAIN c.secrets)
      /\ DOMAIN c.secrets \subseteq Refs
  BY DEF CanUpdate, Good, IsContents
<1>4. ref \in Refs
  <2>1. RefOf(id, auth) \in Refs
    BY DEF RefOf, Refs
  <2>2. QED
    BY <2>1, <1>3
<1>5. entry \in Session /\ entry.ref = ref /\ entry.auth = auth
  BY <1>4 DEF Session
<1>6. /\ DOMAIN secrets = DOMAIN c.secrets \cup {ref}
      /\ \A r \in DOMAIN secrets :
           \/ secrets[r] = secret
           \/ r \in DOMAIN c.secrets /\ secrets[r] = c.secrets[r]
  <2>1. CASE replace
    <3>1. secrets = Put(c.secrets, ref, secret)
      BY <2>1
    <3> HIDE DEF secrets, ref
    <3>2. QED
      BY <3>1 DEF Put
  <2>2. CASE ~replace
    BY <2>2, <1>3
  <2>3. QED
    BY <2>1, <2>2
<1>7. /\ DOMAIN kept \subseteq DOMAIN secrets
      /\ \A r \in DOMAIN kept : kept[r] = secrets[r]
      /\ \A r \in DOMAIN secrets : r \in Referenced(sessions) \/ r # was => r \in DOMAIN kept
  BY DEF DropUnused, Drop, Restrict
<1> HIDE DEF was, ref, entry, sessions, secrets, kept, new
<1>8. /\ DOMAIN new = DOMAIN c /\ new.sessions = sessions /\ new.secrets = kept
      /\ new.hosts = c.hosts /\ new.keep = c.keep
  BY <1>1 DEF Good, IsContents
<1>9. IsContents(new)
  <2>1. DOMAIN sessions \subseteq Ids /\ \A x \in DOMAIN sessions : sessions[x] \in Session
    BY <1>2, <1>5 DEF Good, IsContents
  <2>2. DOMAIN kept \subseteq Refs /\ \A r \in DOMAIN kept : kept[r] \in Values
    BY <1>4, <1>6, <1>7 DEF Good, IsContents
  <2>3. QED
    BY <2>1, <2>2, <1>8 DEF Good, IsContents
<1>10. \A x \in DOMAIN sessions :
         \/ sessions[x].ref \in DOMAIN secrets
         \/ x \in DOMAIN c.sessions /\ sessions[x] = c.sessions[x] /\ ~HasSecret(c, x)
  BY <1>2, <1>5, <1>6 DEF HasSecret
<1>11. \A x \in DOMAIN sessions :
         sessions[x].ref \in DOMAIN secrets => sessions[x].ref \in DOMAIN kept
  BY <1>7 DEF Referenced
<1>12. Good(new)
  BY <1>8, <1>9, <1>10, <1>11, StaysGood DEF HasSecret
<1>13. QED
  BY <1>2, <1>8, <1>12 DEF KeepsTheRest, new

\* deleteSession: a secret goes only with its last session, and the other
\* sessions stay.
LEMMA DeleteSessionGood ==
  ASSUME NEW c, Good(c), NEW id \in DOMAIN c.sessions
  PROVE  /\ Good(DeleteSession(c, id))
         /\ KeepsTheRest(c, DeleteSession(c, id), {id})
<1> DEFINE left == Drop(c.sessions, id)
           kept == DropUnused(c.secrets, c.sessions[id].ref, left)
           new  == DeleteSession(c, id)
<1>1. new = [c EXCEPT !.sessions = left, !.secrets = kept]
  BY DEF DeleteSession, Good, IsContents
<1>2. DOMAIN left = DOMAIN c.sessions \ {id} /\ \A x \in DOMAIN left : left[x] = c.sessions[x]
  BY DEF Drop, Restrict
<1>3. \A x \in DOMAIN left : left[x].ref \in Referenced(left)
  BY DEF Referenced
<1>4. /\ DOMAIN kept \subseteq DOMAIN c.secrets
      /\ \A r \in DOMAIN kept : kept[r] = c.secrets[r]
      /\ \A r \in DOMAIN c.secrets : r \in Referenced(left) => r \in DOMAIN kept
  BY DEF DropUnused, Drop, Restrict
<1> HIDE DEF left, kept, new
<1>5. /\ DOMAIN new = DOMAIN c /\ new.sessions = left /\ new.secrets = kept
      /\ new.hosts = c.hosts /\ new.keep = c.keep
  BY <1>1 DEF Good, IsContents
<1>6. IsContents(new)
  BY <1>2, <1>4, <1>5 DEF Good, IsContents
<1>7. \A x \in DOMAIN new.sessions :
        \/ HasSecret(new, x)
        \/ x \in DOMAIN c.sessions /\ new.sessions[x] = c.sessions[x] /\ ~HasSecret(c, x)
  BY <1>2, <1>3, <1>4, <1>5 DEF HasSecret
<1>8. Good(new)
  BY <1>6, <1>7, StaysGood
<1>9. QED
  BY <1>2, <1>5, <1>8 DEF KeepsTheRest, new

\* trustHost changes the key of one host and type, and neither it nor the
\* settings dialog touches a session.
LEMMA OtherSavesGood ==
  ASSUME NEW c, Good(c)
  PROVE  /\ \A h \in Hosts, print \in Prints :
              /\ Good(TrustHost(c, h, print))
              /\ KeepsTheRest(c, TrustHost(c, h, print), {h})
         /\ \A keep \in Nat : Good(SaveSettings(c, keep))
                              /\ KeepsTheRest(c, SaveSettings(c, keep), {})
<1>1. ASSUME NEW h \in Hosts, NEW print \in Prints
      PROVE  Good(TrustHost(c, h, print)) /\ KeepsTheRest(c, TrustHost(c, h, print), {h})
  <2> DEFINE hosts == Put(c.hosts, h, print)
             new   == TrustHost(c, h, print)
  <2>1. /\ DOMAIN hosts = DOMAIN c.hosts \cup {h}
        /\ \A x \in DOMAIN hosts : hosts[x] = IF x = h THEN print ELSE c.hosts[x]
    BY DEF Put
  <2>2. new = [c EXCEPT !.hosts = hosts]
    BY DEF TrustHost
  <2> HIDE DEF hosts, new
  <2>3. /\ DOMAIN new = DOMAIN c /\ new.sessions = c.sessions /\ new.secrets = c.secrets
        /\ new.hosts = hosts /\ new.keep = c.keep
    BY <2>2 DEF Good, IsContents
  <2>4. IsContents(new)
    BY <2>1, <2>3 DEF Good, IsContents
  <2>5. QED
    BY <2>1, <2>3, <2>4 DEF Good, Explained, HasSecret, KeepsTheRest, new
<1>2. ASSUME NEW keep \in Nat
      PROVE  Good(SaveSettings(c, keep)) /\ KeepsTheRest(c, SaveSettings(c, keep), {})
  <2>1. SaveSettings(c, keep) = [c EXCEPT !.keep = keep]
    BY DEF SaveSettings
  <2>2. QED
    BY <2>1 DEF Good, IsContents, Explained, HasSecret, KeepsTheRest
<1>3. QED
  BY <1>1, <1>2

\* Adding a file in front of a list of files, and dropping the oldest, leaves a
\* list that starts with that file.
LEMMA BackupLists ==
  ASSUME NEW S, NEW f \in S, NEW files \in Seq(S), NEW n \in Nat
  PROVE  \A all : all = <<f>> \o files =>
           /\ all \in Seq(S) /\ all # <<>> /\ all[1] = f /\ Len(all) \in Nat
           /\ Len(all) > n => /\ Pruned(all, n) \in Seq(S) /\ Stale(all, n) \in Seq(S)
                              /\ n > 0 => Pruned(all, n) # <<>> /\ Pruned(all, n)[1] = f
<1>0. SUFFICES ASSUME NEW all, all = <<f>> \o files
               PROVE  /\ all \in Seq(S) /\ all # <<>> /\ all[1] = f /\ Len(all) \in Nat
                      /\ Len(all) > n =>
                           /\ Pruned(all, n) \in Seq(S) /\ Stale(all, n) \in Seq(S)
                           /\ n > 0 => Pruned(all, n) # <<>> /\ Pruned(all, n)[1] = f
  OBVIOUS
<1>1. <<f>> \in Seq(S) /\ Len(<<f>>) = 1
  OBVIOUS
<1>2. /\ all \in Seq(S) /\ Len(all) = 1 + Len(files) /\ Len(all) \in Nat
      /\ all[1] = f
  BY <1>0, <1>1, ConcatProperties
<1>3. all # <<>>
  BY <1>2, <1>1
<1>4. ASSUME Len(all) > n
      PROVE  /\ Pruned(all, n) \in Seq(S) /\ Stale(all, n) \in Seq(S)
             /\ n > 0 => Pruned(all, n) # <<>> /\ Pruned(all, n)[1] = f
  <2>1. /\ SubSeq(all, 1, n) \in Seq(S)
        /\ Len(SubSeq(all, 1, n)) = IF 1 <= n THEN n - 1 + 1 ELSE 0
        /\ \A i \in 1..(n - 1 + 1) : SubSeq(all, 1, n)[i] = all[1 + i - 1]
    <3>1. \A i \in 1..n : all[i] \in S
      BY <1>2, <1>4, ElementOfSeq
    <3>2. QED
      BY <3>1, SubSeqProperties
  <2>2. SubSeq(all, n + 1, Len(all)) \in Seq(S)
    <3>1. \A i \in (n + 1)..Len(all) : all[i] \in S
      BY <1>2, ElementOfSeq
    <3>2. QED
      BY <3>1, <1>2, SubSeqProperties
  <2>3. n > 0 => SubSeq(all, 1, n) # <<>> /\ SubSeq(all, 1, n)[1] = f
    BY <2>1, <1>2
  <2>4. QED
    BY <2>1, <2>2, <2>3 DEF Pruned, Stale
<1>5. QED
  BY <1>2, <1>3, <1>4
-----------------------------------------------------------------------------
\* The invariant the other theorems need.
THEOREM StoreKept == Spec => []StoreInv
<1>1. Init => StoreInv
  <2> SUFFICES ASSUME Init PROVE StoreInv
    OBVIOUS
  <2>1. Good(Base)
    BY ContentsAssumption DEF Good, IsContents, Base
  <2>2. Range(bak) = {} /\ bak \in Seq(Range(bak))
    BY DEF Init, Range
  <2>3. Stored \subseteq {}
    BY <2>2 DEF Init, Stored
  <2>4. op = Idle /\ op.new = Base /\ op.step = "idle"
    BY DEF Init, Idle
  <2>5. Saved
    BY <2>4 DEF Idle, Saved
  <2>6. Saving /\ Counted
    BY <2>4, StoreAssumption DEF Init, Idle, Saving, Counted
  <2>7. QED
    BY <2>1, <2>2, <2>3, <2>4, <2>5, <2>6 DEF StoreInv, AllGood, BackupList
<1>2. ASSUME StoreInv, [Next]_vars PROVE StoreInv'
  <2> USE <1>2 DEF StoreInv
  \* A call starts with a good config to write, and the file as it was.
  <2>1. ASSUME NEW kind \in Kinds, NEW step \in {"backup", "moveAside", "copyOut"},
               NEW new, NEW touched, Begin(kind, step, new, touched), Good(new),
               step = "backup" => kind \in {"save", "import"} /\ file # Bad,
               touched \subseteq Ids \cup Hosts,
               kind = "save" => step = "backup"
                                /\ (file # Missing => KeepsTheRest(file, new, touched))
        PROVE  StoreInv'
    <3>1. Stored' = Stored /\ UNCHANGED <<file, bak>> /\ op'.new = new
      BY <2>1 DEF Begin, Stored
    <3>2. AllGood'
      BY <2>1, <3>1 DEF AllGood
    <3>3. Saved'
      BY <2>1 DEF Saved, Begin, Steps
    <3>4. Saving' /\ Counted'
      BY <2>1, <3>1, StoreAssumption DEF Begin, Saving, Counted
    <3>5. QED
      BY <3>1, <3>2, <3>3, <3>4 DEF BackupList
  \* What is read at the start of a call is good.
  <2>2. /\ file # Bad => Good(ReadRoot)
        /\ Good(Base)
        /\ \A c \in Imports \cup ({exported} \ {Missing, Bad}) : Good(c)
        /\ \A k \in DOMAIN bak : bak[k] # Bad => Good(bak[k])
    <3>1. Good(Base)
      BY ContentsAssumption DEF Good, IsContents, Base
    <3>2. \A c \in Imports : Good(c)
      BY StoreAssumption DEF Good, Explained
    <3>3. \A k \in DOMAIN bak : bak[k] \in Range(bak) /\ bak[k] # Missing
      BY DEF BackupList, Range
    <3>4. QED
      BY <3>1, <3>2, <3>3 DEF AllGood, Stored, ReadRoot
  <2>3. CASE Save
    <3>1. file # Bad /\ Good(ReadRoot) /\ DOMAIN ReadRoot.sessions \subseteq Ids
      BY <2>2, <2>3 DEF Save, Good, IsContents
    <3>2. ASSUME NEW new, NEW touched, BeginSave(new, touched), Good(new),
                 KeepsTheRest(ReadRoot, new, touched), touched \subseteq Ids \cup Hosts
          PROVE  StoreInv'
      <4>1. file # Missing => ReadRoot = file
        BY DEF ReadRoot
      <4>2. QED
        BY <3>1, <3>2, <4>1, <2>1 DEF BeginSave, Kinds
    \* Both dialogs that change a session.
    <3>3. ASSUME NEW old, NEW id \in Ids, NEW target \in Targets, NEW auth \in Auths,
                 NEW replace \in BOOLEAN, NEW secret \in Values,
                 CanUpdate(ReadRoot, old, id, auth, replace),
                 BeginSave(UpdateSession(ReadRoot, old, id, target, auth, replace, secret),
                           {old, id})
          PROVE  StoreInv'
      <4>1. {old, id} \subseteq Ids \cup Hosts
        BY <3>1, <3>3 DEF CanUpdate
      <4> DEFINE new     == UpdateSession(ReadRoot, old, id, target, auth, replace, secret)
                 touched == {old, id}
      <4>2. Good(new) /\ KeepsTheRest(ReadRoot, new, touched)
        BY <3>1, <3>3, UpdateSessionGood
      <4>3. BeginSave(new, touched) /\ touched \subseteq Ids \cup Hosts
        BY <3>3, <4>1
      <4> HIDE DEF new, touched
      <4>4. QED
        BY <3>2, <4>2, <4>3
    <3>4. CASE SaveConnection
      <4>1. PICK id \in Ids, target \in Targets, auth \in Auths, secret \in Values :
              \/ SaveNew(id, target, auth, secret)
              \/ \E old \in Ids : UpdateExisting(old, id, target, auth, secret)
              \/ CreateCopy(id, target, auth, secret)
        BY <3>4 DEF SaveConnection
      <4>2. CASE SaveNew(id, target, auth, secret)
        <5>1. {id} \subseteq Ids \cup Hosts
          OBVIOUS
        <5>2. QED
          BY <3>1, <3>2, <4>2, <5>1, SaveSessionGood DEF SaveNew
      <4>3. ASSUME NEW old \in Ids, UpdateExisting(old, id, target, auth, secret)
            PROVE  StoreInv'
        BY <3>3, <4>3 DEF UpdateExisting
      <4>4. CASE CreateCopy(id, target, auth, secret)
        <5> DEFINE copy == UniqueId(ReadRoot, id)
        <5>1. FreeCopies(ReadRoot, id) # {}
              /\ BeginSave(SaveSession(ReadRoot, copy, target, auth, secret), {})
          BY <4>4 DEF CreateCopy
        <5>2. copy \in Ids /\ copy \notin DOMAIN ReadRoot.sessions
          BY <5>1, UniqueIdIsFree
        <5> HIDE DEF copy
        <5> DEFINE new == SaveSession(ReadRoot, copy, target, auth, secret)
        <5>3. Good(new) /\ KeepsTheRest(ReadRoot, new, {})
          BY <3>1, <4>1, <5>2, SaveSessionGood
        <5>4. BeginSave(new, {}) /\ {} \subseteq Ids \cup Hosts
          BY <5>1
        <5> HIDE DEF new
        <5>5. QED
          BY <3>2, <5>3, <5>4
      <4>5. QED
        BY <4>1, <4>2, <4>3, <4>4
    <3>5. CASE EditSession
      BY <3>3, <3>5 DEF EditSession
    <3>6. CASE RemoveSession
      <4>1. PICK id \in DOMAIN ReadRoot.sessions : BeginSave(DeleteSession(ReadRoot, id), {id})
        BY <3>6 DEF RemoveSession
      <4>2. {id} \subseteq Ids \cup Hosts
        BY <3>1, <4>1
      <4>3. QED
        BY <3>1, <3>2, <4>1, <4>2, DeleteSessionGood
    <3>7. CASE ChangeSettings
      <4>1. 0..DefaultKeep \subseteq Nat
        BY ContentsAssumption
      <4>2. QED
        BY <4>1, <3>1, <3>2, <3>7, OtherSavesGood DEF ChangeSettings
    <3>8. CASE TrustKey
      <4>1. PICK h \in Hosts, print \in Prints :
              BeginSave(TrustHost(ReadRoot, h, print), {h})
        BY <3>8 DEF TrustKey
      <4>2. {h} \subseteq Ids \cup Hosts
        OBVIOUS
      <4>3. QED
        BY <3>1, <3>2, <4>1, <4>2, OtherSavesGood
    <3>9. QED
      BY <2>3, <3>4, <3>5, <3>6, <3>7, <3>8 DEF Save
  <2>4. CASE Import
    BY <2>1, <2>2, <2>4 DEF Import, Kinds
  <2>5. CASE Export
    BY <2>1, <2>2, <2>5 DEF Export, Kinds
  <2>6. CASE Restore
    BY <2>1, <2>2, <2>6 DEF Restore, IsLatestValid, Kinds
  <2>7. CASE CreateFresh
    BY <2>1, <2>2, <2>7 DEF CreateFresh, Kinds
  \* The steps store nothing but what was stored and what the call writes.
  <2>8. ASSUME Stored' \subseteq Stored \cup {op.new}, op'.new \in {op.new, Base}
        PROVE  AllGood'
    BY <2>2, <2>8 DEF AllGood
  <2>9. CASE Backup
    <3> DEFINE all == <<file>> \o bak
               R   == Range(bak) \cup {file}
               n   == op.new.keep
               P   == Pruned(all, n)
    <3>1. bak' \in Seq(R) /\ bak' # <<>> /\ bak'[1] = file
      <4>1. n \in Nat /\ file \in R /\ bak \in Seq(R)
        BY DEF AllGood, Good, IsContents, BackupList
      <4>2. /\ op.kind = "import" \/ n > 0
            /\ IF op.kind = "import" \/ Len(all) <= n THEN bak' = all
               ELSE \E left \in {<<>>, Stale(all, n)} : bak' = P \o left
        BY <2>9 DEF Backup, NeedsBackup
      <4>3. all = <<file>> \o bak
        OBVIOUS
      <4> HIDE DEF R, n, all
      <4>4. /\ all \in Seq(R) /\ all # <<>> /\ all[1] = file /\ Len(all) \in Nat
            /\ Len(all) > n => /\ P \in Seq(R) /\ Stale(all, n) \in Seq(R)
                               /\ n > 0 => P # <<>> /\ P[1] = file
        <5>1. \A x : x = <<file>> \o bak =>
                /\ x \in Seq(R) /\ x # <<>> /\ x[1] = file /\ Len(x) \in Nat
                /\ Len(x) > n =>
                     /\ Pruned(x, n) \in Seq(R) /\ Stale(x, n) \in Seq(R)
                     /\ n > 0 => Pruned(x, n) # <<>> /\ Pruned(x, n)[1] = file
          BY <4>1, BackupLists, Zenon
        <5>2. QED
          BY <4>3, <5>1
      <4>5. CASE bak' = all
        BY <4>4, <4>5
      <4>6. CASE op.kind # "import" /\ Len(all) > n
        <5>1. PICK left \in {<<>>, Stale(all, n)} : bak' = P \o left
          BY <4>1, <4>2, <4>4, <4>6
        <5>2. P \in Seq(R) /\ left \in Seq(R) /\ P # <<>> /\ P[1] = file
          BY <4>2, <4>4, <4>6, <5>1, EmptySeq
        <5> HIDE DEF P
        <5>3. Len(P) > 0 /\ Len(P) \in Nat /\ Len(left) \in Nat
          BY <5>2, EmptySeq
        <5>4. P \o left \in Seq(R) /\ Len(P \o left) = Len(P) + Len(left)
              /\ (P \o left)[1] = P[1]
          BY <5>2, <5>3, ConcatProperties
        <5>5. P \o left # <<>>
          BY <5>3, <5>4
        <5>6. QED
          BY <5>1, <5>2, <5>4, <5>5
      <4>7. QED
        BY <4>1, <4>2, <4>4, <4>5, <4>6
    <3>2. UNCHANGED <<file, aside, exported>> /\ file # Missing /\ op' = [op EXCEPT !.step = "write"]
      BY <2>9 DEF Backup, Goto, NeedsBackup
    <3>3. Range(bak') \subseteq Range(bak) \cup {file} /\ bak' \in Seq(Range(bak'))
      BY <3>1 DEF Range
    <3>4. op'.new = op.new /\ op'.kind = op.kind /\ op'.step = "write"
          /\ op' \in [kind : Kinds \cup {"idle"}, step : Steps \cup {"idle"},
                      new : {op'.new}, touched : {op'.touched}]
      BY <3>2 DEF Saved, Steps
    <3>5. AllGood'
      BY <3>2, <3>3, <3>4, <2>8 DEF Stored
    <3>6. BackupList'
      BY <3>2, <3>3 DEF BackupList
    <3>7. Saved'
      BY <2>9, <3>1, <3>2, <3>4 DEF Saved, Backup, At
    <3>8. Saving' /\ Counted'
      BY <2>9, <3>2 DEF Saving, Counted, Backup, counters
    <3>9. QED
      BY <3>5, <3>6, <3>7, <3>8
  \* The other steps leave the backups alone.
  <2>10. ASSUME bak' = bak, Saved', Saving', Counted', {file, exported}' \cup aside' \subseteq
                  {file, exported, op.new, Missing} \cup aside, op'.new \in {op.new, Base}
         PROVE  StoreInv'
    <3>1. Stored' \subseteq Stored \cup {op.new}
      BY <2>10 DEF Stored
    <3>2. QED
      BY <2>10, <3>1, <2>8 DEF BackupList
  <2>11. ASSUME Done, UNCHANGED counters
         PROVE  Saved' /\ Saving' /\ Counted' /\ op'.new \in {op.new, Base}
    BY <2>11 DEF Done, Saved, Saving, Counted, Idle, counters
  <2>12. ASSUME NEW step \in Steps, Goto(step)
         PROVE  /\ op'.new = op.new /\ op'.kind = op.kind /\ op'.step = step
                /\ op'.touched = op.touched
                /\ op' \in [kind : Kinds \cup {"idle"}, step : Steps \cup {"idle"},
                            new : {op'.new}, touched : {op'.touched}]
    BY <2>12 DEF Goto, Saved
  <2>13. CASE NoBackup
    <3>1. Saved'
      BY <2>12, <2>13 DEF NoBackup, Saved, NeedsBackup, At, Steps
    <3>2. Saving' /\ Counted'
      BY <2>12, <2>13 DEF NoBackup, Saving, Counted, Steps, counters
    <3>3. QED
      BY <3>1, <3>2, <2>10, <2>12, <2>13 DEF NoBackup, Steps
  <2>14. CASE Write
    BY <2>10, <2>11, <2>14 DEF Write
  <2>15. CASE MoveAside
    <3>1. Saved'
      BY <2>12, <2>15 DEF MoveAside, Saved, Steps
    <3>2. Saving' /\ Counted'
      BY <2>12, <2>15 DEF MoveAside, At, Saving, Counted, Steps, counters
    <3>3. QED
      BY <3>1, <3>2, <2>10, <2>12, <2>15 DEF MoveAside, Steps
  <2>16. CASE MoveAsideHalf
    BY <2>10, <2>11, <2>16 DEF MoveAsideHalf
  <2>17. CASE CopyBack
    BY <2>10, <2>11, <2>17 DEF CopyBack
  <2>18. CASE ClearTarget
    <3>1. Saved'
      BY <2>18 DEF ClearTarget, Saved, NeedsBackup
    <3>2. Saving' /\ Counted'
      BY <2>18 DEF ClearTarget, Saving, Counted, counters
    <3>3. QED
      BY <3>1, <3>2, <2>10, <2>18 DEF ClearTarget
  <2>19. CASE CopyOut
    BY <2>10, <2>11, <2>19 DEF CopyOut
  <2>20. CASE Stop
    BY <2>10, <2>11, <2>20 DEF Stop
  <2>21. CASE Damage
    <3>1. UNCHANGED <<aside, exported, op>> /\ op = Idle
      BY <2>21 DEF Damage
    <3>2. file' \in {file, Bad} /\ bak' \in Seq(Range(bak')) /\ Range(bak') \subseteq Range(bak) \cup {Bad}
      <4>1. CASE bak' = bak
        BY <2>21, <4>1 DEF Damage, BackupList
      <4>2. CASE bak # <<>> /\ bak' = [bak EXCEPT ![1] = Bad] /\ file' = file
        <5> DEFINE T == Range(bak) \cup {Bad}
        <5>1. bak \in Seq(T) /\ Bad \in T /\ Range(bak) \subseteq T
          BY DEF BackupList
        <5> HIDE DEF T
        <5>2. 1 \in 1..Len(bak)
          BY <4>2, <5>1, EmptySeq
        <5>3. bak' \in Seq(T)
          BY <4>2, <5>1, <5>2, ExceptSeq
        <5>4. Range(bak') \subseteq T /\ bak' \in Seq(Range(bak'))
          BY <5>3 DEF Range
        <5>5. QED
          BY <4>2, <5>4 DEF T
      <4>3. QED
        BY <2>21, <4>1, <4>2 DEF Damage
    <3>3. Stored' \subseteq Stored /\ Missing \notin Range(bak')
      BY <3>1, <3>2, StoreAssumption DEF Stored, BackupList
    <3>4. Saved'
      BY <3>1 DEF Saved, Idle
    <3>5. Saving' /\ Counted'
      BY <2>21, <3>1, StoreAssumption DEF Damage, Idle, Saving, Counted
    <3>6. QED
      BY <3>1, <3>2, <3>3, <3>4, <3>5, <2>8 DEF BackupList
  <2>22. CASE UNCHANGED vars
    BY <2>22 DEF vars, AllGood, Stored, BackupList, Saved, NeedsBackup, Saving, Counted
  <2>23. QED
    BY <2>3, <2>4, <2>5, <2>6, <2>7, <2>9, <2>13, <2>14, <2>15, <2>16, <2>17, <2>18, <2>19,
       <2>20, <2>21, <2>22 DEF Next, Call, Step
<1>3. QED
  BY <1>1, <1>2, PTL DEF Spec

\* RefsResolve: whatever calls were made, failed or were cut short, a session of
\* a stored config has its secret, or came without one in an imported file.
THEOREM RefsSafe == Spec => []RefsResolve
<1>1. StoreInv => RefsResolve
  BY DEF StoreInv, AllGood, Good, Explained, RefsResolve
<1>2. QED
  BY <1>1, StoreKept, PTL

\* NothingLost: a config that a call replaces stays in a backup or in a file
\* moved aside, unless a save replaced it with backups off.
THEOREM NothingIsLost == Spec => NothingLost
<1>1. ASSUME StoreInv, [Next]_vars, file' # file, file # Missing, file' # Bad,
             ~(op.kind = "save" /\ op.new.keep = 0)
      PROVE  file \in Range(bak') \cup aside'
  <2>1. Write \/ MoveAside \/ CopyBack
    BY <1>1 DEF Next, vars, Call, Save, SaveConnection, SaveNew, UpdateExisting, CreateCopy,
                EditSession, RemoveSession, ChangeSettings, TrustKey, BeginSave, Import, Export,
                Restore, CreateFresh, Begin, Step, Backup, NoBackup, MoveAsideHalf, ClearTarget,
                CopyOut, Stop, Damage
  <2>2. CASE Write
    <3>1. NeedsBackup /\ bak # <<>> /\ bak[1] = file
      BY <1>1, <2>2 DEF Write, At, StoreInv, AllGood, Good, IsContents, Saved, NeedsBackup
    <3>2. 1 \in DOMAIN bak
      BY <3>1, EmptySeq DEF StoreInv, BackupList
    <3>3. QED
      BY <2>2, <3>1, <3>2 DEF Write, Range
  <2>3. CASE MoveAside
    BY <1>1, <2>3 DEF MoveAside
  <2>4. CASE CopyBack
    BY <1>1, <2>4 DEF CopyBack, At, StoreInv, Saved
  <2>5. QED
    BY <2>1, <2>2, <2>3, <2>4
<1>2. QED
  BY <1>1, StoreKept, PTL DEF Spec, NothingLost

\* RestoreUndoes: after a save or an import with backups on, the newest valid
\* backup is the config it replaced.
THEOREM RestoreGetsItBack == Spec => RestoreUndoes
<1>1. ASSUME StoreInv, [Next]_vars, op.step = "write", op.kind \in {"save", "import"},
             file' # file, file # Missing, op.new.keep > 0
      PROVE  \E k \in DOMAIN bak' : IsLatestValid(bak', k) /\ bak'[k] = file
  <2>1. NeedsBackup /\ bak # <<>> /\ bak[1] = file /\ file # Bad
    BY <1>1 DEF StoreInv, Saved, NeedsBackup
  <2>2. 1 \in DOMAIN bak
    BY <1>1, <2>1, EmptySeq DEF StoreInv, BackupList
  <2>3. bak' = bak
    BY <1>1 DEF Next, vars, Call, Save, SaveConnection, SaveNew, UpdateExisting, CreateCopy,
                EditSession, RemoveSession, ChangeSettings, TrustKey, BeginSave, Import, Export,
                Restore, CreateFresh, Begin, Step, Backup, NoBackup, Write, MoveAside, CopyBack,
                MoveAsideHalf, ClearTarget, CopyOut, Stop, Damage, At, Idle
  <2>4. IsLatestValid(bak', 1)
    BY <2>1, <2>2, <2>3 DEF IsLatestValid
  <2>5. QED
    BY <2>1, <2>2, <2>3, <2>4
<1>2. QED
  BY <1>1, StoreKept, PTL DEF Spec, RestoreUndoes

\* TypeOK: whatever was imported, saved or damaged, every file holds a config,
\* or is missing or bad.
THEOREM StoreTypes == Spec => []TypeOK
<1>1. StoreInv => TypeOK
  <2> SUFFICES ASSUME StoreInv PROVE TypeOK
    OBVIOUS
  <2>1. \A k \in DOMAIN bak : bak[k] # Missing
    BY DEF StoreInv, BackupList, Range
  <2>2. op.kind \in Kinds \cup {"idle"} /\ op.step \in Steps \cup {"idle"}
    BY DEF StoreInv, Saved
  <2>3. QED
    BY <2>1, <2>2 DEF StoreInv, AllGood, Good, Counted, TypeOK
<1>2. QED
  BY <1>1, StoreKept, PTL

\* SaveKeepsTheRest: a save changes the sessions and host keys its dialog named
\* and no others, and the id a copy takes is one that no session has.
THEOREM SaveSparesTheRest == Spec => SaveKeepsTheRest
<1>1. ASSUME StoreInv, [Next]_vars, op.kind = "save", file' # file, file # Missing
      PROVE  KeepsTheRest(file, file', op.touched)
  <2>1. op # Idle /\ op.step \in {"backup", "write"} /\ KeepsTheRest(file, op.new, op.touched)
    BY <1>1 DEF StoreInv, Saving, Idle
  <2>2. Write
    BY <1>1, <2>1 DEF Next, vars, Call, Save, SaveConnection, SaveNew, UpdateExisting, CreateCopy,
                EditSession, RemoveSession, ChangeSettings, TrustKey, BeginSave, Import, Export,
                Restore, CreateFresh, Begin, Step, Backup, NoBackup, MoveAside, CopyBack,
                MoveAsideHalf, ClearTarget, CopyOut, Stop, Damage, At
  <2>3. QED
    BY <2>1, <2>2 DEF Write
<1>2. QED
  BY <1>1, StoreKept, PTL DEF Spec, SaveKeepsTheRest, KeepsTheRest
=============================================================================
