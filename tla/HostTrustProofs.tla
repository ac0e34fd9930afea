--------------------------- MODULE HostTrustProofs ---------------------------
(***************************************************************************)
(* Theorems about HostTrust for any keys, tabs, backups and imported files, *)
(* and any changes of the host.                                            *)
(***************************************************************************)
EXTENDS HostTrust, TLAPS

\* What the current file holds of the host.
Now == [keys |-> keys, legacy |-> legacy]

\* The keys one may find where the program looks for them.
Known == kept \cup brought \cup First

\* Where each key the program holds comes from.  A flow that is to connect has
\* a key that was stored or that the user let pass, and so has every tab.
Origins ==
  /\ keys \cup legacy \subseteq Known
  /\ \A s \in backups : Held(s) \subseteq Known
  /\ kept \subseteq accepted
  /\ flow.step = "connect" => flow.seen \in accepted \cup brought \cup First
  /\ tabs \subseteq accepted \cup brought \cup First
  /\ sentTo \subseteq accepted \cup brought \cup First

\* The steps of a flow.
FlowType  == flow \in [step : Steps, seen : Keys]
ServerType == server \in Key

\* Whatever copies of the file are left, they hold what an earlier copy or the
\* file itself held.
LEMMA BackupOrigins ==
  ASSUME Backup
  PROVE  \A s \in backups' : s \in backups \/ s = Now
BY DEF Backup, Now

\* Storing a key leaves only keys that were stored before, and the new one.
LEMMA TrustHostOrigins ==
  ASSUME NEW k, TrustHost(k)
  PROVE  keys' \cup legacy' \subseteq keys \cup legacy \cup {k} /\ Backup
BY DEF TrustHost, Normalized, OfType

\* Every key the program holds has one of its origins, always.
THEOREM OriginsKept == Spec => [](FlowType /\ ServerType /\ Origins)
<1> DEFINE Inv == FlowType /\ ServerType /\ Origins
<1>1. Init => Inv
  <2> SUFFICES ASSUME Init PROVE Inv
    OBVIOUS
  <2>1. \A s \in Backups0 : Held(s) \subseteq First
    BY DEF First
  <2>2. QED
    BY <2>1 DEF Init, FlowType, ServerType, Origins, Known, First, NoFlow, Keys, Steps
<1>2. Inv /\ [Next]_vars => Inv'
  <2> SUFFICES ASSUME Inv, [Next]_vars PROVE Inv'
    OBVIOUS
  <2> USE DEF FlowType, ServerType, Origins
  <2>1. Known \subseteq accepted \cup brought \cup First
    BY DEF Known
  \* What a backup or an empty file holds has an origin.
  <2>2. \A s \in backups \cup {Empty} : Held(s) \subseteq Known
    BY DEF Held, Empty
  \* A write leaves backups whose keys have an origin.
  <2>3. ASSUME Backup, Known \subseteq Known'
        PROVE  \A s \in backups' : Held(s) \subseteq Known'
    <3>1. Held(Now) \subseteq Known
      BY DEF Held, Now
    <3>2. QED BY <2>3, <3>1, BackupOrigins
  <2>4. ASSUME NEW s \in Stores \cup backups \cup {Empty}, Replace(s)
        PROVE  keys' \cup legacy' = Held(s)
    BY <2>4 DEF Replace, Held
  <2>5. CASE Handshake
    <3>1. PICK seen \in {server, Unreadable} : flow' = [step |-> "check", seen |-> seen]
      BY <2>5 DEF Handshake
    <3>2. seen \in Keys
      BY DEF Keys
    <3>3. flow' \in [step : Steps, seen : Keys] /\ flow'.step = "check"
      BY <3>1, <3>2 DEF Steps
    <3>4. UNCHANGED <<keys, legacy, backups, server, tabs, sentTo, accepted, kept, brought>>
      BY <2>5 DEF Handshake, known, world, words
    <3>5. QED BY <3>3, <3>4 DEF Known, First
  <2>6. CASE CheckTrusted
    <3>1. flow.seen \in keys \cup legacy
      <4>1. flow.seen \in (IF readable THEN Normalized(keys, legacy) ELSE {})
        BY <2>6 DEF CheckTrusted, Verdict
      <4>2. QED BY <4>1 DEF Normalized
    <3>2. UNCHANGED <<server, tabs, sentTo, accepted, kept, brought>>
          /\ flow' = [flow EXCEPT !.step = "connect"]
      BY <2>6 DEF CheckTrusted, world, words
    <3>3. Known' = Known
      BY <3>2 DEF Known, First
    <3>4. keys' \cup legacy' \subseteq keys \cup legacy
          /\ \A s \in backups' : Held(s) \subseteq Known'
      <4>1. CASE TrustHost(flow.seen)
        BY <2>3, <3>1, <3>3, <4>1, TrustHostOrigins
      <4>2. CASE UNCHANGED known
        BY <3>3, <4>2 DEF known
      <4>3. QED BY <2>6, <4>1, <4>2 DEF CheckTrusted
    <3>5. flow' \in [step : Steps, seen : Keys] /\ flow'.seen = flow.seen
      BY <3>2 DEF Steps
    <3>6. QED BY <2>1, <3>1, <3>2, <3>3, <3>4, <3>5 DEF First
  <2>7. CASE CheckAndAsk
    BY <2>7 DEF CheckAndAsk, known, world, words, Known, First, Steps
  <2>8. CASE TrustOnce
    BY <2>8 DEF TrustOnce, known, world, Known, First, Steps
  <2>9. CASE TrustPermanently
    <3>1. TrustHost(flow.seen) /\ flow' = [flow EXCEPT !.step = "connect"]
          /\ accepted' = accepted \cup {flow.seen} /\ kept' = kept \cup {flow.seen}
          /\ UNCHANGED <<server, tabs, brought, sentTo>>
      BY <2>9 DEF TrustPermanently, world
    <3>2. Known' = Known \cup {flow.seen}
      BY <3>1 DEF Known, First
    <3>3. keys' \cup legacy' \subseteq Known' /\ \A s \in backups' : Held(s) \subseteq Known'
      BY <2>3, <3>1, <3>2, TrustHostOrigins
    <3>4. flow' \in [step : Steps, seen : Keys] /\ flow'.seen = flow.seen
      BY <3>1 DEF Steps
    <3>5. QED BY <3>1, <3>3, <3>4 DEF First
  <2>10. CASE GiveUp
    BY <2>10 DEF GiveUp, known, world, words, NoFlow, Keys, Known, First, Steps
  <2>11. CASE TestAuthentication
    <3>1. Verified(flow.seen) = flow.seen
      BY <2>11 DEF TestAuthentication, Authenticate, Verified
    <3>2. QED
      BY <2>11, <3>1 DEF TestAuthentication, Authenticate, known, world, words, NoFlow,
         Keys, Known, First, Steps
  <2>12. CASE OpenTab
    BY <2>12 DEF OpenTab, known, world, words, NoFlow, Keys, Known, First, Steps
  <2>13. CASE TabConnect
    <3>1. PICK expected \in tabs : Authenticate(expected)
      BY <2>13 DEF TabConnect
    <3>2. Verified(expected) = expected
      BY <3>1 DEF Authenticate, Verified
    <3>3. QED
      BY <2>13, <3>1, <3>2 DEF TabConnect, Authenticate, known, world, words, Known, First
  <2>14. CASE CloseTab
    BY <2>14 DEF CloseTab, known, world, words, Known, First
  <2>15. CASE SaveConfig
    <3>1. Known' = Known
      BY <2>15 DEF SaveConfig, words, Known, First
    <3>2. \A s \in backups' : Held(s) \subseteq Known'
      BY <2>3, <2>15, <3>1 DEF SaveConfig
    <3>3. QED BY <2>15, <3>1, <3>2 DEF SaveConfig, world, words, First
  <2>16. CASE ImportConfig
    <3>1. PICK s \in Imports : Replace(s) /\ brought' = brought \cup Held(s)
      BY <2>16 DEF ImportConfig
    <3>2. UNCHANGED <<server, flow, tabs, accepted, kept, sentTo>>
      BY <2>16 DEF ImportConfig, world
    <3>3. Known' = Known \cup Held(s)
      BY <3>1, <3>2 DEF Known, First
    <3>4. \A t \in backups' : Held(t) \subseteq Known'
      BY <2>3, <2>16, <3>3 DEF ImportConfig
    <3>5. keys' \cup legacy' \subseteq Known'
      BY <2>4, <3>1, <3>3 DEF Replace, Held
    <3>6. QED BY <3>1, <3>2, <3>4, <3>5 DEF First
  <2>17. ASSUME NEW s \in backups \cup {Empty}, Replace(s),
                UNCHANGED <<backups, flow, tabs, world, words, sentTo>>
         PROVE  Inv'
    <3>1. Known' = Known
      BY <2>17 DEF words, Known, First
    <3>2. keys' \cup legacy' \subseteq Known'
      BY <2>2, <2>4, <2>17, <3>1
    <3>3. QED BY <2>17, <3>1, <3>2 DEF world, words, First
  <2>18. CASE RestoreBackup
    BY <2>17, <2>18 DEF RestoreBackup
  <2>19. CASE FileRecovered
    BY <2>17, <2>19 DEF FileRecovered
  <2>20. CASE HostChanges
    BY <2>20 DEF HostChanges, known, words, Known, First
  <2>21. CASE FileDamaged
    BY <2>21 DEF FileDamaged, words, Known, First
  <2>22. CASE UNCHANGED vars
    BY <2>22 DEF vars, Known, First
  <2>23. QED
    BY <2>5, <2>6, <2>7, <2>8, <2>9, <2>10, <2>11, <2>12, <2>13, <2>14, <2>15, <2>16,
       <2>18, <2>19, <2>20, <2>21, <2>22 DEF Next, Ask, Use, File, World
<1>3. QED BY <1>1, <1>2, PTL DEF Spec

\* Whatever the host does, and whatever file is imported, restored or recovered
\* while tabs are open, a password or private key only ever reaches a host whose
\* key the user let pass, imported, or had stored at the start.
THEOREM SecretsSafe == Spec => []SecretOnlyToAccepted
<1>1. Origins => SecretOnlyToAccepted
  BY DEF Origins, SecretOnlyToAccepted
<1>2. QED BY <1>1, OriginsKept, PTL

\* No key is stored, and none waits in a backup, that the user did not tell the
\* program to store, import, or had at the start.
THEOREM StoreSafe == Spec => []StoredOnlyIfTold
<1>1. Origins => StoredOnlyIfTold
  BY DEF Origins, StoredOnlyIfTold, Known
<1>2. QED BY <1>1, OriginsKept, PTL
-----------------------------------------------------------------------------
\* Storing a key keeps one key of each type; that rests on the older form holding
\* at most one key.
LEMMA TrustHostType ==
  ASSUME TypeOK, NEW k \in Keys, TrustHost(k)
  PROVE  [keys |-> keys', legacy |-> legacy'] \in Stores /\ Backup /\ readable' \in BOOLEAN
<1> DEFINE all == Normalized(keys, legacy)
<1>1. all \subseteq Keys /\ OneOfEach(all)
  BY DEF TypeOK, Stores, OneOfEach, AtMostOne, Normalized, OfType
<1>2. keys' = (all \ OfType(all, k.type)) \cup {k} /\ legacy' = {}
  BY DEF TrustHost
<1>3. \A j \in all \ OfType(all, k.type) : j.type # k.type
  BY DEF OfType
<1> HIDE DEF all
<1>4. keys' \subseteq Keys /\ OneOfEach(keys') /\ AtMostOne(legacy')
  BY <1>1, <1>2, <1>3 DEF OneOfEach, AtMostOne
<1>5. QED
  BY <1>2, <1>4 DEF TrustHost, Stores, TypeOK

\* Every variable of a host's trust keeps its type, in the backups too, and no
\* two stored keys have one type.
THEOREM TrustTypes == Spec => []TypeOK
<1>0. Empty \in Stores
  BY DEF Empty, Stores, OneOfEach, AtMostOne
<1>1. Init => TypeOK
  BY TrustAssumption DEF Init, TypeOK, NoFlow, Keys, Steps
<1>2. TypeOK /\ [Next]_vars => TypeOK'
  <2> SUFFICES ASSUME TypeOK, [Next]_vars PROVE TypeOK'
    OBVIOUS
  <2> USE DEF TypeOK
  <2>0. flow.seen \in Keys /\ server \in Keys
    BY DEF Keys
  <2>1. Backup => backups' \subseteq Stores
    BY DEF Backup
  <2>2. ASSUME NEW s \in Stores, Replace(s)
        PROVE  [keys |-> keys', legacy |-> legacy'] \in Stores /\ readable' \in BOOLEAN
    <3>1. s = [keys |-> s.keys, legacy |-> s.legacy]
      BY DEF Stores
    <3>2. QED BY <2>2, <3>1 DEF Replace
  <2>3. CASE Handshake
    <3>1. PICK seen \in Keys : flow' = [step |-> "check", seen |-> seen]
      BY <2>0, <2>3 DEF Handshake, Keys
    <3>2. UNCHANGED <<known, tabs, world, words, sentTo>>
      BY <2>3 DEF Handshake
    <3>3. flow' \in [step : Steps, seen : Keys]
      BY <3>1 DEF Steps
    <3>4. QED
      BY <3>2, <3>3 DEF known, world, words
  <2>4. CASE CheckTrusted
    <3>1. flow' \in [step : Steps, seen : Keys] /\ UNCHANGED <<tabs, world, words, sentTo>>
      BY <2>4 DEF CheckTrusted, Steps
    <3>2. CASE TrustHost(flow.seen)
      BY <2>0, <2>1, <3>1, <3>2, TrustHostType DEF world, words
    <3>3. CASE UNCHANGED known
      BY <3>1, <3>3 DEF known, world, words
    <3>4. QED
      BY <2>4, <3>2, <3>3 DEF CheckTrusted
  <2>5. CASE CheckAndAsk
    BY <2>5 DEF CheckAndAsk, known, world, words, Steps
  <2>6. CASE TrustOnce
    BY <2>0, <2>6 DEF TrustOnce, known, world, Steps
  <2>7. CASE TrustPermanently
    <3>1. flow' \in [step : Steps, seen : Keys] /\ accepted' \subseteq Keys
          /\ kept' \subseteq Keys /\ UNCHANGED <<tabs, world, brought, sentTo>>
      BY <2>0, <2>7 DEF TrustPermanently, Steps
    <3>2. TrustHost(flow.seen)
      BY <2>7 DEF TrustPermanently
    <3>3. QED
      BY <2>0, <2>1, <3>1, <3>2, TrustHostType DEF world
  <2>8. CASE GiveUp
    BY <2>8 DEF GiveUp, known, world, words, NoFlow, Keys, Steps
  <2>9. ASSUME NEW expected \in Keys, Authenticate(expected) PROVE sentTo' \subseteq Key
    BY <2>9 DEF Authenticate, Verified
  <2>10. CASE TestAuthentication
    BY <2>0, <2>9, <2>10 DEF TestAuthentication, known, world, words, NoFlow, Keys, Steps
  <2>11. CASE OpenTab
    BY <2>0, <2>11 DEF OpenTab, known, world, words, NoFlow, Keys, Steps
  <2>12. CASE TabConnect
    BY <2>9, <2>12 DEF TabConnect, known, world, words
  <2>13. CASE CloseTab
    BY <2>13 DEF CloseTab, known, world, words
  <2>14. CASE SaveConfig
    BY <2>1, <2>14 DEF SaveConfig, world, words
  <2>15. CASE ImportConfig
    <3>1. PICK s \in Imports : Replace(s) /\ brought' = brought \cup Held(s)
      BY <2>15 DEF ImportConfig
    <3>2. s \in Stores /\ Held(s) \subseteq Keys
      BY TrustAssumption DEF Stores, Held
    <3>3. QED
      BY <2>1, <2>2, <2>15, <3>1, <3>2 DEF ImportConfig, world
  <2>16. ASSUME NEW s \in backups \cup {Empty}, Replace(s),
                UNCHANGED <<backups, flow, tabs, world, words, sentTo>>
         PROVE  TypeOK'
    BY <1>0, <2>2, <2>16 DEF world, words
  <2>17. CASE RestoreBackup
    BY <2>16, <2>17 DEF RestoreBackup
  <2>18. CASE FileRecovered
    BY <2>16, <2>18 DEF FileRecovered
  <2>19. CASE HostChanges
    BY <2>19, TrustAssumption DEF HostChanges, known, words
  <2>20. CASE FileDamaged
    <3>1. readable' \in BOOLEAN
      BY <2>20 DEF FileDamaged
    <3>2. damage' \in 0..MaxDamage
      BY <2>20, TrustAssumption DEF FileDamaged
    <3>3. UNCHANGED <<server, changes, keys, legacy, backups, flow, tabs, words, sentTo>>
      BY <2>20 DEF FileDamaged
    <3>4. QED
      BY <3>1, <3>2, <3>3 DEF words
  <2>21. CASE UNCHANGED vars
    BY <2>21 DEF vars
  <2>22. QED
    BY <2>3, <2>4, <2>5, <2>6, <2>7, <2>8, <2>10, <2>11, <2>12, <2>13, <2>14, <2>15,
       <2>17, <2>18, <2>19, <2>20, <2>21 DEF Next, Ask, Use, File, World
<1>3. QED
  BY <1>1, <1>2, PTL DEF Spec

\* Storing a key drops no key of another type, not even one that is still in
\* the older form and has to be rewritten.
THEOREM TrustSparesTheRest == Spec => TrustKeepsTheRest
<1> DEFINE Spared == ~Undisturbed /\ readable /\ keys' # keys
      => \A k \in keys \cup {old \in legacy : OfType(keys, old.type) = {}} :
           k.type # flow.seen.type => k \in keys' \cup legacy'
<1>1. [Next]_vars => Spared
  <2> SUFFICES ASSUME [Next]_vars, ~Undisturbed, readable, keys' # keys,
                      NEW k \in keys \cup {old \in legacy : OfType(keys, old.type) = {}},
                      k.type # flow.seen.type
               PROVE  k \in keys' \cup legacy'
    OBVIOUS
  <2>1. TrustHost(flow.seen)
    BY DEF Next, Ask, Use, File, World, Handshake, CheckTrusted, CheckAndAsk, TrustOnce,
       TrustPermanently, GiveUp, TestAuthentication, OpenTab, TabConnect, CloseTab,
       SaveConfig, ImportConfig, RestoreBackup, FileRecovered, HostChanges, FileDamaged,
       known, vars
  <2>2. k \in Normalized(keys, legacy)
    BY DEF Normalized
  <2>3. k \notin OfType(Normalized(keys, legacy), flow.seen.type)
    BY DEF OfType
  <2>4. QED
    BY <2>1, <2>2, <2>3 DEF TrustHost
<1>2. QED
  BY <1>1, PTL DEF Spec, TrustKeepsTheRest
=============================================================================
