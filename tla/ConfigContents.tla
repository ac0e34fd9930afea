--------------------------- MODULE ConfigContents ---------------------------
(***************************************************************************)
(* What dd-ssh.json holds, and how ConfigManager and KnownHostsManager     *)
(* change a copy of it in memory before they write it back.                *)
(*                                                                         *)
(* Sessions, a JSON array searched by id, are a function from ids; so      *)
(* where the code takes the first of several matches, any of them is taken. *)
(* Groups, time stamps, appearance and the other texts are left out.       *)
(***************************************************************************)
EXTENDS Naturals, Functions

CONSTANTS
  Names,        \* what a session may be called, as makeSessionId spells it
  MaxCopies,    \* bound: ids derived from one name by "Create copy"
  Targets,      \* user, host and port of a session
  Auths,        \* "password" and "key"
  Values,       \* passwords and private keys
  NoRef,        \* the reference of a session that names no secret
  Hosts,        \* known_hosts has one key for a host and key type: one of these
  Prints,       \* fingerprints of host keys
  DefaultKeep   \* max_backups of a config that does not say (10 in the code)

ASSUME ContentsAssumption == MaxCopies \in Nat /\ DefaultKeep \in Nat \ {0}
ASSUME NoRefAssumption == NoRef \notin (Names \X (0..MaxCopies)) \X Auths

\* <<n, 0>> is a name as typed, <<n, k>> its k-th "-copy".
Ids == Names \X (0..MaxCopies)

\* "secret-<id>-password" or "secret-<id>-key".
RefOf(id, auth) == <<id, auth>>
Refs == Ids \X Auths

\* The program gives a session a reference to its secret; an imported session
\* may have any, or none.
Session == [target : Targets, auth : Auths, ref : Refs \cup {NoRef}]

IsContents(c) ==
  /\ DOMAIN c = {"sessions", "secrets", "hosts", "keep"}
  /\ DOMAIN c.sessions \subseteq Ids
  /\ \A id \in DOMAIN c.sessions : c.sessions[id] \in Session
  /\ DOMAIN c.secrets \subseteq Refs
  /\ \A r \in DOMAIN c.secrets : c.secrets[r] \in Values
  /\ DOMAIN c.hosts \subseteq Hosts
  /\ \A h \in DOMAIN c.hosts : c.hosts[h] \in Prints
  /\ c.keep \in Nat        \* 0: backups are off

\* ensureBaseObjects on an empty object.
Base == [sessions |-> [id \in {} |-> id], secrets |-> [r \in {} |-> r],
         hosts |-> [h \in {} |-> h], keep |-> DefaultKeep]

Put(f, k, v) == [x \in DOMAIN f \cup {k} |-> IF x = k THEN v ELSE f[x]]
Drop(f, k)   == Restrict(f, DOMAIN f \ {k})
-----------------------------------------------------------------------------
\* A session's secret_ref or key_ref names a stored secret.
HasSecret(c, id) == c.sessions[id].ref \in DOMAIN c.secrets

\* loadPlainSecret for a saved session that has one.
SecretOf(c, id) == c.secrets[c.sessions[id].ref]

SameTarget(c, target) == {id \in DOMAIN c.sessions : c.sessions[id].target = target}

\* The ids makeUniqueSessionId tries, in order, and the first that is free.
FreeCopies(c, id) == {k \in id[2]..MaxCopies : <<id[1], k>> \notin DOMAIN c.sessions}

\* Seeded fault: the id is taken as typed, free or not.
TakesTyped(c, id) == id

UniqueId(c, id) ==
  <<id[1], CHOOSE k \in FreeCopies(c, id) : \A j \in FreeCopies(c, id) : k <= j>>

\* saveSessionWithPlainSecret: a session of that id is replaced.
SaveSession(c, id, target, auth, secret) ==
  [c EXCEPT
     !.sessions = Put(@, id, [target |-> target, auth |-> auth, ref |-> RefOf(id, auth)]),
     !.secrets  = Put(@, RefOf(id, auth), secret)]

Referenced(sessions) == {sessions[id].ref : id \in DOMAIN sessions}

\* Seeded fault: a secret goes with its session, used by others or not.
DropAlways(secrets, r, sessions) == Drop(secrets, r)

\* The secret goes unless a session that is left refers to it.
DropUnused(secrets, r, sessions) ==
  IF r \in Referenced(sessions) THEN secrets ELSE Drop(secrets, r)

\* updateSessionWithOptionalPlainSecret refuses a taken id, and an empty
\* secret field where there is no secret of the same kind to keep.
CanUpdate(c, old, new, auth, replace) ==
  /\ old \in DOMAIN c.sessions
  /\ new \in DOMAIN c.sessions => new = old
  /\ ~replace => /\ c.sessions[old].auth = auth
                 /\ c.sessions[old].ref \in DOMAIN c.secrets

\* A kept secret keeps the reference it had, whatever the new id.
UpdateSession(c, old, new, target, auth, replace, secret) ==
  LET was      == c.sessions[old].ref
      ref      == IF replace THEN RefOf(new, auth) ELSE was
      sessions == Put(Drop(c.sessions, old), new,
                      [target |-> target, auth |-> auth, ref |-> ref])
      secrets  == IF replace THEN Put(c.secrets, ref, secret) ELSE c.secrets
  IN [c EXCEPT !.sessions = sessions,
               !.secrets = IF ref = was THEN secrets ELSE DropUnused(secrets, was, sessions)]

DeleteSession(c, id) ==
  LET left == Drop(c.sessions, id)
  IN [c EXCEPT !.sessions = left,
               !.secrets = DropUnused(@, c.sessions[id].ref, left)]

\* trustHost: a key of the same host and type is replaced.
TrustHost(c, h, print) == [c EXCEPT !.hosts = Put(@, h, print)]

SaveSettings(c, keep) == [c EXCEPT !.keep = keep]
=============================================================================
