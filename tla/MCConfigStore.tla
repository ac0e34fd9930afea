---------------------------- MODULE MCConfigStore ----------------------------
(***************************************************************************)
(* Small instances of ConfigStore: one or two session names, up to two     *)
(* hosts, a config exported on another computer, and one whose secrets     *)
(* somebody took out before passing it on.                                 *)
(***************************************************************************)
EXTENDS ConfigStore

\* A session of another computer, saved under a key.
OtherComputer ==
  [Base EXCEPT !.sessions = Put(@, <<"a", 0>>, [target |-> "t1", auth |-> "key",
                                                ref |-> RefOf(<<"a", 0>>, "key")]),
               !.secrets = Put(@, RefOf(<<"a", 0>>, "key"), "v1")]

\* One session refers to a secret the file does not hold, one to none at all.
Stripped ==
  [Base EXCEPT !.sessions =
     Put(Put(@, <<"a", 0>>, [target |-> "t1", auth |-> "password",
                             ref |-> RefOf(<<"a", 0>>, "password")]),
         <<"a", 1>>, [target |-> "t2", auth |-> "key", ref |-> NoRef])]

FromElsewhere == {OtherComputer, Stripped}
=============================================================================
