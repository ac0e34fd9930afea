----------------------------- MODULE MCHostTrust -----------------------------
(***************************************************************************)
(* One host with two key algorithms; one key is stored, in the older form, *)
(* and the file a user may import trusts another one.                      *)
(***************************************************************************)
EXTENDS HostTrust

Unavailable == [type |-> "unavailable", print |-> "unavailable"]
OlderForm   == {[type |-> "rsa", print |-> "p1"]}
FromFriend  == {[keys |-> {[type |-> "ed25519", print |-> "p2"]}, legacy |-> {}]}
=============================================================================
