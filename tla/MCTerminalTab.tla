---------------------------- MODULE MCTerminalTab ----------------------------
(***************************************************************************)
(* One terminal tab with two window sizes and a shell that is reopened.    *)
(***************************************************************************)
EXTENDS TerminalTab
=============================================================================
