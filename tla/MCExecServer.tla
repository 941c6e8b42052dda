---------------------------- MODULE MCExecServer ----------------------------
(***************************************************************************)
(* Two clients.                                                            *)
(***************************************************************************)
EXTENDS ExecServer

CONSTANTS c1, c2
=============================================================================
