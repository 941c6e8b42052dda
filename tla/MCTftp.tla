------------------------------- MODULE MCTftp -------------------------------
(***************************************************************************)
(* TFTP with block numbers of 3 bits: a signed one holds -4 to 3.          *)
(***************************************************************************)
EXTENDS Tftp
=============================================================================
