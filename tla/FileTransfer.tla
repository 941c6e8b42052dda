---------------------------- MODULE FileTransfer ----------------------------
(***************************************************************************)
(* What moving a file promises, whatever the protocol: the receiver's copy *)
(* is at every moment a prefix of the sender's file, it only grows, and a  *)
(* copy that is declared complete is the whole file and stays so.          *)
(***************************************************************************)
EXTENDS Naturals, Sequences

VARIABLES
  file,     \* the sender's file: the sequence of its pieces
  saved,    \* the receiver's copy
  complete  \* the program that ends the transfer found the copy complete

vars == <<file, saved, complete>>

Init ==
  /\ saved = <<>>
  /\ complete = FALSE

\* Some of the pieces that are missing arrive.
Grow ==
  /\ ~complete
  /\ \E n \in Len(saved) .. Len(file) : saved' = SubSeq(file, 1, n)
  /\ UNCHANGED file
  /\ complete' \in BOOLEAN /\ (complete' => saved' = file)

Spec == Init /\ [][Grow]_vars
=============================================================================
