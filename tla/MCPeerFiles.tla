----------------------------- MODULE MCPeerFiles -----------------------------
(***************************************************************************)
(* Two peers, namesakes or not.  A SEND to one's own name reaches one's    *)
(* own receiver too.                                                       *)
(***************************************************************************)
EXTENDS PeerFiles, TLC

CONSTANTS a, b

MCDrawn == {a :> "n1" @@ b :> "n2", a :> "n1" @@ b :> "n1"}
=============================================================================
