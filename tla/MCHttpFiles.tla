----------------------------- MODULE MCHttpFiles -----------------------------
(***************************************************************************)
(* Two requests; the two would upload files of different sizes.            *)
(***************************************************************************)
EXTENDS HttpFiles, TLC

CONSTANTS r1, r2

MCPieces == r1 :> 1 @@ r2 :> 2
=============================================================================
