------------------------- MODULE FtpDialogueExchange -------------------------
(***************************************************************************)
(* FtpDialogue implements FtpExchange: the client's and the server's       *)
(* programs keep to strict alternation, as long as a recv returns one      *)
(* message and the client can store what it downloads.                     *)
(***************************************************************************)
EXTENDS FtpDialogue

Joined(s) == client[s] \notin {<<"new", "">>, Off}

\* What the server has yet to complete: the greeting, a command on its way, or
\* a transfer.
Asked(s) ==
  Joined(s) /\ \/ commands[s] # <<>>
               \/ at[s] \in {"starting"} \cup Accepting \cup Transferring

Class(code) == IF code = 150 THEN "preliminary" ELSE "completion"

Exchange == INSTANCE FtpExchange WITH
  joined <- [s \in Sessions |-> Joined(s)],
  asked  <- [s \in Sessions |-> Asked(s)],
  unread <- [s \in Sessions |->
               [i \in DOMAIN replies[s] |-> Class(replies[s][i].code)]]

\* The control connection of every session alternates strictly between the
\* client's commands and the server's replies.
ExchangeSpec == Exchange!ESpec
=============================================================================
