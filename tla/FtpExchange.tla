----------------------------- MODULE FtpExchange ----------------------------
(***************************************************************************)
(* What the control connection of a session promises: strict alternation.  *)
(* The client asks only when nothing is asked and nothing is unread; the   *)
(* server answers what was asked with at most one preliminary reply and    *)
(* then exactly one completion; the client reads the replies in order.     *)
(***************************************************************************)
EXTENDS Sequences

CONSTANT Sessions

VARIABLES
  joined,  \* the client is connected
  asked,   \* the server owes a completion
  unread   \* the replies the client has not read

evars == <<joined, asked, unread>>

EInit ==
  /\ joined = [s \in Sessions |-> FALSE]
  /\ asked = [s \in Sessions |-> FALSE]
  /\ unread = [s \in Sessions |-> <<>>]

\* The server owes the greeting, unless it closes the connection at once.
Join(s) ==
  /\ ~joined[s]
  /\ joined' = [joined EXCEPT ![s] = TRUE]
  /\ \E owes \in BOOLEAN : asked' = [asked EXCEPT ![s] = owes]
  /\ UNCHANGED unread

Ask(s) ==
  /\ joined[s] /\ ~asked[s] /\ unread[s] = <<>>
  /\ asked' = [asked EXCEPT ![s] = TRUE]
  /\ UNCHANGED <<joined, unread>>

\* The client reads the oldest reply, and may ask again at once if it was the
\* last one due.
Read(s) ==
  /\ unread[s] # <<>>
  /\ unread' = [unread EXCEPT ![s] = Tail(@)]
  /\ \/ UNCHANGED asked
     \/ ~asked[s] /\ Len(unread[s]) = 1 /\ asked' = [asked EXCEPT ![s] = TRUE]
  /\ UNCHANGED joined

Begin(s) ==
  /\ asked[s] /\ unread[s] = <<>>
  /\ unread' = [unread EXCEPT ![s] = <<"preliminary">>]
  /\ UNCHANGED <<joined, asked>>

Complete(s) ==
  /\ asked[s]
  /\ asked' = [asked EXCEPT ![s] = FALSE]
  /\ unread' = [unread EXCEPT ![s] = Append(@, "completion")]
  /\ UNCHANGED joined

\* The client hangs up.
Leave(s) ==
  /\ joined[s]
  /\ joined' = [joined EXCEPT ![s] = FALSE]
  /\ asked' = [asked EXCEPT ![s] = FALSE]
  /\ unread' = [unread EXCEPT ![s] = <<>>]

ENext ==
  \E s \in Sessions :
    Join(s) \/ Ask(s) \/ Read(s) \/ Begin(s) \/ Complete(s) \/ Leave(s)

ESpec == EInit /\ [][ENext]_evars
=============================================================================
