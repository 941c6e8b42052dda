--------------------------- MODULE ChatRoomAtomic ---------------------------
(***************************************************************************)
(* The chat room implements AtomicChat: a broadcast happens when its       *)
(* thread takes the mutex, and whoever its loop has yet to reach is taken  *)
(* to have the message already.                                            *)
(***************************************************************************)
EXTENDS ChatRoom

Members == {c \in Clients : Registered(c) # {}}

\* The clients that the broadcast of b has yet to send to.
Awaiting(b) ==
  IF at[b] = "sending" THEN {refers[clients[i]] : i \in ToSend(b)} ELSE {}

Heard(c) ==
  LET late == {b \in Clients : c \in Awaiting(b)}
  IN  IF late = {} THEN stream[c]
      ELSE Append(stream[c], Message(CHOOSE b \in late : TRUE))

\* Of the messages a thread received, those it has begun to broadcast.
Begun(c) == IF at[c] = "lock" THEN taken[c] - 1 ELSE taken[c]

Atomic == INSTANCE AtomicChat
            WITH members <- Members, heard <- [c \in Clients |-> Heard(c)],
                 number <- [c \in Clients |-> Begun(c)]

\* Every broadcast is atomic, whatever joins, leaves and broadcasts run at the
\* same time: the messages two clients both get come in the same order, none is
\* lost or doubled between them, and none goes back to its sender.
AtomicSpec == Atomic!ASpec
=============================================================================
