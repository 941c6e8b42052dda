----------------------------- MODULE AtomicChat -----------------------------
(***************************************************************************)
(* What a chat room promises: what a member says goes to all the other     *)
(* members at once, so that any two of them see the messages they both get *)
(* in the same order, each once, and no message comes back to its sender.  *)
(***************************************************************************)
EXTENDS Naturals, Sequences

CONSTANT Clients

VARIABLES
  members,    \* who is in the room
  heard,      \* what was sent to each client, in order
  number      \* how many messages each client's were

avars == <<members, heard, number>>

AInit ==
  /\ members = {}
  /\ heard = [c \in Clients |-> <<>>]
  /\ number = [c \in Clients |-> 0]

Joins(c) ==
  /\ c \notin members
  /\ members' = members \cup {c}
  /\ UNCHANGED <<heard, number>>

Leaves(c) ==
  /\ c \in members
  /\ members' = members \ {c}
  /\ UNCHANGED <<heard, number>>

\* The server shuts down.
AllLeave ==
  /\ members' = {}
  /\ UNCHANGED <<heard, number>>

Says(c) ==
  /\ c \in members
  /\ number' = [number EXCEPT ![c] = @ + 1]
  /\ heard' = [d \in Clients |->
                 IF d \in members \ {c}
                 THEN Append(heard[d], <<c, number'[c]>>) ELSE heard[d]]
  /\ UNCHANGED members

\* What somebody says who is not in the room any more reaches nobody.
SaysTooLate(c) ==
  /\ c \notin members
  /\ number' = [number EXCEPT ![c] = @ + 1]
  /\ UNCHANGED <<members, heard>>

ANext ==
  \/ AllLeave
  \/ \E c \in Clients : Joins(c) \/ Leaves(c) \/ Says(c) \/ SaysTooLate(c)

ASpec == AInit /\ [][ANext]_avars
=============================================================================
