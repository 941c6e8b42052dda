----------------------------- MODULE MCChatRoom -----------------------------
(***************************************************************************)
(* Instances of ChatRoom for TLC.                                          *)
(***************************************************************************)
EXTENDS ChatRoomAtomic, TLC

Perms == Permutations(Clients)
=============================================================================
