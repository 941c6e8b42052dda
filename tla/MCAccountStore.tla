--------------------------- MODULE MCAccountStore ---------------------------
(***************************************************************************)
(* Instances of AccountStore for TLC: every file of up to three lines, of  *)
(* six kinds, and room for two accounts.                                   *)
(***************************************************************************)
EXTENDS AccountStore

MCDefaults ==
  <<[username |-> "admin", password |-> "admin", root_dir |-> "/tmp"],
    [username |-> "user", password |-> "user", root_dir |-> "/tmp"]>>

MCLines ==
  {<<"#">>, <<"">>, <<"u", "p", "/u">>, <<"w", "q", "/w">>,
   <<"u", "", "/u">>, <<"u", "p", "", "/u", "x">>}
MCFiles == UNION {[1..n -> MCLines] : n \in 0..3}
=============================================================================
