--------------------------- MODULE MCFtpDialogue ----------------------------
(***************************************************************************)
(* Instances of FtpDialogue for TLC: one account, one directory, passive   *)
(* ports that straddle 256.                                                *)
(***************************************************************************)
EXTENDS FtpDialogueExchange, TLC

Perms == Permutations(Sessions)

MCAccounts == <<[username |-> "u", password |-> "p", root_dir |-> "/u"]>>
MCDirs == {"/", "/u", "/tmp"}
MCEntries == [d \in MCDirs |-> ".." :> "/"]
MCCwdArgs == {[absolute |-> FALSE, path |-> <<"a">>]}
MCCwdUp == {[absolute |-> FALSE, path |-> <<"..">>]}
=============================================================================
