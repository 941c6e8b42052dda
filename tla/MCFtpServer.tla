---------------------------- MODULE MCFtpServer -----------------------------
(***************************************************************************)
(* Instances of FtpServer for TLC: two accounts with different trees, a    *)
(* small file system in which ".." leads from one tree to the other, and    *)
(* passive ports that straddle 256 so that the two bytes of a 227 reply     *)
(* both matter.                                                            *)
(***************************************************************************)
EXTENDS FtpPorts, TLC

Perms == Permutations(Sessions)

MCOneAccount == <<[username |-> "u", password |-> "p", root_dir |-> "/u"]>>
MCAccounts ==
  <<[username |-> "u", password |-> "p", root_dir |-> "/u"],
    [username |-> "w", password |-> "q", root_dir |-> "/w"]>>

MCFlatDirs == {"/u", "/tmp"}
MCFlatEntries == [d \in MCFlatDirs |-> <<>>]

MCDirs == {"/", "/u", "/u/a", "/w", "/tmp"}
MCEntries ==
  [d \in MCDirs |->
     CASE d = "/"    -> (".." :> "/" @@ "u" :> "/u" @@ "w" :> "/w")
       [] d = "/u"   -> (".." :> "/" @@ "a" :> "/u/a")
       [] d = "/u/a" -> (".." :> "/u")
       [] OTHER      -> (".." :> "/")]

MCCwdArgs ==
  [absolute : BOOLEAN, path : {<<"a">>, <<"..">>, <<"w">>}]
=============================================================================
