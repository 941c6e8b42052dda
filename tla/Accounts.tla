------------------------------ MODULE Accounts ------------------------------
(***************************************************************************)
(* The in-memory account table of the FTP server (account.c) as pure       *)
(* operators.  A table is the sequence g_accounts[0 .. g_account_count-1]  *)
(* of the C program; entry k of the array is element k+1 here.  A name, a  *)
(* password and a directory are opaque values compared for equality        *)
(* (strcmp).                                                               *)
(***************************************************************************)
EXTENDS Integers, Sequences, FiniteSets

\* The indices at which a lookup that compares the username (and, for a
\* login, the password) would succeed.
WithUsername(g_accounts, username) ==
  {i \in DOMAIN g_accounts : g_accounts[i].username = username}

WithLogin(g_accounts, username, password) ==
  {i \in WithUsername(g_accounts, username) :
      g_accounts[i].password = password}

\* Every lookup is a for loop from index 0 that returns at the first match.
First(indices) == CHOOSE i \in indices : \A j \in indices : i <= j

\* validate_login: the C index of the first entry whose username and password
\* both match, or -1.
validate_login(g_accounts, username, password) ==
  LET found == WithLogin(g_accounts, username, password)
  IN  IF found = {} THEN -1 ELSE First(found) - 1

\* get_user_root_dir: the root of the first entry with that username; NULL is
\* turned into the default by its only caller, so the default is returned here.
get_user_root_dir(g_accounts, username, default) ==
  LET found == WithUsername(g_accounts, username)
  IN  IF found = {} THEN default ELSE g_accounts[First(found)].root_dir

=============================================================================
