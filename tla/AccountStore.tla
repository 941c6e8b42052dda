---------------------------- MODULE AccountStore ----------------------------
(***************************************************************************)
(* The account file of the FTP server and the table main makes of it when  *)
(* it starts: load_accounts, or, when the file cannot be opened, the       *)
(* default accounts and save_accounts.  The server has no command that     *)
(* adds an account later; an administrator edits the file while it is      *)
(* down.  The process may be killed or interrupted at any step.            *)
(*                                                                         *)
(* A line of the file is the sequence of its fields between colons; a      *)
(* comment starts with the field Comment, an empty line is <<Empty>>.      *)
(***************************************************************************)
EXTENDS Accounts, SequencesExt

CONSTANTS
  MAX_ACCOUNTS,
  Defaults,     \* the accounts main adds when it finds no file
  EditedFiles   \* the files an administrator may write

Comment == "#"
Empty == ""

Files == Seq(Seq(STRING))

ASSUME StoreAssumption ==
  /\ MAX_ACCOUNTS \in Nat /\ EditedFiles \subseteq Files
  /\ Defaults \in Seq([username : STRING, password : STRING, root_dir : STRING])
  /\ Len(Defaults) <= MAX_ACCOUNTS

\* The default accounts differ in name; no field is empty or makes a comment.
ASSUME DefaultsAssumption ==
  /\ \A i, j \in DOMAIN Defaults : Defaults[i].username = Defaults[j].username => i = j
  /\ \A i \in DOMAIN Defaults :
       /\ Defaults[i].username \notin {Empty, Comment}
       /\ Defaults[i].password # Empty /\ Defaults[i].root_dir # Empty

VARIABLES
  phase,       \* down, saving (between fopen and fclose), serving
  exists,      \* the account file exists
  file,        \* its lines
  g_accounts,  \* the table in memory
  buffer,      \* lines printed to the file and not yet written to disk
  edited       \* an administrator wrote the file

svars == <<phase, exists, file, g_accounts, buffer, edited>>

SInit ==
  /\ phase = "down" /\ exists = FALSE /\ file = <<>>
  /\ g_accounts = <<>> /\ buffer = <<>> /\ edited = FALSE
-----------------------------------------------------------------------------
\* strtok: the first field past i that is not empty; past the last one, NULL.
strtok(line, i) ==
  First({j \in DOMAIN line : j > i /\ line[j] # Empty} \cup {Len(line) + 1})

\* A line is an account when the third call, too, finds a field.
Username(line) == strtok(line, 0)
Password(line) == strtok(line, Username(line))
RootDir(line)  == strtok(line, Password(line))

IsAccount(line) == line[1] # Comment /\ RootDir(line) <= Len(line)

Account(line) ==
  [username |-> line[Username(line)], password |-> line[Password(line)],
   root_dir |-> line[RootDir(line)]]

\* The table after each line of load_accounts' loop.
Reads(lines) ==
  LET table[n \in 0..Len(lines)] ==
        IF n = 0 THEN <<>>
        ELSE IF Len(table[n - 1]) < MAX_ACCOUNTS /\ IsAccount(lines[n])
             THEN Append(table[n - 1], Account(lines[n])) ELSE table[n - 1]
  IN  table

load_accounts(lines) == Reads(lines)[Len(lines)]

\* add_account: unless the table is full or has the username.
add_account(table, account) ==
  IF Len(table) >= MAX_ACCOUNTS \/ WithUsername(table, account.username) # {}
  THEN table ELSE Append(table, account)

\* The table after each of main's calls of add_account.
Adds(accounts) ==
  LET table[n \in 0..Len(accounts)] ==
        IF n = 0 THEN <<>> ELSE add_account(table[n - 1], accounts[n])
  IN  table

\* Mutant: the password is saved after the root.
Line_Swapped(account) ==
  <<account.username, account.root_dir, account.password>>

Line(account) == <<account.username, account.password, account.root_dir>>

\* main, up to its accept loop, when the file can be read.
Loads ==
  /\ phase = "down" /\ exists
  /\ g_accounts' = load_accounts(file)
  /\ phase' = "serving"
  /\ UNCHANGED <<exists, file, buffer, edited>>

\* The first lines of the file.
Heading == <<<<Comment>>, <<Comment>>, <<Empty>>>>

\* The file cannot be opened: default accounts, which save_accounts saves if it
\* can create the file; its result is ignored.
AddsDefaults ==
  /\ phase = "down" /\ ~exists
  /\ g_accounts' = Adds(Defaults)[Len(Defaults)]
  /\ \/ /\ phase' = "saving"
        /\ exists' = TRUE /\ file' = <<>>
        /\ buffer' = Heading
     \/ phase' = "serving" /\ UNCHANGED <<exists, file, buffer>>
  /\ UNCHANGED edited

\* One fprintf of save_accounts: it stays in stdio's buffer.
Prints ==
  /\ phase = "saving"
  /\ Len(buffer) < Len(Heading) + Len(g_accounts)
  /\ buffer' = Append(buffer, Line(g_accounts[Len(buffer) - Len(Heading) + 1]))
  /\ UNCHANGED <<phase, exists, file, g_accounts, edited>>

\* Mutant: the loop ends one account early.
Saved_Early ==
  /\ phase = "saving"
  /\ Len(buffer) = Len(Heading) + Len(g_accounts) - 1
  /\ file' = buffer /\ buffer' = <<>>
  /\ phase' = "serving"
  /\ UNCHANGED <<exists, g_accounts, edited>>

\* fclose writes the buffer.
Saved ==
  /\ phase = "saving"
  /\ Len(buffer) = Len(Heading) + Len(g_accounts)
  /\ file' = buffer /\ buffer' = <<>>
  /\ phase' = "serving"
  /\ UNCHANGED <<exists, g_accounts, edited>>

\* Ctrl-C: exit in the signal handler writes what was printed so far.
Interrupted ==
  /\ phase # "down"
  /\ phase' = "down" /\ g_accounts' = <<>> /\ buffer' = <<>>
  /\ file' = IF phase = "saving" THEN buffer ELSE file
  /\ UNCHANGED <<exists, edited>>

\* Killed: what was printed is lost.
Killed ==
  /\ phase # "down"
  /\ phase' = "down" /\ g_accounts' = <<>> /\ buffer' = <<>>
  /\ UNCHANGED <<exists, file, edited>>

Edits ==
  /\ phase = "down"
  /\ file' \in EditedFiles /\ exists' = TRUE
  /\ edited' = TRUE
  /\ UNCHANGED <<phase, g_accounts, buffer>>

SNext ==
  \/ Loads \/ AddsDefaults \/ Prints \/ Saved \/ Interrupted \/ Killed \/ Edits

SSpec == SInit /\ [][SNext]_svars
-----------------------------------------------------------------------------
\* The table in memory fits its array, and is what the next start will read from
\* the file: reading back what save_accounts wrote changes nothing, and no
\* account is dropped by either.
TableIsFile ==
  /\ Len(g_accounts) <= MAX_ACCOUNTS
  /\ phase = "serving" /\ exists => load_accounts(file) = g_accounts

\* Whatever step a save was interrupted at, the next table is the beginning of
\* the default accounts: never a part of an account, never a wrong one.
PrefixOfDefaults ==
  phase = "serving" /\ ~edited => IsPrefix(g_accounts, Defaults)
======================================================================
