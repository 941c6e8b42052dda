----------------------------- MODULE ExecServer -----------------------------
(***************************************************************************)
(* The multithreaded command server, assignment/multithread_exec_server.c. *)
(* Its main thread, registry and Ctrl-C are those of the chat room, line   *)
(* for line, and so are the actions; the threads are its own: each runs    *)
(* its client's commands with popen, sends the output, then logs it.       *)
(*                                                                         *)
(* A command is a process forked from the server: it inherits every open   *)
(* descriptor, and a connection the server has closed ends for its client  *)
(* when the last command that holds it does, unless it was shut down.      *)
(***************************************************************************)
EXTENDS ChatRoom

CONSTANT Endless  \* the clients whose commands need not end

ASSUME ExecAssumption == Endless \subseteq Clients

VARIABLES
  command,     \* the command a thread runs or has run: which of its client's
  inherited,   \* connections the command holds, while it runs
  file_mutex,  \* the thread that holds it, None or Destroyed
  log          \* tmp.txt: an entry is its head and its tail

commands == <<command, inherited, file_mutex, log>>
server   == <<process, stop_server, listening, main, client_fd, refers, registry,
              clients_mutex>>
execVars == <<vars, commands>>

\* main truncates the log before it accepts anybody.
ExecInit ==
  /\ Init
  /\ command = [c \in Clients |-> 0]
  /\ inherited = [c \in Clients |-> {}]
  /\ file_mutex = None
  /\ log = <<>>
-----------------------------------------------------------------------------
(***************************************************************************)
(* The main thread.                                                        *)
(***************************************************************************)
\* accept, and add_client or the notice that the server is full.
Admits ==
  /\ \/ Registers \/ Rejects \/ \E c \in Clients : Accepts(c)
  /\ UNCHANGED commands

\* The thread, or the error paths that undo the registration.
Spawns ==
  /\ CreateFails \/ \E c \in Clients : CreatesThread(c)
  /\ UNCHANGED commands

Loops == (Checks \/ AcceptFails) /\ UNCHANGED commands

\* After the loop; both mutexes are destroyed unless held.
Shutdown ==
  \/ (ClosesAll \/ Exits) /\ UNCHANGED commands
  \/ /\ Destroys
     /\ file_mutex' = IF file_mutex = None THEN Destroyed ELSE file_mutex
     /\ UNCHANGED <<command, inherited, log>>

Interrupted == handle_sigint /\ UNCHANGED commands
-----------------------------------------------------------------------------
(***************************************************************************)
(* A client's thread.                                                      *)
(***************************************************************************)
\* send to the thread's own client, its result ignored; it blocks while the
\* connection is full.  Once main has closed the descriptor it fails.
SendsOwn(c, what) ==
  IF refers[client_sock[c]] = c
  THEN /\ conn[c] # "open" \/ unread[c] < Room
       /\ \E after \in AfterSend(conn[c]) : conn' = [conn EXCEPT ![c] = after]
       /\ stream' = [stream EXCEPT ![c] = Append(@, <<c, what>>)]
       /\ unread' = [unread EXCEPT ![c] = IF conn[c] = "open" THEN @ + 1 ELSE 0]
       /\ UNCHANGED said
  ELSE UNCHANGED network

Welcome == 0
Welcomed(c) == stream[c] # <<>> \/ refers[client_sock[c]] # c

Welcomes(c) ==
  /\ at[c] = "recv" /\ ~Welcomed(c)
  /\ SendsOwn(c, Welcome)
  /\ Go(c, "recv")
  /\ UNCHANGED <<server, client_sock, slot, taken, commands>>

\* recv returns what has arrived; strcspn cuts it at the first line's end, so
\* that further lines in the same recv are lost.
TakesLine(c) ==
  /\ at[c] = "recv" /\ Welcomed(c)
  /\ refers[client_sock[c]] = c
  /\ \E n \in (taken[c] + 1)..said[c] : taken' = [taken EXCEPT ![c] = n]
  /\ command' = [command EXCEPT ![c] = taken[c] + 1]
  /\ UNCHANGED <<server, client_sock, slot, network, file_mutex, log>>

\* An empty line is skipped, "exit" is obeyed.
TakesWord(c) ==
  /\ TakesLine(c)
  /\ Go(c, "recv") \/ Go(c, "goodbye")
  /\ UNCHANGED inherited

Open == {c \in Clients : \E fd \in Descriptors : refers[fd] = c}

\* Anything else is given to popen: a child of the whole process.
Runs(c) ==
  /\ TakesLine(c)
  /\ inherited' = [inherited EXCEPT ![c] = Open]
  /\ Go(c, "run")

\* popen fails, and that is the answer.
RunFails(c) ==
  /\ TakesLine(c)
  /\ Go(c, "answer")
  /\ UNCHANGED inherited

SaysGoodbye(c) ==
  /\ at[c] = "goodbye"
  /\ SendsOwn(c, command[c])
  /\ Go(c, "remove")
  /\ UNCHANGED <<server, client_sock, slot, taken, commands>>

Disconnected(c) == Ends(c) /\ Welcomed(c) /\ UNCHANGED commands

\* fread and pclose have waited for the command.
Finishes(c) ==
  /\ at[c] = "run"
  /\ inherited' = [inherited EXCEPT ![c] = {}]
  /\ Go(c, "answer")
  /\ UNCHANGED <<server, client_sock, slot, taken, network, command, file_mutex, log>>

Answers(c) ==
  /\ at[c] = "answer"
  /\ SendsOwn(c, command[c])
  /\ Go(c, "log")
  /\ UNCHANGED <<server, client_sock, slot, taken, commands>>

\* SIGPIPE: the client was known to be gone when its answer is sent.
Killed(c) ==
  /\ at[c] \in {"goodbye", "answer"} /\ refers[client_sock[c]] = c
  /\ conn[c] = "rst"
  /\ process = "running" /\ process' = "killed"
  /\ UNCHANGED <<stop_server, listening, main, client_fd, refers, registry,
                 clients_mutex, threads, network, commands>>

\* Mutant: the log is written without the mutex.
LocksFile_Not(c) ==
  /\ at[c] = "log"
  /\ Go(c, "head")
  /\ UNCHANGED <<server, client_sock, slot, taken, network, commands>>

\* write_to_file: lock and fopen.
LocksFile(c) ==
  /\ at[c] = "log" /\ file_mutex \in {None, Destroyed}
  /\ file_mutex' = IF file_mutex = None THEN c ELSE file_mutex
  /\ Go(c, "head")
  /\ UNCHANGED <<server, client_sock, slot, taken, network, command, inherited, log>>

\* Mutant: the error path returns with the mutex held.
OpenFails_KeepsMutex(c) ==
  /\ at[c] = "log" /\ file_mutex \in {None, Destroyed}
  /\ file_mutex' = IF file_mutex = None THEN c ELSE file_mutex
  /\ Go(c, "recv")
  /\ UNCHANGED <<server, client_sock, slot, taken, network, command, inherited, log>>

\* fopen fails: nothing is logged, and the mutex is free again.
OpenFails(c) ==
  /\ at[c] = "log" /\ file_mutex \in {None, Destroyed}
  /\ Go(c, "recv")
  /\ UNCHANGED <<server, client_sock, slot, taken, network, commands>>

Entry(c, part) == <<c, command[c], part>>

\* What stdio writes when its buffer is full.
WritesHead(c) ==
  /\ at[c] = "head"
  /\ log' = Append(log, Entry(c, "head"))
  /\ Go(c, "tail")
  /\ UNCHANGED <<server, client_sock, slot, taken, network, command, inherited, file_mutex>>

\* The rest, at fclose; then the mutex is unlocked.
WritesTail(c) ==
  /\ at[c] = "tail"
  /\ log' = Append(log, Entry(c, "tail"))
  /\ file_mutex' = IF file_mutex = c THEN None ELSE file_mutex
  /\ Go(c, "recv")
  /\ UNCHANGED <<server, client_sock, slot, taken, network, command, inherited>>

\* remove_client and close, without a shutdown.
LeavesRoom(c) == (Removes(c) \/ ClosesOwn(c)) /\ UNCHANGED commands
-----------------------------------------------------------------------------
\* Without accept, which waits for somebody to connect.
ExecMain ==
  Loops \/ Spawns \/ Shutdown \/ ((Registers \/ Rejects) /\ UNCHANGED commands)

\* What a thread does that takes no time of a command's.
ExecThread(c) ==
  \/ Welcomes(c) \/ TakesWord(c) \/ SaysGoodbye(c) \/ Disconnected(c)
  \/ Runs(c) \/ RunFails(c) \/ Answers(c) \/ Killed(c)
  \/ LocksFile(c) \/ OpenFails(c) \/ WritesHead(c) \/ WritesTail(c)
  \/ LeavesRoom(c)

\* The clients are whatever speaks TCP: they send lines, read, and go.
ExecClient(c) ==
  /\ ClientSays(c) \/ ClientReads(c) \/ ClientLeaves(c)
  /\ UNCHANGED commands

ExecNext ==
  \/ Loops \/ Admits \/ Spawns \/ Shutdown \/ Interrupted
  \/ \E c \in Clients : ExecThread(c) \/ Finishes(c) \/ ExecClient(c)

\* Threads run; clients need not read.
ExecFairSpec ==
  /\ ExecInit /\ [][ExecNext]_execVars
  /\ WF_execVars(ExecMain) /\ \A c \in Clients : WF_execVars(ExecThread(c))
  /\ \A c \in Clients \ Endless : WF_execVars(Finishes(c))
-----------------------------------------------------------------------------
(***************************************************************************)
(* Properties.                                                             *)
(***************************************************************************)
ExecSteps ==
  {"recv", "run", "answer", "goodbye", "log", "head", "tail",
   "remove"}

\* Types, and as in the chat room the registry: until main closes everything a
\* thread's descriptor is its client's and the client is in one slot.
ExecTypeOK ==
  /\ process \in {"running", "exited", "killed"}
  /\ at \in [Clients -> ExecSteps \cup {"none", "close", "done"}]
  /\ \A c \in Clients : command[c] \in 0..taken[c]
  /\ inherited \in [Clients -> SUBSET Clients]
  /\ file_mutex \in Clients \cup {None, Destroyed}
  /\ main \notin {"destroy", "exit"} =>
       /\ client_count = Cardinality(Slots \ Holding(None))
       /\ \A c \in Clients : at[c] \in ExecSteps =>
            /\ refers[client_sock[c]] = c
            /\ Cardinality(Registered(c)) = 1
            /\ Registered(c) = Holding(client_sock[c])

\* An entry of the log is never torn by another, until Ctrl-C destroys the mutex
\* under the threads (multithread_exec_server.c:303); the last may be cut short.
LogWhole ==
  file_mutex # Destroyed =>
    \A i \in 1..Len(log) :
      /\ log[i][3] = "tail" => i > 1 /\ log[i - 1] = [log[i] EXCEPT ![3] = "head"]
      /\ log[i][3] = "head" /\ i < Len(log) => log[i + 1] = [log[i] EXCEPT ![3] = "tail"]

\* An answered command gets its turn at the log, whoever else writes.
LogTurnComes ==
  \A c \in Clients : at[c] = "log" ~> at[c] # "log" \/ process # "running"

\* Ctrl-C ends the server ("Server exited cleanly.", multithread_exec_server.c:305)
\* though commands run for ever and clients do not read: nobody blocks with
\* clients_mutex held.
ExecCtrlCStops == stop_server ~> process # "running"

SeesEnd(c) == conn[c] = "closed" /\ \A d \in Clients : c \notin inherited[d]

\* A client that typed "exit" sees its connection end, although other clients'
\* commands hold it too, unless one of those need not end.
ExitIsSeen ==
  \A c \in Clients :
    at[c] = "remove" ~>
      \/ process # "running"
      \/ SeesEnd(c)
      \/ \E d \in Endless : c \in inherited[d]
=============================================================================
