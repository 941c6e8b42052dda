---------------------------- MODULE FtpDialogue -----------------------------
(***************************************************************************)
(* The FTP client (client.c, ftp_client.c) talking to the FTP server.      *)
(*                                                                         *)
(* Every session of FtpServer gets its client, a loop that reads what the  *)
(* user types and sends commands; between the two are the bytes of the     *)
(* control connection, as a queue of commands and a queue of replies.  TCP *)
(* keeps no boundaries: one recv may return several replies (the client    *)
(* parses the first) or several commands (so does the server).  The        *)
(* constant Coalesces says whether that may happen, LocalFails whether the *)
(* client may fail to open the file it downloads into.                     *)
(*                                                                         *)
(* The server's half of every step is an action of FtpServer with the      *)
(* replies it sends; the client's connection to a data port is written     *)
(* here, from the digits of the 227 it read, and is one FtpServer allows   *)
(* because those digits name a port announced to this client.              *)
(***************************************************************************)
EXTENDS FtpServer

CONSTANTS
  Coalesces,   \* may one recv return more than one message?
  LocalFails,  \* may fopen of the local file fail in ftp_download?
  MaxUnread    \* bound: messages under way before the user types again

ASSUME DialogueAssumption ==
  Coalesces \in BOOLEAN /\ LocalFails \in BOOLEAN /\ MaxUnread \in Nat

VARIABLES
  client,     \* what each client is doing: <<task, step>>
  commands,   \* commands sent to the server and not received
  replies,    \* replies sent to the client and not received
  data_port,  \* the port the client's data_socket is (to be) connected to
  serving     \* the port through which the server's data_socket came

wire  == <<client, commands, replies, data_port, serving>>
dvars == <<vars, wire>>

Transfers == {"ls", "get", "put"}
Off    == <<"off", "">>
Prompt == <<"prompt", "">>

Does(s, task, step) == client' = [client EXCEPT ![s] = <<task, step>>]

NoPort == 0

DInit ==
  /\ Init
  /\ client = [s \in Sessions |-> <<"new", "">>]
  /\ commands = [s \in Sessions |-> <<>>]
  /\ replies = [s \in Sessions |-> <<>>]
  /\ data_port = [s \in Sessions |-> NoPort]
  /\ serving = [s \in Sessions |-> NoPort]
-----------------------------------------------------------------------------
(***************************************************************************)
(* The control connection.                                                 *)
(***************************************************************************)
\* How many of n waiting messages one recv returns.
Taken(n) == IF Coalesces THEN 1..n ELSE {1}

Drop(queue, k) == SubSeq(queue, k + 1, Len(queue))

\* Mutant: the port is advanced before the reply is formatted.
Reply_Advanced(s, code) ==
  [code |-> code,
   port |-> IF code = 227 THEN Announced(NextPort(pasv_port[s])) ELSE NoPort]

\* A reply as the client reads it: its code, and the port of a 227.
Reply(s, code) ==
  [code |-> code,
   port |-> IF code = 227 THEN Announced(pasv_port[s]) ELSE NoPort]

\* The reply in r, if any, is on its way, unless nobody is there to read it.
Answers(s, r) ==
  IF r = <<>> \/ client[s] = Off THEN UNCHANGED replies
  ELSE replies' = [replies EXCEPT ![s] = Append(@, Reply(s, Head(r)))]

\* The server's end is closed: by its thread, or with the whole process.
ServerGone(s) == process # "running" \/ at[s] = "done"

\* ftp_send_command; to a server that is gone the first send still succeeds.
ftp_send_command(s, name, arg) ==
  IF ServerGone(s) THEN UNCHANGED commands
  ELSE commands' =
         [commands EXCEPT ![s] = Append(@, [name |-> name, arg |-> arg])]

\* The client's recv has something to return: a reply, or the end of the
\* connection; and what ftp_recv_response makes of it.
Arrived(s) == replies[s] # <<>> \/ ServerGone(s)

Response(s) == IF replies[s] # <<>> THEN Head(replies[s])
               ELSE [code |-> -1, port |-> NoPort]

\* ftp_recv_response: with the reply it parses go any others that were received
\* by the same recv.
ftp_recv_response(s) ==
  /\ Arrived(s)
  /\ IF replies[s] = <<>> THEN UNCHANGED replies
     ELSE \E k \in Taken(Len(replies[s])) :
            replies' = [replies EXCEPT ![s] = Drop(@, k)]

\* ftp_disconnect, and the exit of the process.
ftp_disconnect(s) ==
  /\ client' = [client EXCEPT ![s] = Off]
  /\ replies' = [replies EXCEPT ![s] = <<>>]
  /\ data_port' = [data_port EXCEPT ![s] = NoPort]
  /\ \/ ServerGone(s) /\ UNCHANGED vars
     \/ /\ ~ServerGone(s)
        /\ ClientCloses(s)
        /\ pending'[s] = (commands[s] # <<>>)
-----------------------------------------------------------------------------
(***************************************************************************)
(* The client's commands.  Each is a sequence of exchanges; the client     *)
(* blocks in recv between them.                                            *)
(***************************************************************************)
\* main and ftp_connect: the server's main accepts; the client waits for 220.
ftp_connect(s) ==
  /\ client[s] = <<"new", "">>
  /\ MainAccepts(s)
  /\ Does(s, "login", "greeting")
  /\ UNCHANGED <<commands, replies, data_port, serving>>

\* ftp_connect ignores the greeting, -1 included; ftp_login sends USER.
ftp_login_USER(s) ==
  /\ client[s] = <<"login", "greeting">>
  /\ ftp_recv_response(s)
  /\ \E user \in Usernames : ftp_send_command(s, "USER", user)
  /\ Does(s, "login", "USER")
  /\ UNCHANGED <<vars, data_port, serving>>

ftp_login_PASS(s) ==
  /\ client[s] = <<"login", "USER">>
  /\ ftp_recv_response(s)
  /\ Response(s).code = 331
  /\ \E password \in Passwords : ftp_send_command(s, "PASS", password)
  /\ Does(s, "login", "PASS")
  /\ UNCHANGED <<vars, data_port, serving>>

\* 230 to USER or to PASS: logged in.
ftp_login_done(s) ==
  /\ client[s] \in {<<"login", "USER">>, <<"login", "PASS">>}
  /\ ftp_recv_response(s)
  /\ Response(s).code = 230
  /\ client' = [client EXCEPT ![s] = Prompt]
  /\ UNCHANGED <<vars, commands, data_port, serving>>

\* Any other answer ends the client.
ftp_login_fails(s) ==
  /\ \/ client[s] = <<"login", "USER">> /\ Response(s).code \notin {331, 230}
     \/ client[s] = <<"login", "PASS">> /\ Response(s).code # 230
  /\ Arrived(s)
  /\ ftp_disconnect(s)
  /\ UNCHANGED <<commands, serving>>

\* The user types a command at the prompt.
UserTypes(s) ==
  /\ client[s] = Prompt
  /\ Len(commands[s]) + Len(replies[s]) < MaxUnread
  /\ \/ ftp_send_command(s, "PWD", "") /\ Does(s, "pwd", "reply")
     \/ /\ \E arg \in CwdArgs : ftp_send_command(s, "CWD", arg)
        /\ Does(s, "cd", "reply")
     \/ /\ ftp_send_command(s, "PASV", "")
        /\ \E task \in Transfers : Does(s, task, "pasv")
     \/ ftp_send_command(s, "QUIT", "") /\ Does(s, "quit", "reply")
  /\ UNCHANGED <<vars, replies, data_port, serving>>

\* End of file at the prompt ends the client without a QUIT.
UserLeaves(s) ==
  /\ client[s] = Prompt
  /\ ftp_disconnect(s)
  /\ UNCHANGED <<commands, serving>>

\* ftp_pwd, ftp_cwd, and the last ftp_recv_response of a transfer, whose result
\* is ignored.
TakesLastReply(s) ==
  /\ client[s] \in {<<"pwd", "reply">>, <<"cd", "reply">>} \cup
                   (Transfers \X {"end"})
  /\ ftp_recv_response(s)
  /\ client' = [client EXCEPT ![s] = Prompt]
  /\ UNCHANGED <<vars, commands, data_port, serving>>

\* ftp_quit: the reply is ignored.
ftp_quit(s) ==
  /\ client[s] = <<"quit", "reply">>
  /\ Arrived(s)
  /\ ftp_disconnect(s)
  /\ UNCHANGED <<commands, serving>>

\* ftp_pasv: the port of a 227 is where to connect.
ftp_pasv(s, task) ==
  /\ client[s] = <<task, "pasv">>
  /\ ftp_recv_response(s)
  /\ IF Response(s).code = 227
     THEN /\ data_port' = [data_port EXCEPT ![s] = Response(s).port]
          /\ Does(s, task, "connect")
     ELSE client' = [client EXCEPT ![s] = Prompt] /\ UNCHANGED data_port
  /\ UNCHANGED <<vars, commands, serving>>

Verb(task) == CASE task = "ls" -> "LIST" [] task = "get" -> "RETR"
                [] OTHER -> "STOR"

\* connect succeeds: the connection waits at the listener, LIST, RETR or STOR
\* is sent.
ConnectsData(s, task) ==
  /\ client[s] = <<task, "connect">>
  /\ process = "running"
  /\ \E t \in Sessions :
       /\ pasv_listen_socket[t] = data_port[s]
       /\ Len(backlog[t]) < Backlog
       /\ backlog' = [backlog EXCEPT ![t] = Append(@, s)]
  /\ ftp_send_command(s, Verb(task), "")
  /\ Does(s, task, "reply")
  /\ UNCHANGED <<process, g_pasv_port_counter, at, auth, pasv_port, pasv_count,
                 pasv_listen_socket, announced, transfer, ctrl, pending,
                 replies, data_port, serving>>

\* connect fails: nobody listens there (any more).
ConnectFails(s, task) ==
  /\ client[s] = <<task, "connect">>
  /\ \/ process # "running"
     \/ \A t \in Sessions : pasv_listen_socket[t] # data_port[s]
  /\ data_port' = [data_port EXCEPT ![s] = NoPort]
  /\ client' = [client EXCEPT ![s] = Prompt]
  /\ UNCHANGED <<vars, commands, replies, serving>>

\* The reply to LIST, RETR or STOR: 150 begins the transfer; on anything else,
\* and when the local file cannot be opened, the client closes its end.
BeginsData(s, task) ==
  /\ client[s] = <<task, "reply">>
  /\ ftp_recv_response(s)
  /\ \/ /\ Response(s).code = 150
        /\ Does(s, task, "data")
        /\ UNCHANGED data_port
     \/ /\ Response(s).code # 150 \/ (task = "get" /\ LocalFails)
        /\ client' = [client EXCEPT ![s] = Prompt]
        /\ data_port' = [data_port EXCEPT ![s] = NoPort]
  /\ UNCHANGED <<vars, commands, serving>>

\* The server's end of the data connection is closed, or never was: the listener
\* it waited at is gone.
DataEnded(s) ==
  \/ process # "running"
  \/ \A t \in Sessions :
       /\ ~(/\ pasv_listen_socket[t] = data_port[s]
            /\ \E i \in DOMAIN backlog[t] : backlog[t][i] = s)
       /\ ~(data_socket[t] = s /\ serving[t] = data_port[s])

\* Mutants: the last reply is not awaited; the data connection is left open.
FinishesData_NoEnd(s, task) ==
  /\ client[s] = <<task, "data">>
  /\ task \in {"ls", "get"} => DataEnded(s)
  /\ data_port' = [data_port EXCEPT ![s] = NoPort]
  /\ client' = [client EXCEPT ![s] = Prompt]
  /\ UNCHANGED <<vars, commands, replies, serving>>

FinishesData_KeepsOpen(s, task) ==
  /\ client[s] = <<task, "data">>
  /\ task \in {"ls", "get"} => DataEnded(s)
  /\ Does(s, task, "end")
  /\ UNCHANGED <<vars, commands, replies, data_port, serving>>

\* ls and get receive until the server closes; put sends its file and closes.
FinishesData(s, task) ==
  /\ client[s] = <<task, "data">>
  /\ task \in {"ls", "get"} => DataEnded(s)
  /\ data_port' = [data_port EXCEPT ![s] = NoPort]
  /\ Does(s, task, "end")
  /\ UNCHANGED <<vars, commands, replies, serving>>

\* A second send to a server that is gone raises SIGPIPE in the client.
ClientKilled(s) ==
  /\ client[s] \notin {<<"new", "">>, Off}
  /\ ServerGone(s)
  /\ ftp_disconnect(s)
  /\ UNCHANGED <<commands, serving>>
-----------------------------------------------------------------------------
(***************************************************************************)
(* The server's steps.                                                     *)
(***************************************************************************)
Handles(s, cmd, r) ==
  \/ cmd.name = "USER" /\ handle_USER(s, cmd.arg, r)
  \/ cmd.name = "PASS" /\ handle_PASS(s, cmd.arg, r)
  \/ cmd.name = "PWD"  /\ handle_PWD(s, r)
  \/ cmd.name = "CWD"  /\ handle_CWD(s, cmd.arg, r)
  \/ cmd.name = "PASV" /\ handle_PASV(s, r)
  \/ cmd.name = "LIST" /\ handle_LIST(s, r)
  \/ cmd.name = "RETR" /\ handle_RETR(s, r)
  \/ cmd.name = "STOR" /\ handle_STOR(s, r)
  \/ cmd.name = "QUIT" /\ handle_QUIT(s, r)

\* client_thread: recv returns the first command and perhaps later ones, which
\* are dropped with the rest of the buffer.
ServerReads(s, r) ==
  /\ commands[s] # <<>>
  /\ Handles(s, Head(commands[s]), r)
  /\ \E k \in Taken(Len(commands[s])) :
       /\ commands' = [commands EXCEPT ![s] = Drop(@, k)]
       /\ pending'[s] = (pending[s] /\ k < Len(commands[s]))
  /\ Answers(s, r)
  /\ UNCHANGED <<client, data_port, serving>>

ServerProceeds(s, r) ==
  /\ Proceeds(s, r)
  /\ serving' = IF at[s] \in Accepting
                THEN [serving EXCEPT ![s] = pasv_listen_socket[s]] ELSE serving
  /\ Answers(s, r)
  /\ UNCHANGED <<client, commands, data_port>>

ServerAcceptFails(s, r) ==
  /\ AcceptFails(s, r)
  /\ Answers(s, r)
  /\ UNCHANGED <<client, commands, data_port, serving>>

\* The end of a data connection the client has closed reaches the server.
DataEndArrives(s) ==
  /\ ClientEndsData(s)
  /\ \E c \in Sessions : data_socket[s] = c /\ data_port[c] # serving[s]
  /\ UNCHANGED wire

\* Ctrl-C, SIGPIPE, or a handler that overruns an array of its own.
ServerDies ==
  /\ \/ Sigint
     \/ \E s \in Sessions :
          \/ SigPipe(s)
          \/ OverrunsListing(s)
          \/ \E arg \in CwdArgs :
               /\ commands[s] # <<>>
               /\ Head(commands[s]) = [name |-> "CWD", arg |-> arg]
               /\ OverrunsPath(s, arg)
  /\ UNCHANGED wire
-----------------------------------------------------------------------------
ServerThread(s) == \E r \in Replies : ServerReads(s, r) \/ ServerProceeds(s, r)

\* What the client does without its user.
ClientProcess(s) ==
  \/ ftp_login_USER(s) \/ ftp_login_PASS(s)
  \/ ftp_login_done(s) \/ ftp_login_fails(s)
  \/ TakesLastReply(s)
  \/ ftp_quit(s)
  \/ \E task \in Transfers :
       \/ ftp_pasv(s, task)
       \/ ConnectsData(s, task)
       \/ ConnectFails(s, task)
       \/ BeginsData(s, task)
       \/ FinishesData(s, task)

DNext ==
  \/ \E s \in Sessions :
       \/ ftp_connect(s)
       \/ ClientProcess(s)
       \/ UserTypes(s)
       \/ UserLeaves(s)
       \/ ClientKilled(s)
       \/ ServerThread(s)
       \/ \E r \in Replies : ServerAcceptFails(s, r)
       \/ DataEndArrives(s)
  \/ ServerDies

DSpec == DInit /\ [][DNext]_dvars

\* The threads and the clients run, and TCP delivers; users and failures owe
\* nothing.
Fairness ==
  \A s \in Sessions :
    /\ WF_dvars(ClientProcess(s))
    /\ WF_dvars(ServerThread(s))
    /\ WF_dvars(DataEndArrives(s))

FairDSpec == DSpec /\ Fairness
-----------------------------------------------------------------------------
(***************************************************************************)
(* Properties.                                                             *)
(***************************************************************************)
Commands ==
  [name : {"USER"}, arg : Usernames] \cup [name : {"PASS"}, arg : Passwords]
    \cup [name : {"CWD"}, arg : CwdArgs]
    \cup [name : {"PWD", "PASV", "LIST", "RETR", "STOR", "QUIT"}, arg : {""}]

\* The replies a client may have: the port of a 227 was announced to it.
Messages(s) ==
  {m \in [code : Codes, port : Ports \cup {NoPort}] :
     m.code = 227 => m.port \in announced[s]}

Doings ==
  {<<"new", "">>, Prompt, Off, <<"pwd", "reply">>, <<"cd", "reply">>,
   <<"quit", "reply">>} \cup ({"login"} \X {"greeting", "USER", "PASS"})
   \cup (Transfers \X {"pasv", "connect", "reply", "data", "end"})

\* Types of the client's state and of what is under way; a 227 on its way to
\* a client, and the port the client takes from it, are ports PASV announced to
\* this very client, however late they are used.
DTypeOK ==
  /\ client \in [Sessions -> Doings]
  /\ commands \in [Sessions -> Seq(Commands)]
  /\ data_port \in [Sessions -> Ports \cup {NoPort}]
  /\ serving \in [Sessions -> Ports \cup {NoPort, NoSocket}]
  /\ DOMAIN replies = Sessions
  /\ \A s \in Sessions :
       /\ replies[s] \in Seq(Messages(s))
       /\ data_port[s] # NoPort => data_port[s] \in announced[s]

\* "Gui lenh va doi phan hoi" (ftp_client.c:99): when the client is back at its
\* prompt everything it asked for is answered and every answer is read, so that
\* the next reply it reads is the reply to its next command.
PromptIsQuiet ==
  \A s \in Sessions :
    client[s] = Prompt /\ ~ServerGone(s) =>
      at[s] = "loop" /\ commands[s] = <<>> /\ replies[s] = <<>>

\* "Nhan response ket thuc" (ftp_client.c:308): the client never waits for a
\* reply while its server thread waits for the client.
ClientWaits(s) ==
  client[s][2] \in {"greeting", "USER", "PASS", "reply", "pasv", "end"}
    /\ replies[s] = <<>>

ServerWaits(s) ==
  \/ at[s] = "loop" /\ commands[s] = <<>>
  \/ at[s] \in Accepting /\ backlog[s] = <<>>

NoMutualWait ==
  \A s \in Sessions :
    process = "running" => ~(ClientWaits(s) /\ ServerWaits(s))

\* Whatever the user asked for, the prompt comes back (or the client ends).
CommandReturns ==
  \A s \in Sessions :
    client[s] \notin {<<"new", "">>, Prompt, Off} ~> client[s] \in {Prompt, Off}

\* A client that leaves takes its session with it: the server's thread ends,
\* wherever it was, and its sockets are closed.
SessionEnds ==
  \A s \in Sessions :
    client[s] = Off ~> at[s] = "done" \/ process # "running"

\* The server's half of the dialogue is a behaviour of the server on its own:
\* the client does nothing FtpServer does not expect of a client.
ServerSpec == Spec
=============================================================================
