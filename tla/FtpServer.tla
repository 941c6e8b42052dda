----------------------------- MODULE FtpServer ------------------------------
(***************************************************************************)
(* The multi-threaded FTP server: main's accept loop, one client_thread    *)
(* per control connection, the handlers of ftp_server.c, and the passive   *)
(* ports the threads share.                                                *)
(*                                                                         *)
(* A session is one control connection and the thread that serves it; its  *)
(* C struct ClientSession is the functions logged_in, username, root_dir,  *)
(* current_dir, pasv_port, pasv_listen_socket and data_socket below.  A    *)
(* thread is at a step of its program; a handler is split into several     *)
(* actions exactly where the code blocks (accept, send or recv on the data *)
(* connection).  The last parameter of a server action, r, is the sequence *)
(* of replies it sends on the control connection, by their codes: a module *)
(* that composes the server with a client reads them there.                *)
(***************************************************************************)
EXTENDS Accounts, Tcp

CONSTANTS
  Sessions,      \* the control connections of one life of the server
  g_accounts,    \* the account table, loaded before the first connection
  Usernames,     \* what clients may send with USER
  Passwords,     \* what clients may send with PASS
  DefaultRoot,   \* "/tmp", for a user with no root
  Directories,   \* the directories of the file system
  Entries,       \* directory |-> the directories its names lead to, ".." too
  CwdArgs,       \* directory arguments of CWD: [absolute, path]
  PortLo,        \* 10000: the first passive port
  CounterHi,     \* 60000: the last start of a session's ports
  PasvHi,        \* 65000: the last passive port
  Stride,        \* 100: the ports reserved to a session
  Backlog,       \* connections the kernel queues on a listener
  MaxNames,      \* names in the longest path that MAX_PATH bytes hold
  MaxPasv,       \* bound: successful PASV commands of one session
  MaxChunks      \* bound: buffers of data in the longest file

ASSUME PortAssumption ==
  /\ PortLo \in Nat \ {0} /\ CounterHi \in Nat /\ PasvHi \in Nat
  /\ PortLo <= CounterHi /\ CounterHi <= PasvHi /\ PasvHi < 65536
  /\ Stride \in Nat \ {0}

ASSUME BoundAssumption ==
  /\ Backlog \in Nat \ {0} /\ MaxPasv \in Nat /\ MaxChunks \in Nat
  /\ MaxNames \in Nat

NoSocket == -1
NoUser == ""
NoRoot == ""

ASSUME SessionAssumption == NoSocket \notin Sessions

\* CDUP cuts the path at its last slash; "/" stays "/".
Parent(path) ==
  IF path = <<>> THEN <<>> ELSE SubSeq(path, 1, Len(path) - 1)

\* The file system: every account's root exists, and directories stay.  A name
\* leads from a directory to another, up (".."), down, or by a symbolic link.
ASSUME DirAssumption ==
  /\ \A user \in Usernames \cup {NoUser} :
       get_user_root_dir(g_accounts, user, DefaultRoot) \in Directories
  /\ \A d \in Directories : \A name \in DOMAIN Entries[d] :
       Entries[d][name] \in Directories

ASSUME ArgAssumption ==
  \A arg \in CwdArgs : arg.absolute \in BOOLEAN /\ arg.path \in Seq(STRING)

\* stat finds a directory at the end of the path: each of its names leads on
\* from where the names before it led.
IsDirectory(root, path) ==
  \E walk \in [0..Len(path) -> Directories] :
    /\ walk[0] = root
    /\ \A i \in 1..Len(path) :
         /\ path[i] \in DOMAIN Entries[walk[i - 1]]
         /\ walk[i] = Entries[walk[i - 1]][path[i]]

VARIABLES
  process,             \* running, stopped by Ctrl-C, or killed by a signal
  g_pasv_port_counter, \* where the next session's ports start
  at,                  \* the step each session's thread is at
  logged_in, username, root_dir, current_dir,
  pasv_port,           \* the port of the next PASV
  pasv_count,          \* bookkeeping of the bound MaxPasv
  pasv_listen_socket,  \* the port the passive listener is bound to
  backlog,             \* clients whose data connections wait on it
  data_socket,         \* the client at the other end of the data connection
  data_peer,           \* that connection, as the server's TCP sees it
  chunks_left,         \* buffers of the file RETR has yet to send
  ctrl,                \* the control connection: none, closed, or as TCP sees it
  pending,             \* the client closed it after commands not yet read
  announced            \* the ports the 227s told the client

auth     == <<logged_in, username, root_dir, current_dir>>
passive  == <<pasv_port, pasv_count, pasv_listen_socket, backlog, announced>>
transfer == <<data_socket, data_peer, chunks_left>>
vars == <<process, g_pasv_port_counter, at, auth, passive, transfer, ctrl,
          pending>>

Accepting    == {"LIST_accept", "RETR_accept", "STOR_accept"}
Transferring == {"LIST_send", "RETR_send", "STOR_recv"}
Steps == {"none", "starting", "loop", "done"} \cup Accepting \cup Transferring

Init ==
  /\ process = "running"
  /\ g_pasv_port_counter = PortLo
  /\ at = [s \in Sessions |-> "none"]
  /\ logged_in = [s \in Sessions |-> FALSE]
  /\ username = [s \in Sessions |-> NoUser]
  /\ root_dir = [s \in Sessions |-> NoRoot]
  /\ current_dir = [s \in Sessions |-> <<>>]
  /\ pasv_port = [s \in Sessions |-> 0]
  /\ pasv_count = [s \in Sessions |-> 0]
  /\ pasv_listen_socket = [s \in Sessions |-> NoSocket]
  /\ backlog = [s \in Sessions |-> <<>>]
  /\ data_socket = [s \in Sessions |-> NoSocket]
  /\ data_peer = [s \in Sessions |-> "open"]
  /\ chunks_left = [s \in Sessions |-> 0]
  /\ ctrl = [s \in Sessions |-> "none"]
  /\ pending = [s \in Sessions |-> FALSE]
  /\ announced = [s \in Sessions |-> {}]
-----------------------------------------------------------------------------
(***************************************************************************)
(* Threads and the control connection.                                     *)
(***************************************************************************)
Go(s, step) == at' = [at EXCEPT ![s] = step]

\* send_response: one send, its result ignored.
send_response(s) ==
  \E conn \in AfterSend(ctrl[s]) : ctrl' = [ctrl EXCEPT ![s] = conn]

\* recv in client_thread's loop returns a command, perhaps with later ones,
\* which are lost: only the first line of the buffer is read.
Receives(s) ==
  /\ process = "running"
  /\ at[s] = "loop"
  /\ ctrl[s] = "open" \/ pending[s]
  /\ \E left \in BOOLEAN : pending' = [pending EXCEPT ![s] = @ /\ left]

\* main: accept returned and pthread_create made (or did not make) a thread.
MainAccepts(s) ==
  /\ process = "running"
  /\ at[s] = "none"
  /\ \/ Go(s, "starting") /\ ctrl' = [ctrl EXCEPT ![s] = "open"]
     \/ Go(s, "done") /\ ctrl' = [ctrl EXCEPT ![s] = "closed"]
  /\ UNCHANGED <<process, g_pasv_port_counter, auth, passive, transfer, pending>>

\* Mutant: a range one port long.
NextCounter_Short(start) ==
  IF start + 1 > CounterHi THEN PortLo ELSE start + 1

\* Where the next session's ports start.
NextCounter(start) ==
  IF start + Stride > CounterHi THEN PortLo ELSE start + Stride

\* client_thread up to its loop; the counter is read and advanced under
\* g_port_mutex.
ThreadStarts(s, r) ==
  /\ r = <<220>>
  /\ process = "running"
  /\ at[s] = "starting"
  /\ pasv_port' = [pasv_port EXCEPT ![s] = g_pasv_port_counter]
  /\ g_pasv_port_counter' = NextCounter(g_pasv_port_counter)
  /\ send_response(s)
  /\ Go(s, "loop")
  /\ UNCHANGED <<process, auth, pasv_count, pasv_listen_socket, backlog,
                 announced, transfer, pending>>

\* client_thread after its loop: close whatever is still open.
CleansUp(s) ==
  /\ Go(s, "done")
  /\ ctrl' = [ctrl EXCEPT ![s] = "closed"]
  /\ data_socket' = [data_socket EXCEPT ![s] = NoSocket]
  /\ pasv_listen_socket' = [pasv_listen_socket EXCEPT ![s] = NoSocket]
  /\ backlog' = [backlog EXCEPT ![s] = <<>>]

\* Mutant: the loop ends on an error only.
Disconnect_OnError(s) ==
  /\ process = "running"
  /\ at[s] = "loop"
  /\ ctrl[s] \in {"err", "rst"} /\ ~pending[s]
  /\ CleansUp(s)
  /\ UNCHANGED <<process, g_pasv_port_counter, auth, pasv_port, pasv_count,
                 announced, data_peer, chunks_left, pending>>

\* recv returned 0 or an error.
Disconnect(s) ==
  /\ process = "running"
  /\ at[s] = "loop"
  /\ ctrl[s] # "open" /\ ~pending[s]
  /\ CleansUp(s)
  /\ UNCHANGED <<process, g_pasv_port_counter, auth, pasv_port, pasv_count,
                 announced, data_peer, chunks_left, pending>>
-----------------------------------------------------------------------------
(***************************************************************************)
(* Handlers that touch neither the passive listener nor the data           *)
(* connection.                                                             *)
(***************************************************************************)
handle_USER(s, user, r) ==
  /\ r = <<331>>
  /\ Receives(s)
  /\ username' = [username EXCEPT ![s] = user]
  /\ logged_in' = [logged_in EXCEPT ![s] = FALSE]
  /\ send_response(s)
  /\ UNCHANGED <<process, g_pasv_port_counter, at, root_dir, current_dir,
                 passive, transfer>>

LoginCorrect(s, password) ==
  validate_login(g_accounts, username[s], password) >= 0

\* Mutant: a second login keeps the directory of the first.
handle_PASS_KeepsDir(s, password, r) ==
  /\ Receives(s)
  /\ \/ /\ LoginCorrect(s, password)
        /\ logged_in' = [logged_in EXCEPT ![s] = TRUE]
        /\ root_dir' = [root_dir EXCEPT ![s] =
                get_user_root_dir(g_accounts, username[s], DefaultRoot)]
        /\ r = <<230>>
        /\ UNCHANGED current_dir
     \/ /\ ~LoginCorrect(s, password)
        /\ r = <<530>>
        /\ UNCHANGED <<logged_in, root_dir, current_dir>>
  /\ send_response(s)
  /\ UNCHANGED <<process, g_pasv_port_counter, at, username, passive, transfer>>

handle_PASS(s, password, r) ==
  /\ Receives(s)
  /\ \/ /\ LoginCorrect(s, password)
        /\ logged_in' = [logged_in EXCEPT ![s] = TRUE]
        /\ root_dir' = [root_dir EXCEPT ![s] =
                get_user_root_dir(g_accounts, username[s], DefaultRoot)]
        /\ current_dir' = [current_dir EXCEPT ![s] = <<>>]
        /\ r = <<230>>
     \/ /\ ~LoginCorrect(s, password)
        /\ r = <<530>>
        /\ UNCHANGED <<logged_in, root_dir, current_dir>>
  /\ send_response(s)
  /\ UNCHANGED <<process, g_pasv_port_counter, at, username, passive, transfer>>

\* PWD, and the commands that answer without looking at the session: SYST,
\* FEAT, TYPE, OPTS, NOOP, SIZE (which stats a file) and the unknown ones.
handle_PWD(s, r) ==
  /\ r = IF logged_in[s] THEN <<257>> ELSE <<530>>
  /\ Receives(s)
  /\ send_response(s)
  /\ UNCHANGED <<process, g_pasv_port_counter, at, auth, passive, transfer>>

OtherReplies == {<<215>>, <<211>>, <<200>>, <<213>>, <<550>>, <<502>>}

handle_other(s, r) ==
  /\ r \in OtherReplies
  /\ Receives(s)
  /\ send_response(s)
  /\ UNCHANGED <<process, g_pasv_port_counter, at, auth, passive, transfer>>

\* CWD: an absolute argument replaces the path, a relative one is appended to
\* it, both as they are spelled: ".." stays in the path.
NewPath(s, arg) ==
  IF arg.absolute THEN arg.path ELSE current_dir[s] \o arg.path

Fits(path) == Len(path) <= MaxNames

\* stat decides whether the result is taken; one too long for new_path has been
\* spoilt before (or see OverrunsPath).
handle_CWD(s, arg, r) ==
  /\ Receives(s)
  /\ \/ /\ ~logged_in[s]
        /\ r = <<530>>
        /\ UNCHANGED current_dir
     \/ /\ logged_in[s]
        /\ Fits(NewPath(s, arg)) /\ IsDirectory(root_dir[s], NewPath(s, arg))
        /\ current_dir' = [current_dir EXCEPT ![s] = NewPath(s, arg)]
        /\ r = <<250>>
     \/ /\ logged_in[s]
        /\ ~(Fits(NewPath(s, arg)) /\ IsDirectory(root_dir[s], NewPath(s, arg)))
        /\ r = <<550>>
        /\ UNCHANGED current_dir
  /\ send_response(s)
  /\ UNCHANGED <<process, g_pasv_port_counter, at, logged_in, username,
                 root_dir, passive, transfer>>

handle_CDUP(s, r) ==
  /\ Receives(s)
  /\ \/ /\ logged_in[s]
        /\ current_dir' = [current_dir EXCEPT ![s] = Parent(@)]
        /\ r = <<250>>
     \/ /\ ~logged_in[s]
        /\ r = <<530>>
        /\ UNCHANGED current_dir
  /\ send_response(s)
  /\ UNCHANGED <<process, g_pasv_port_counter, at, logged_in, username,
                 root_dir, passive, transfer>>

handle_QUIT(s, r) ==
  /\ r = <<221>>
  /\ Receives(s)
  /\ logged_in' = [logged_in EXCEPT ![s] = FALSE]
  /\ AfterSend(ctrl[s]) # {}
  /\ CleansUp(s)
  /\ UNCHANGED <<process, g_pasv_port_counter, username, root_dir, current_dir,
                 pasv_port, pasv_count, announced, data_peer, chunks_left>>
-----------------------------------------------------------------------------
(***************************************************************************)
(* Passive mode and the three transfers.  A listener's backlog belongs to  *)
(* it: closing the listener drops the connections that wait there.         *)
(***************************************************************************)
ClosesListener(s) ==
  /\ pasv_listen_socket' = [pasv_listen_socket EXCEPT ![s] = NoSocket]
  /\ backlog' = [backlog EXCEPT ![s] = <<>>]

\* bind fails with EADDRINUSE if any other session listens on the port.
PortFree(s) ==
  \A t \in Sessions \ {s} : pasv_listen_socket[t] # pasv_port[s]

\* The reply carries p1 and p2, and the client computes p1 * 256 + p2.
P1(port) == (port \div 256) % 256
P2(port) == port % 256
Announced(port) == P1(port) * 256 + P2(port)

\* Mutants: no wrap after the last port; a PASV that skips a whole range.
NextPort_NoWrap(port) == port + 1

NextPort_Skips(port) == port + Stride

NextPort(port) == IF port + 1 > PasvHi THEN PortLo ELSE port + 1

\* bind and listen succeeded; the client is told the port, and the next PASV
\* takes the next one.
OpensListener(s) ==
  /\ PortFree(s)
  /\ pasv_count[s] < MaxPasv
  /\ pasv_count' = [pasv_count EXCEPT ![s] = @ + 1]
  /\ pasv_listen_socket' = [pasv_listen_socket EXCEPT ![s] = pasv_port[s]]
  /\ backlog' = [backlog EXCEPT ![s] = <<>>]
  /\ announced' = [announced EXCEPT ![s] = @ \cup {Announced(pasv_port[s])}]
  /\ pasv_port' = [pasv_port EXCEPT ![s] = NextPort(@)]

\* When socket or bind fails the old listener is gone and the port is kept.
handle_PASV(s, r) ==
  /\ Receives(s)
  /\ \/ ~logged_in[s] /\ r = <<530>> /\ UNCHANGED passive
     \/ /\ logged_in[s]
        /\ r = <<425>>
        /\ ClosesListener(s)
        /\ UNCHANGED <<pasv_port, pasv_count, announced>>
     \/ logged_in[s] /\ r = <<227>> /\ OpensListener(s)
  /\ send_response(s)
  /\ UNCHANGED <<process, g_pasv_port_counter, at, auth, transfer>>

\* LIST, RETR and STOR refuse a client that is not logged in or sent no PASV.
RefusesTransfer(s, r) ==
  /\ Receives(s)
  /\ \/ ~logged_in[s] /\ r = <<530>>
     \/ logged_in[s] /\ pasv_listen_socket[s] <= 0 /\ r = <<425>>
  /\ send_response(s)
  /\ UNCHANGED <<process, g_pasv_port_counter, at, auth, passive, transfer>>

\* Otherwise LIST and STOR go on to accept at once.
BeginsTransfer(s, step, r) ==
  /\ r = <<>>
  /\ Receives(s)
  /\ logged_in[s] /\ pasv_listen_socket[s] > 0
  /\ Go(s, step)
  /\ UNCHANGED <<process, g_pasv_port_counter, auth, passive, transfer, ctrl>>

handle_LIST(s, r) ==
  RefusesTransfer(s, r) \/ BeginsTransfer(s, "LIST_accept", r)

handle_STOR(s, r) ==
  RefusesTransfer(s, r) \/ BeginsTransfer(s, "STOR_accept", r)

\* RETR opens the file first: when it cannot, the listener stays open.
handle_RETR(s, r) ==
  \/ RefusesTransfer(s, r)
  \/ BeginsTransfer(s, "RETR_accept", r)
  \/ /\ Receives(s)
     /\ logged_in[s] /\ pasv_listen_socket[s] > 0
     /\ r = <<550>>
     /\ send_response(s)
     /\ UNCHANGED <<process, g_pasv_port_counter, at, auth, passive, transfer>>

\* accept takes the oldest waiting connection, whoever made it, and the
\* listener is closed.
AcceptsData(s) ==
  /\ backlog[s] # <<>>
  /\ data_socket' = [data_socket EXCEPT ![s] = Head(backlog[s])]
  /\ ClosesListener(s)

\* accept itself failed: the listener is closed all the same.
AcceptFails(s, r) ==
  /\ r = <<425>>
  /\ process = "running"
  /\ at[s] \in Accepting
  /\ ClosesListener(s)
  /\ send_response(s)
  /\ Go(s, "loop")
  /\ UNCHANGED <<process, g_pasv_port_counter, auth, pasv_port, pasv_count,
                 announced, transfer, pending>>

\* The end of every transfer: data connection closed, back to the loop.
ClosesData(s) ==
  /\ data_socket' = [data_socket EXCEPT ![s] = NoSocket]
  /\ data_peer' = [data_peer EXCEPT ![s] = "open"]
  /\ Go(s, "loop")

AcceptLIST(s, r) ==
  /\ r = <<150>>
  /\ process = "running"
  /\ at[s] = "LIST_accept"
  /\ AcceptsData(s)
  /\ send_response(s)
  /\ Go(s, "LIST_send")
  /\ UNCHANGED <<process, g_pasv_port_counter, auth, pasv_port, pasv_count,
                 announced, data_peer, chunks_left, pending>>

AcceptRETR(s, r) ==
  /\ r = <<150>>
  /\ process = "running"
  /\ at[s] = "RETR_accept"
  /\ AcceptsData(s)
  /\ \E n \in 0..MaxChunks : chunks_left' = [chunks_left EXCEPT ![s] = n]
  /\ send_response(s)
  /\ Go(s, "RETR_send")
  /\ UNCHANGED <<process, g_pasv_port_counter, auth, pasv_port, pasv_count,
                 announced, data_peer, pending>>

\* STOR opens its file between accept and the 150 reply.
AcceptSTOR(s, r) ==
  /\ process = "running"
  /\ at[s] = "STOR_accept"
  /\ \/ /\ AcceptsData(s)
        /\ r = <<150>>
        /\ Go(s, "STOR_recv")
     \/ /\ backlog[s] # <<>>
        /\ ClosesListener(s)
        /\ r = <<550>>
        /\ Go(s, "loop")
        /\ UNCHANGED data_socket
  /\ send_response(s)
  /\ UNCHANGED <<process, g_pasv_port_counter, auth, pasv_port, pasv_count,
                 announced, data_peer, chunks_left, pending>>

\* Mutant: the early return leaves the data connection open.
ListFails_KeepsData(s, r) ==
  /\ r = <<550>>
  /\ process = "running"
  /\ at[s] = "LIST_send"
  /\ send_response(s)
  /\ Go(s, "loop")
  /\ UNCHANGED <<process, g_pasv_port_counter, auth, passive, transfer, pending>>

\* opendir failed, after the 150.
ListFails(s, r) ==
  /\ r = <<550>>
  /\ process = "running"
  /\ at[s] = "LIST_send"
  /\ send_response(s)
  /\ ClosesData(s)
  /\ UNCHANGED <<process, g_pasv_port_counter, auth, passive, chunks_left,
                 pending>>

\* Mutant: the listing is sent but its end is not reported.
SendLIST_Silent(s, r) ==
  /\ r = <<>>
  /\ process = "running"
  /\ at[s] = "LIST_send"
  /\ AfterSend(data_peer[s]) # {}
  /\ ClosesData(s)
  /\ UNCHANGED <<process, g_pasv_port_counter, auth, passive, chunks_left,
                 ctrl, pending>>

\* One send of the whole listing, its result ignored.
SendLIST(s, r) ==
  /\ r = <<226>>
  /\ process = "running"
  /\ at[s] = "LIST_send"
  /\ AfterSend(data_peer[s]) # {}
  /\ send_response(s)
  /\ ClosesData(s)
  /\ UNCHANGED <<process, g_pasv_port_counter, auth, passive, chunks_left,
                 pending>>

\* One buffer of the file; an error leaves the inner loop only, and the next
\* buffer is read and sent.
SendRETR(s) ==
  /\ process = "running"
  /\ at[s] = "RETR_send"
  /\ chunks_left[s] > 0
  /\ \E conn \in AfterSend(data_peer[s]) :
        data_peer' = [data_peer EXCEPT ![s] = conn]
  /\ chunks_left' = [chunks_left EXCEPT ![s] = @ - 1]
  /\ UNCHANGED <<process, g_pasv_port_counter, at, auth, passive, data_socket,
                 ctrl, pending>>

FinishRETR(s, r) ==
  /\ r = <<226>>
  /\ process = "running"
  /\ at[s] = "RETR_send"
  /\ chunks_left[s] = 0
  /\ send_response(s)
  /\ ClosesData(s)
  /\ UNCHANGED <<process, g_pasv_port_counter, auth, passive, chunks_left,
                 pending>>

\* recv on the data connection returned 0 or an error; both end the upload.
FinishSTOR(s, r) ==
  /\ r = <<226>>
  /\ process = "running"
  /\ at[s] = "STOR_recv"
  /\ data_peer[s] # "open"
  /\ send_response(s)
  /\ ClosesData(s)
  /\ UNCHANGED <<process, g_pasv_port_counter, auth, passive, chunks_left,
                 pending>>
-----------------------------------------------------------------------------
(***************************************************************************)
(* The clients and the process.                                            *)
(***************************************************************************)
\* A client connects to a port a 227 told it, if anybody listens there.
ClientConnects(s) ==
  /\ process = "running"
  /\ \E t \in Sessions :
        /\ pasv_listen_socket[t] \in announced[s]
        /\ Len(backlog[t]) < Backlog
        /\ backlog' = [backlog EXCEPT ![t] = Append(@, s)]
  /\ UNCHANGED <<process, g_pasv_port_counter, at, auth, pasv_port, pasv_count,
                 pasv_listen_socket, announced, transfer, ctrl, pending>>

\* The client at the other end of a data connection closes or resets it.
ClientEndsData(s) ==
  /\ process = "running"
  /\ data_socket[s] # NoSocket /\ data_peer[s] = "open"
  /\ \E conn \in {"fin", "err"} : data_peer' = [data_peer EXCEPT ![s] = conn]
  /\ UNCHANGED <<process, g_pasv_port_counter, at, auth, passive, data_socket,
                 chunks_left, ctrl, pending>>

\* The client leaves, perhaps with a command the server has not read yet.
ClientCloses(s) ==
  /\ process = "running"
  /\ ctrl[s] = "open"
  /\ \E conn \in {"fin", "err"} : ctrl' = [ctrl EXCEPT ![s] = conn]
  /\ \E left \in BOOLEAN : pending' = [pending EXCEPT ![s] = left]
  /\ UNCHANGED <<process, g_pasv_port_counter, at, auth, passive, transfer>>

\* A signal ends the process.  What its memory held no longer matters.
Killed ==
  /\ process = "running"
  /\ process' = "killed"
  /\ UNCHANGED <<g_pasv_port_counter, at, auth, passive, transfer, ctrl,
                 pending>>

\* A thread about to write to a connection known to be gone: SIGPIPE is not
\* handled.
WritesCtrl(s) ==
  \/ at[s] = "loop" /\ pending[s]
  \/ at[s] \in Accepting
  \/ at[s] = "LIST_send"
  \/ at[s] = "RETR_send" /\ chunks_left[s] = 0
  \/ at[s] = "STOR_recv" /\ data_peer[s] # "open"

WritesData(s) ==
  \/ at[s] = "LIST_send"
  \/ at[s] = "RETR_send" /\ chunks_left[s] > 0

SigPipe(s) ==
  /\ \/ WritesCtrl(s) /\ ctrl[s] = "rst"
     \/ WritesData(s) /\ data_peer[s] = "rst"
  /\ Killed

\* sprintf and strcat do not look at the size of what they write to.  A relative
\* CWD makes the path longer, ".." included, until new_path is too small.
OverrunsPath(s, arg) ==
  /\ at[s] = "loop" /\ logged_in[s] /\ (ctrl[s] = "open" \/ pending[s])
  /\ ~Fits(NewPath(s, arg))
  /\ Killed

\* The listing of a directory with many files does not fit in list_buffer.
OverrunsListing(s) == at[s] = "LIST_send" /\ Killed

\* signal_handler: Ctrl-C closes the listening socket and exits.
Sigint ==
  /\ process = "running"
  /\ process' = "stopped"
  /\ UNCHANGED <<g_pasv_port_counter, at, auth, passive, transfer, ctrl,
                 pending>>
-----------------------------------------------------------------------------
Codes == {150, 200, 211, 213, 215, 220, 221, 226, 227, 230, 250, 257, 331, 425,
          502, 530, 550}

\* A step sends one reply or none.
Replies == {<<>>} \cup {<<code>> : code \in Codes}

\* What the thread does with a command, whichever the client sent.
Command(s, r) ==
  \/ \E user \in Usernames : handle_USER(s, user, r)
  \/ \E password \in Passwords : handle_PASS(s, password, r)
  \/ \E arg \in CwdArgs : handle_CWD(s, arg, r)
  \/ handle_PWD(s, r)
  \/ handle_CDUP(s, r)
  \/ handle_other(s, r)
  \/ handle_PASV(s, r)
  \/ handle_LIST(s, r)
  \/ handle_RETR(s, r)
  \/ handle_STOR(s, r)
  \/ handle_QUIT(s, r)

\* What it does without one.
Proceeds(s, r) ==
  \/ ThreadStarts(s, r)
  \/ AcceptLIST(s, r)
  \/ AcceptRETR(s, r)
  \/ AcceptSTOR(s, r)
  \/ ListFails(s, r)
  \/ SendLIST(s, r)
  \/ SendRETR(s) /\ r = <<>>
  \/ FinishRETR(s, r)
  \/ FinishSTOR(s, r)
  \/ Disconnect(s) /\ r = <<>>

Client(s) == ClientConnects(s) \/ ClientEndsData(s) \/ ClientCloses(s)

Next ==
  \/ \E s \in Sessions :
       \/ MainAccepts(s)
       \/ \E r \in Replies : Command(s, r) \/ Proceeds(s, r) \/ AcceptFails(s, r)
       \/ Client(s)
       \/ SigPipe(s)
       \/ \E arg \in CwdArgs : OverrunsPath(s, arg)
       \/ OverrunsListing(s)
  \/ Sigint

Spec == Init /\ [][Next]_vars
-----------------------------------------------------------------------------
(***************************************************************************)
(* Properties.                                                             *)
(***************************************************************************)
Ports == PortLo..PasvHi
Paths == {path \in Seq(STRING) : Fits(path)}

\* Types of the session structs, the counter and the connections; the ports
\* stay between the first and the last passive port through every wrap.
TypeOK ==
  /\ process \in {"running", "stopped", "killed"}
  /\ g_pasv_port_counter \in PortLo..CounterHi
  /\ at \in [Sessions -> Steps]
  /\ logged_in \in [Sessions -> BOOLEAN]
  /\ username \in [Sessions -> Usernames \cup {NoUser}]
  /\ root_dir \in [Sessions -> Directories \cup {NoRoot}]
  /\ current_dir \in [Sessions -> Paths]
  /\ pasv_port \in [Sessions -> Ports \cup {0}]
  /\ pasv_count \in [Sessions -> 0..MaxPasv]
  /\ pasv_listen_socket \in [Sessions -> Ports \cup {NoSocket}]
  /\ backlog \in [Sessions -> Seq(Sessions)]
  /\ data_socket \in [Sessions -> Sessions \cup {NoSocket}]
  /\ data_peer \in [Sessions -> Connection]
  /\ chunks_left \in [Sessions -> 0..MaxChunks]
  /\ ctrl \in [Sessions -> Connection \cup {"none", "closed"}]
  /\ pending \in [Sessions -> BOOLEAN]
  /\ announced \in [Sessions -> SUBSET Ports]

\* A data connection never serves another session's client: what LIST and RETR
\* send goes to, and what STOR stores comes from, the client that asked.  The
\* ports are shared by all sessions and handed out by number, so this rests on
\* the sessions' ranges (client_thread) and on PASV's walk through them.
OwnData ==
  \A s \in Sessions : data_socket[s] \in {NoSocket, s}

\* A session holds its passive listener only between PASV and the transfer that
\* consumes it, and a data connection exactly while a transfer runs: no error
\* path of LIST, RETR or STOR and no way out of the loop leaks a descriptor.
DescriptorsReleased ==
  \A s \in Sessions :
    /\ data_socket[s] # NoSocket <=> at[s] \in Transferring
    /\ at[s] \in Accepting => pasv_listen_socket[s] # NoSocket
    /\ pasv_listen_socket[s] # NoSocket => at[s] \in Accepting \cup {"loop"}
    /\ pasv_listen_socket[s] = NoSocket => backlog[s] = <<>>

\* A logged-in session is the user it names and is somewhere: the name has an
\* account, the root is that account's, and the current directory, as it is
\* spelled from that root, exists, whatever USER, PASS, CWD and CDUP came before.
\* (It need not be under that root: "cd .." leads out of it.)  Transfers run in
\* logged-in sessions only.
SessionIdentity ==
  \A s \in Sessions :
    /\ logged_in[s] =>
         /\ WithUsername(g_accounts, username[s]) # {}
         /\ root_dir[s] =
              get_user_root_dir(g_accounts, username[s], DefaultRoot)
         /\ IsDirectory(root_dir[s], current_dir[s])
    /\ at[s] \in Accepting \cup Transferring => logged_in[s]

\* "Bien dem port cho PASV mode (moi client bat dau tu port khac nhau)"
\* (server.c:35): sessions alive together start from different ports.
Live(s) == at[s] \notin {"none", "starting", "done"}

StartPortsDiffer ==
  \A s, t \in Sessions :
    s # t /\ Live(s) /\ Live(t) /\ pasv_count[s] = 0 /\ pasv_count[t] = 0
      => pasv_port[s] # pasv_port[t]

\* "Moi client duoc 100 port cho nhieu lan PASV" (server.c:78): a PASV never
\* listens on a port reserved to another live session.
ReservedPorts ==
  \A s, t \in Sessions :
    s # t /\ Live(s) /\ Live(t) /\ pasv_count[t] = 0
      => pasv_listen_socket[s] \notin pasv_port[t]..(pasv_port[t] + Stride - 1)
====================
