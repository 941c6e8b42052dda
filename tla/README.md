# Verification of the HUST network programming repository

The repository is a collection of C network programs: a multi-threaded FTP
server and its client (`src/FTP-client-server`), a multi-threaded chat room and
other assignments (`src/assignment`), a TFTP client, and the exercises of a
course (`src/np`, `src/midterm-junbi`). This directory holds TLA+ models of the
programs that carry state and run concurrently, the TLC runs that check them,
and proofs checked by TLAPS. Paths below are relative to `src/`.

## 1. Inventory

**FTP server** (`FTP-client-server/server/src/server.c`, `ftp_server.c`)
- *State.* One `ClientSession` per connection (logged_in, username, root_dir,
  current_dir, pasv_port, pasv_listen_socket, data_socket), the account table,
  and the global `g_pasv_port_counter` under `g_port_mutex`.
- *Operations.* main's accept loop; `client_thread`: greeting, one recv and one
  handler per round, clean-up; handlers USER, PASS, SYST, FEAT, PWD, CWD, CDUP,
  TYPE, PASV, LIST, RETR, STOR, QUIT and a few that only answer; SIGINT exits.
- *Interactions.* Threads share the counter, the port space of the machine and
  the process itself: a SIGPIPE in one thread ends all.
- *Hard.* The order of commands of one client; data connections that arrive on
  a listener of somebody else; the wrap of the counter; failures between
  opening and closing a descriptor; a peer that goes away at any step.
- *Correct when* a session is always the user it logged in as, in a directory
  that exists as it is spelled from that user's root; data connections reach
  their own session; nothing is leaked; a client that leaves ends its session.

**Accounts** (`account.c`): the table, its file, `load_accounts`,
`save_accounts`, `add_account`, two lookups. Hard: a save that is interrupted;
a table that is full. Correct when what is in memory is what is in the file,
and an interrupted save leaves a prefix of what it was saving.

**FTP client** (`FTP-client-server/client/src`): connects, logs in, then a
prompt with pwd, cd, ls, get, put, quit. Every command is a sequence of
sends and recvs in step with the server. Hard: TCP joins replies, the
connection may end at any point, a step may fail on the client alone. Correct
when commands and replies alternate and the prompt comes back.

**Chat room, server** (`assignment/multithread_chatroom.c`): an array of
descriptors and a count under `clients_mutex`, one thread per client, a signal
handler that sets `stop_server` and closes the listening socket, and main,
which accepts and finally closes everything. Hard: descriptors are reused at
once, a broadcast blocks while it holds the mutex, threads still run during the
shutdown. Correct when the registry names exactly the clients that are there,
a broadcast is atomic, Ctrl-C ends the program.

**Chat room, client** (`assignment/multithread_chatroom_client.c`): one thread
sends what is typed, one prints what arrives; they share `running` and the
socket, which one closes under the other.

**Command server** (`assignment/multithread_exec_server.c`): the registry of
the chat room, a thread per client that runs each line with popen, and a log
under a mutex of its own, written after the answer was sent. Hard: a child
inherits every socket of the process; the shutdown destroys mutexes in use.
Correct when log entries are whole, every answered command gets its turn, Ctrl-C
ends the server and a client that left sees its connection end.

**TFTP** (client in `Trivial File Transfer Protocol (TFTP)`, server
`np/np18.c`): lock-step blocks over UDP. Hard: loss, duplication, delay, 16-bit
block numbers (signed in the client), no timeout in the client and an unbounded
one in the server. Correct when a transfer that reports success delivered the
file.

**UDP peer-to-peer file transfer** (`assignment/udp_file_server.c`,
`udp_file_client.c`): a directory of names and addresses, and peers that find
each other by broadcast and open a TCP connection for the file. Hard: datagrams
that are lost or late, a 5 second timeout against an answer under way, names
that are the same. Correct when a file goes to the peer the user named, once.

**Signal-driven directory and chat** (`np/np15_*.c`, `np/np14.c`): processes
that talk by signals and loop-back UDP on fixed ports. Hard: a handler that
reads what main is changing, a bind that comes after the datagram.

**Select servers** (`np/np22.c` FTP; `np/np17.c`, `np/np21.c`, `np/np10.c`,
`assignment/udp_chat_server.c` chat): one thread, global state shared by all
clients. Hard: state of one client used for another.

**HTTP servers** (`assignment/http_upload.c`, `http_cont.c`,
`multithread_http_server.c`, `np/np20.c`): one thread per request, which lists a
folder, sends a file or saves one; what they share is the files and the process.
Hard: a file that changes between two steps of a thread, two uploads of one
name, a client that leaves in the middle. Correct when an undisturbed download
is the file, a damaged upload is reported, and every request ends.

The remaining programs (see `components` in `PROJECT.json`) are sequential
exercises: no state beyond a socket, nothing to interleave.

## 2. Modules

| Module | What it is |
| --- | --- |
| `Tcp` | a connection as one program sees it, and what a send makes of it (external) |
| `Accounts` | `validate_login` and `get_user_root_dir` as operators |
| `AccountStore` | the account file: load, defaults, save step by step, crash, edit |
| `FtpServer` | the server: main, `client_thread`, every handler, any FTP client |
| `FtpPorts` | when passive ports keep sessions apart: `EnoughPorts`, `PortInv` |
| `FtpDialogue` | `FtpServer` composed with the repository's own client |
| `FtpExchange` | abstract: strict alternation of command and reply |
| `FtpDialogueExchange` | the refinement mapping from the dialogue to it |
| `ChatRoom` | the chat room's main, threads, registry, mutex, descriptors, clients |
| `AtomicChat` | abstract: a message goes to all other members at once |
| `ChatRoomAtomic` | the refinement mapping from the chat room to it |
| `ExecServer` | the command server: `ChatRoom`'s main and registry, threads of its own, popen, the log |
| `Tftp` | the TFTP client, np18, and the network between them |
| `FileTransfer` | abstract: the copy is a prefix of the file, complete means whole |
| `PeerFiles` | the directory, the two threads of every peer, datagrams and connections |
| `HttpFiles` | the four HTTP servers, one file and whoever edits it |
| `AccountStore_proofs`, `FtpServer_proofs`, `FtpDialogue_proofs`, `ChatRoom_proofs`, `ExecServer_proofs`, `PeerFiles_proofs`, `Tftp_proofs`, `HttpFiles_proofs` | theorems (section 4) |
| `MCFtpServer`, `MCFtpDialogue`, `MCAccountStore`, `MCChatRoom`, `MCExecServer`, `MCTftp`, `MCPeerFiles`, `MCHttpFiles` | values of constants for TLC |

### FtpServer
The fields of `ClientSession` are functions from sessions; `at` is where the
session's thread is. A handler is one action, split only where the C code
blocks: accept on the data listener, send and recv of data (`LIST_accept`,
`LIST_send` and so on). `send_response` changes the state of the control
connection: a send to a peer that has closed succeeds and may draw a reset, and
the next one raises SIGPIPE (`SigPipe`), since no program here ignores it. The
last parameter of an action is the sequence of reply codes it sends; alone, the
server ignores it, and `FtpDialogue` puts it on the wire. A 227 reply carries
two bytes, and the client's port is put together from them.

A path is the sequence of its names as they are spelled, `..` included, which
the repository's own client sends for `cd ..`. CWD only asks `stat` whether the
spelling leads to a directory, so `Entries` is a file system: for each
directory, where its names lead (up, down, through a link), and `IsDirectory`
follows them. CDUP cuts the last name off. `MaxNames` stands for `MAX_PATH`: a
longer path is refused or, where `new_path` is overrun, ends the process
(`OverrunsPath`), as a listing of many files may (`OverrunsListing`): undefined
behaviour, of which the model takes the crash.

Abstracted: bind and listen of PASV are one step; a send sends everything it was
given; the static buffer of `localtime`, replies' wording and the text of paths
and listings are left out.

### AccountStore
A line is the sequence of its fields, and `strtok` the place of the next one
that is not empty, as in C. The loops of `load_accounts` and of main's calls of
`add_account` are functions from the number of rounds to the table (`Reads`,
`Adds`). `DefaultsAssumption` is what main's two literal accounts satisfy
(server.c:211): names that differ, no empty field, no `#` at the front. Colons
inside a field and truncation to the arrays are left out. `save_accounts` prints
into stdio's buffer and `fclose` writes it: Ctrl-C runs `exit`, which flushes
the lines printed so far; a kill loses them. A save is interrupted between
lines, not inside one.

### FtpDialogue
Every session gets a client that works through its commands: send, receive,
connect, receive. Two queues are the control connection. `Coalesces` says
whether one recv may return several messages, of which the C code parses the
first; `LocalFails` whether the client may fail to create the file it downloads
into. The server's half of each step is literally an action of `FtpServer`.

### ChatRoom
Descriptors are numbers the kernel gives out lowest first and takes back at
close; `refers` is the process's descriptor table, so a stale number really may
be another client's. Critical sections that cannot block (add, remove, close
all) are single steps guarded by the mutex; a broadcast takes the mutex, has one
step per send, and blocks when the receiver has `Room` unread messages. `recv`
delivers what arrived before it reports an end, and reports an error once.
`AtomicChat`, which it refines, has no bound on messages; `MaxSends` is a guard
of the model's clients only. At the end main destroys the mutex; a lock on a
destroyed mutex fails, and the code does not look. SIGINT is taken by the main
thread, as Linux does, so no send of another thread is interrupted.

Abstracted: message text (with it the byte a full buffer loses to the NUL,
line 90), the notice to a rejected client, partial sends.

### ExecServer
EXTENDS `ChatRoom`: the two programs have main, `add_client`, `remove_client`
and `handle_sigint` in common line for line, and the actions with them. The
threads differ: a line is taken from what one recv returned (further lines in it
are lost, line 125), popen forks a child that holds every connection then open
(`inherited`), the answer is sent, then `write_to_file` writes an entry in two
parts under `file_mutex`. `Endless` are the clients whose commands need not end.
A connection the thread closed ends for its client when the last child that
holds it ends: `close` without `shutdown`, line 175.

### Tftp
One module for both programs: `mode` is `argv[3]`. Packets are a bag; loss,
duplication and delay are actions of the network, reordering comes with the
bag. A block of data is its position in the file; `number` is its block number
on the wire, taken modulo `Modulus`, twice as many as a short of the client
holds (`MaxShort`, 32767); the client reads it back as a short and compares it
with an int. A file of whole blocks ends with an
empty one, as `feof` makes np18 send it (its branch `r == 512`, line 116, never
runs). np18 has no upload, so the other end of one is external, RFC 1350. The
client asks port 69 and np18 listens on 9999; the model takes them as joined.
After an ERROR or an unexpected ACK the client prints that all went well (lines
134 and 206): the model calls this `broke`, and `complete` is the way out of
lines 119 and 193 only.

### PeerFiles
Datagrams under way are a set, nothing makes them arrive, and a timeout may
come while one is under way. A broadcast is one datagram to every peer whose
receiver has bound its port and whose name it carries. Every LIST and SEND has
a socket of its own, here its number `attempt`. TCP is the sender's view in
`link` and the receiver's in `conn`. `Drawn` are the names drawn by `rand()`:
two peers may have the same.

### HttpFiles
`program` says which of the four servers it is; steps they share are one action,
with the order of each (np20 and `multithread_http_server` send while they read,
the others read first). The file is a sequence of pieces; fopen with "wb"
empties it under whoever is reading, and a write goes to the thread's own
offset. `touched` remembers that somebody else changed the file meanwhile.
`favicon.ico` is read and sent as any other file. A send may find the buffers
between the two programs full (`"full"`) and returns when the client reads or
leaves; a connection whose `pthread_create` failed is served by nobody
(`"lost"`). The model has what the code does not survive: np20 counts to a
length found before and spins when the file has become shorter (line 265), which
`RequestsEnd` exempts; it calls fclose on a file that did not open (276) and
strstr on a part that never came (294); `multithread_http_server` prints a
listing of any length into 16 KB (67-94, `OverrunsPage`); any server dies of
SIGPIPE. An upload whose client leaves early is answered 200 by np20,
which also saves the closing boundary with the data (313-323).

## 3. Runs

| Run | Instance | Shows |
| --- | --- | --- |
| `server_login` | 1 session, 2 accounts with different trees, paths of up to 3 names, ports 255..256 | `TypeOK`; `SessionIdentity`: logged in means named in the table, with that user's root, in a directory that exists as spelled from there, through re-logins and `..`; `DescriptorsReleased`: no listener or data socket outlives its use |
| `server_ports` | 2 sessions, ranges of 2 ports, 2 PASVs each | `PortInv`, `OwnData`: a data connection belongs to the session it serves |
| `dialogue_lockstep` | 2 clients | `DTypeOK`, `PromptIsQuiet`, `ExchangeSpec` (refines `FtpExchange`), `ServerSpec` (refines `FtpServer`), `NoMutualWait`: no client and session that wait for each other |
| `dialogue_returns` | 1 client, right and wrong password | liveness: `CommandReturns`, `SessionEnds` |
| `dialogue_coalesce` | 1 client, replies may be joined | **violation** of `NoMutualWait`: 150 and 226 in one recv, and both wait |
| `accounts_files` | every file of up to 3 lines of 6 kinds, room for 2 | `TableIsFile`, `PrefixOfDefaults` under crashes at every step |
| `chat_room` | 3 clients, 3 slots, 2 messages | `RegistryExact`, `AtomicSpec` (refines `AtomicChat`) |
| `chat_live` | 3 clients, 2 slots, one speaker | liveness: `CtrlCStops`, `LeaversForgotten`, clients read |
| `exec_commands` | 2 clients, 2 lines each, one client's commands endless | `ExecTypeOK` with the registry; `LogWhole`: entries are not torn before the shutdown; `LogTurnComes`, `ExecCtrlCStops`, `ExitIsSeen` |
| `tftp_transfer` | numbers of 3 bits, files of 1 to 5 blocks, 2 faults | `TransferSpec` (refines `FileTransfer`); `InStep`; `LongNeverComplete`; `DownloadEnds`, `UploadEnds` |
| `peer_files` | 2 peers, 2 commands, a file of 2 pieces | `RightTransfer`, `SavedWhole`, `ListIsFresh`; `CommandsReturn`, `ReceiverReturns`; `TypeOK` with the directory |
| `http_requests` | 2 requests to each server, uploads of 1 and 2 pieces, 1 edit | `WholeDownload`, `TornIsReported`; liveness: `RequestsEnd`, clients read or leave |

Every property of a passing run has a mutant in `PROJECT.json`: a plausible bug
of the code under which TLC finds the property false.

*Bounds and why they are enough.* Ports straddle 256, so that both bytes of a
227 matter, and both the counter and a session's walk come to their last value;
two sessions suffice because ports are compared two at a time (and the theorems
are for any number). Two PASVs per session give an old and a new listener. In
the chat room three members are the least for two receivers of one message, two
messages the least for concurrent broadcasts, `Room = 1` blocks the second one,
and three connections over reused numbers give a close that races an accept;
`chat_live` has fewer slots than connections, so that one is rejected. That two
clients hear two other senders in one order takes four clients to violate, too
many for a run in which they also leave at every step: `SameOrder` is no
property of a run and stands on `OrderTheorem`. `Speakers` and `Endings` keep
the runs small: in `chat_live` only one client talks, and clients close; in
`chat_room` they are reset, which is the harsher end (one error, then SIGPIPE).
In the command server two clients suffice for a log that is torn and for a child
that holds another's connection. Three bits of block number put the signed limit
at 3 and the wrap at 8; files of 1 to 5 blocks lie on both sides of the first,
and the wrap is where both ends compare alike. Two faults are an ACK lost after
a block, or one doubled and one lost. Two peers that may be namesakes, with two
commands, give a late answer to an earlier SEND, a receiver abandoned, and a
SEND to oneself. For HTTP two threads are two writers, or a writer and a reader;
pieces of 1 and 2 make the later upload shorter or longer than the earlier, and
np20's buffer of 2 neither divides nor exceeds the file of 3. Three names are a
path down, up and into the other user's tree. `MaxSends`, `MaxPasv`,
`MaxChunks`, `MaxUnread`, `MaxFaults`, `MaxCopies`, `MaxCommands` and `MaxEdits`
are bounds of the models and occur as guards of the users' and the network's
actions, or of a PASV that succeeds. The theorems hold for every value of them.

*Deadlock* is not checked (`CHECK_DEADLOCK FALSE`): SIGINT, SIGPIPE and exit end
the process, and connections are finitely many, so that every model stops.
That nobody waits for ever is what the liveness properties and `NoMutualWait`
say.

*Fairness.* Dialogue: weak fairness of each client's program, each server
thread and the arrival of the end of a data connection: threads are scheduled
and TCP delivers. Users typing, failures and signals have none. Chat room: weak
fairness of main and of each client's thread; a mutex need not be fair, but
messages are finite in number, so it is free for good in the end. `ReadersSpec`
adds that clients read, which the repository's own client does in a thread of
its own (`receive_messages`); without it `CtrlCStops` is false. Command server:
main and the threads run, commands of clients not in `Endless` end; clients need
neither read nor leave. TFTP: a packet that is not lost arrives, whatever else
does (weak fairness per packet), programs run, and np18's timer expires; the
network need not lose anything, nor must a key be pressed. Peers: threads run,
timers expire and TCP delivers; datagrams have no fairness. HTTP: threads run,
and a client sends the rest of its request and reads what it is sent, or leaves.
The programs have no timeout and `Send` waits (http_upload.c:117): without
fairness of `ClientReads` TLC finds `RequestsEnd` false, the server keeping the
thread of a client that neither reads nor leaves.

*Finding* (`findings` in `PROJECT.json`): `dialogue_coalesce`, two replies in
one recv leave client and server waiting for each other. Others, seen while
modelling, have no run of their own:

- FTP: a client that leaves early ends the server by SIGPIPE, where only Ctrl+C
  is to stop it (server.c:204). 226 follows a RETR whose sends failed
  (ftp_server.c:347, :357). Past the wrap of the port counter two live sessions
  can start from one port (server.c:79, against line 35), and the 101st PASV of
  a session uses the next session's range (ftp_server.c:214). CWD takes any
  directory that exists at root_dir plus the spelling, so that `cd ..` leads out
  of the user's tree (ftp_server.c:110-129), and CDUP after it goes down again,
  because it edits the spelling (:145). `new_path` overflows after enough
  relative CWDs (:119), `list_buffer` on a directory of many files (:285). A
  download whose local file cannot be created leaves its 226 to the next command
  (ftp_client.c:284).
- Accounts: a first start interrupted while it saves leaves a file without
  accounts, and later starts do not write the defaults again (server.c:210). A
  username twice in the file logs in with either password, into the first one's
  root (account.c:124).
- Chat room: a client that stops reading blocks a broadcast with `clients_mutex`
  held, and Ctrl-C then never ends the server (multithread_chatroom.c:70, :199);
  `CtrlCStops` and `LeaversForgotten` assume that clients read.
  The command server is free of this (`ExecCtrlCStops`).
- TFTP: a lost ACK is never sent again, so a download hangs (tftp_client.c:110);
  block 32768 is never accepted (:108); np18 sends for ever to a client that has
  gone, and looks at no ACK's number (np18.c:99). In an upload of 65536 blocks
  or more a doubled ACK of the WRQ, block 0, passes for that of the block whose
  number came round to 0 (:193), and from there the client may end with its last
  block still under way. `TransferTheorem` leaves such files out by hypothesis;
  TLC with `MaxShort = 0` shows that it has to.
- Peers: a receiver whose SEND was given up waits in accept for ever and hears
  no other (udp_file_client.c:294).
- HTTP: two uploads of one name may leave a file that is neither; the last
  writer's answer says so, if it is still there to read it (http_upload.c:314).
  A file that changes between ftell and fread is sent with memory in its place
  (http_upload.c:405). A client that does not read keeps its thread (:117), and
  a connection for which `pthread_create` failed stays open and unserved (:465).
  np20 and the page of `multithread_http_server`: see above.

## 4. Proofs

All for every value of the constants (any accounts, directories, number of
sessions, clients, peers, threads, blocks and pieces), from the assumptions
named in the modules. Hypotheses beyond those are in the second column.

| Theorem | Hypothesis | Says |
| --- | --- | --- |
| `TypeTheorem`, `IdentityTheorem`, `ReleasedTheorem` (`FtpServer_proofs`) | | `Spec` keeps `TypeOK`, `SessionIdentity`, `DescriptorsReleased` |
| `StoreTableIsFile`, `StorePrefixOfDefaults` (`AccountStore_proofs`) | | `TableIsFile`, `PrefixOfDefaults` |
| `PortTheorem`, `OwnDataTheorem`, `ReservedTheorem` (`FtpServer_proofs`) | `EnoughPorts` | `PortInv`, `OwnData`, and what two comments say of the ports: `StartPortsDiffer` (server.c:35), `ReservedPorts` (server.c:78) |
| `ImplementsServer` (`FtpDialogue_proofs`) | | the dialogue implements the server's own specification |
| `DialogueTypeTheorem`, `DialogueIdentity` | | `DTypeOK`; the server's invariants hold of the dialogue |
| `DialogueOwnData` | `EnoughPorts` | `OwnData` holds of the dialogue |
| `QuietTheorem`, `ExchangeTheorem` | `~Coalesces`, `~LocalFails` | `PromptIsQuiet`; the dialogue implements `FtpExchange` |
| `NoMutualWaitTheorem` | `~Coalesces`, `~LocalFails`, `EnoughPorts` | `NoMutualWait` |
| `ChatTypeTheorem`, `RegistryTheorem` (`ChatRoom_proofs`) | | `TypeOK`, `RegistryExact` |
| `AtomicTheorem` | | the chat room implements `AtomicChat` |
| `OrderTheorem` | | `SameOrder` |
| `ExecTypeTheorem`, `LogTheorem` (`ExecServer_proofs`) | | `ExecTypeOK` with the registry; `LogWhole` |
| `PeerTypeTheorem`, `RightTransferTheorem`, `SavedWholeTheorem`, `ListIsFreshTheorem` (`PeerFiles_proofs`) | | `TypeOK`, `RightTransfer`, `SavedWhole`, and the action property `ListIsFresh` |
| `TftpTypeTheorem`, `InStepTheorem`, `LongTheorem` (`Tftp_proofs`) | | `TypeOK`, `InStep`, `LongNeverComplete` |
| `TransferTheorem` | `MaxFull + 1 < Modulus` | the transfer implements `FileTransfer` |
| `WholeDownloadTheorem`, `TornTheorem` (`HttpFiles_proofs`) | | `WholeDownload`, `TornIsReported` |

*The hypotheses.* `EnoughPorts` says what the code takes for granted: no more
sessions than ranges up to the last start, no more PASVs per session than ports
in a range, and a last range below the last port. With the real numbers (10000,
60000, 65000, 100) that is 501 sessions and 100 PASVs each; the findings above
show what happens beyond. `~Coalesces` is what the client takes for granted of
TCP, and `dialogue_coalesce` refutes it; without `~LocalFails` the reply that
the client leaves unread (ftp_client.c:284) answers its next command. `MaxFull +
1 < Modulus` says that a file has fewer blocks than there are block numbers,
65536.

Each inductive invariant below was an invariant of a TLC run before it was
proved, and so were the type invariants of the chat room and of TFTP, which are
theorems and no longer properties of a run.

*FTP server.* Identity, types and released descriptors are not separately
inductive: that CDUP leads to a directory needs the current one to be one, so
that a walk along its names has been at the parent (`ParentIsDirectory`), and
the root to be that of the user, a data socket's being closed needs the thread's
step, and steps need their types. `SessionInv` is their conjunction, and
`SessionNext` shows that every action keeps it, one lemma per group of handlers.
Ports: `OwnData` alone says nothing about listeners. `PortInv` adds that ranges
are disjoint and lie below the counter, and that each listener, announcement,
waiting client and data connection is inside its session's range; a client can
only connect where a port was announced to it, so the listener it reaches is its
own.

*Accounts.* What a loop over the lines of a file computes is a fact by induction
over the lines, and the library's induction theorems are out of reach of the
provers. It is proved by the least counterexample instead: `LeastNumber` says
that a set of numbers that is not empty has a smallest, `LoopDefined` that a
loop's function satisfies its equations, and what fails at no least round fails
at none (`UpTo`). With these, `ReadsLoop` and `LoadBound` say what a load
returns, `AddsAll` that no default account is refused, and `ReadBack`, the heart
of it, that loading the first lines of what a save prints gives the first
accounts it printed. `StoreInv` says what each phase of the server and of the
file makes of that: while no administrator has written it, the file is empty or
begins as a save of the defaults does, whatever interrupted that save.

*Dialogue.* `DInv` is `SessionInv` with the types of the wire: a 227 under way
names an announced port, however late it is read. From `DInv` each step maps to
a step of `FtpServer` or to none. The alternation of commands and replies needs
`LockInv`: for every session whose two ends are there, the client's place in its
program, the thread's place in its handler and the contents of both queues are
in one of eight phases, from a command on its way to a transfer that has ended
with both its replies unread. Each step goes from phase to phase; what the
phases exclude is a reply too many, which would be taken for the answer to the
next command. `FtpExchange`'s turn is read off the phase. `NoMutualWait` needs
more than the phase for accept: `ConnectedInv` says that a client that waits for
the reply to a transfer has its connection in the session's own backlog until
the session takes it, which is where `EnoughPorts` comes in, since otherwise the
connection may have gone to another session.

*Chat room.* `RoomInv` is `TypeOK`, `RegistryInv` and `MutexInv`. A thread keeps
its descriptor across many steps, during which the kernel may give the number
out again, so exactness needs more than the registry: a connection that has no
thread yet holds nothing, a thread's descriptor refers to its own client until
that thread closes it, the slots hold distinct ones of these, everyone who is
served is in a slot, and `client_count` is the number of slots in use; the
thread that is broadcasting is the holder of the mutex. In the refinement a
message reaches all other members when its sender takes the mutex: what the loop
has yet to send counts as delivered already. No member can join or leave in
between, because that takes the mutex. `SameOrder` is proved of `AtomicChat`
first, whose step is one message to all, and carried back by the refinement:
what was sent to a client is a beginning of what the abstract room gave it. Its
inductive form, `HeardInv`, adds that no stream holds a number its sender has
not reached: so what is said next is new to everybody, and comes after
everything, in whichever streams it is appended to.

*Command server.* `ExecInv` takes `RegistryInv` over from the chat room, whose
lemmas about add, remove, accept and shutdown it cites, and adds `LogInv`: a
thread is between the two parts of an entry exactly while it holds `file_mutex`,
and then the last line is its own head.

*Peers.* `RightTransfer` relates a receiver to a sender through three datagrams,
any of which may be late. `PeerInv` follows the attempt's number, which stands
for the socket: a SEND under way names a target its user typed, an
answer carries the listener that was opened for that very attempt (`NetInv`), a
sender about to connect has such an answer (`AnswerInv`), and the connection a
receiver has is from the attempt it is serving (`ConnInv`). What is saved is a
prefix of that one sender's file (`FileInv`). `ListIsFresh` needs that the
directory only grows and that a listing under way for the latest attempt is no
older than that attempt.

*TFTP.* np18 counts ACKs and the client counts blocks. `StepInv` says that they
are in step until an ACK is lost or doubled, because at most one ACK exists and
only for the block just saved; `DownloadInv` that the client never expects a
number past `MaxShort`. Where numbers do not come round, `CopyInv` adds that the
copy is a prefix of the file, that only blocks the peer has are acknowledged,
and that the client completes with the last block.

*HTTP.* `TornIsReported` needs the converse of what it says: whenever the file
is torn, somebody whose answer is not yet chosen has yet to compare it, namely
the last to have changed it (`TornInv`, `Checking`). A download's pieces equal
the file's beginning as long as nobody `touched` it (`Download`); `Stage` places
each thread in its program.

*Model-checked only.*

- Liveness, and everything under fairness: `CommandReturns`, `SessionEnds`,
  `CtrlCStops`, `LeaversForgotten`, `LogTurnComes`, `ExecCtrlCStops`,
  `ExitIsSeen`, `DownloadEnds`, `UploadEnds`, `CommandsReturn`,
  `ReceiverReturns`, `RequestsEnd`. A proof has to reason about ENABLED, which
  the prover does not do.
- `NoMutualWait` is proved for a client whose recv returns one reply; where
  replies are joined it is false, which `dialogue_coalesce` shows.

## 5. Plan and what is not modelled

Done: `FtpServer`, `FtpPorts`, `AccountStore`, `FtpDialogue`, `ChatRoom`,
`ExecServer`, `Tftp`, `PeerFiles`, `HttpFiles`.

Not modelled:

- np15 (directory and peer by real-time signals) and np14 (chat by signals):
  pending signals, handlers between two steps of main, ports shared by
  processes. They would be next.
- np22 (select FTP): its clients share one root, one data socket and one port by
  design, so that what `FtpServer` promises is false of it at once.
- np17, np21, np10, `udp_chat_server.c`: registries without removal, shutdown or
  mutex; they show nothing that `ChatRoom` does not.
- The chat client's two threads, bind apart from listen in PASV, text,
  partial sends, malformed requests.
- The sequential programs listed in `components`.

*Not proved:* every safety property and every refinement the runs check is a
theorem; the liveness properties are not (section 4). The safety that they
rest on would be next: that the measures by which a transfer and a request end
never grow. So would the ports of the FTP server beyond `EnoughPorts`: that
`OwnData` holds of every session whose range no other live session shares.
