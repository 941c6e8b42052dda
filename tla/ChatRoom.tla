------------------------------ MODULE ChatRoom ------------------------------
(***************************************************************************)
(* The multithreaded chat room, assignment/multithread_chatroom.c: main    *)
(* accepts connections and registers their descriptors in the array        *)
(* clients; one thread per client receives its messages and sends each to  *)
(* all the others, under clients_mutex; Ctrl-C closes the listening        *)
(* socket, and main closes what is registered and exits.                   *)
(*                                                                         *)
(* A critical section that cannot block (add_client, remove_client, the    *)
(* loop that closes everything) is one step, taken when the mutex is free; *)
(* a broadcast, which can, has a step for each send.  Descriptors are      *)
(* numbers the kernel gives out lowest first and again after close.        *)
(***************************************************************************)
EXTENDS Integers, Sequences, FiniteSetsExt, Tcp

CONSTANTS
  Clients,      \* the connections of one life of the server
  Descriptors,  \* the numbers the kernel has for them
  MAX_CLIENTS,  \* 1024: slots of the registry
  Room,         \* messages a connection holds before a send to it blocks
  Endings,      \* how a client goes: it closes ("fin"), is reset ("err")
  Speakers,     \* bound: the clients that say something
  MaxSends      \* bound: messages of all the clients

None == 0
Destroyed == -1

ASSUME ChatAssumption ==
  /\ Descriptors \subseteq Nat \ {None} /\ IsFiniteSet(Descriptors)
  /\ MAX_CLIENTS \in Nat \ {0} /\ Room \in Nat \ {0} /\ MaxSends \in Nat
  /\ {None, Destroyed} \cap Clients = {} /\ Speakers \subseteq Clients
  /\ Endings \subseteq {"fin", "err"}

VARIABLES
  process,       \* running, exited, or killed by SIGPIPE
  stop_server,   \* set by handle_sigint
  listening,     \* server_sock is open
  main,          \* the step the main thread is at
  client_fd,     \* the descriptor it has just accepted
  refers,        \* the descriptor table: whose connection each number is
  clients,       \* the registry: a descriptor in each slot, or 0
  client_count,
  clients_mutex, \* the thread that holds it, None or Destroyed
  at,            \* the step each client's thread is at
  client_sock,   \* its descriptor
  slot,          \* the loop variable of its broadcast
  conn,          \* each connection, as the server's TCP sees it
  said,          \* messages the client has sent
  taken,         \* messages its thread has received
  stream,        \* the messages broadcasts sent to the client
  unread         \* how many of them it has not read

registry == <<clients, client_count>>
threads  == <<at, client_sock, slot, taken>>
network  == <<conn, said, stream, unread>>
vars == <<process, stop_server, listening, main, client_fd, refers, registry,
          clients_mutex, threads, network>>

Slots == 1..MAX_CLIENTS

Init ==
  /\ process = "running"
  /\ stop_server = FALSE /\ listening = TRUE
  /\ main = "check" /\ client_fd = None
  /\ refers = [fd \in Descriptors |-> None]
  /\ clients = [i \in Slots |-> None] /\ client_count = 0
  /\ clients_mutex = None
  /\ at = [c \in Clients |-> "none"]
  /\ client_sock = [c \in Clients |-> None]
  /\ slot = [c \in Clients |-> 1]
  /\ conn = [c \in Clients |-> "none"]
  /\ said = [c \in Clients |-> 0]
  /\ taken = [c \in Clients |-> 0]
  /\ stream = [c \in Clients |-> <<>>]
  /\ unread = [c \in Clients |-> 0]
-----------------------------------------------------------------------------
(***************************************************************************)
(* The registry.                                                           *)
(***************************************************************************)
\* pthread_mutex_lock returns: the mutex is free, or was destroyed; locking a
\* destroyed one fails, which nobody looks at.
Available == clients_mutex \in {None, Destroyed}

Holding(fd) == {i \in Slots : clients[i] = fd}

\* add_client: the first free slot, unless the registry is full.
Full == client_count >= MAX_CLIENTS \/ Holding(None) = {}

add_client(fd) ==
  /\ clients' = [clients EXCEPT ![Min(Holding(None))] = fd]
  /\ client_count' = client_count + 1

\* remove_client: the first slot with this descriptor.
remove_client(fd) ==
  IF Holding(fd) = {} THEN UNCHANGED registry
  ELSE /\ clients' = [clients EXCEPT ![Min(Holding(fd))] = None]
       /\ client_count' = client_count - 1

\* close: the number is free; closing a free one fails.
Closes(fd) ==
  /\ refers' = [refers EXCEPT ![fd] = None]
  /\ conn' = [c \in Clients |-> IF refers[fd] = c THEN "closed" ELSE conn[c]]
-----------------------------------------------------------------------------
(***************************************************************************)
(* The main thread.                                                        *)
(***************************************************************************)
ToMain(step) == process = "running" /\ main' = step

\* while (!stop_server)
Checks ==
  /\ main = "check"
  /\ ToMain(IF stop_server THEN "closing" ELSE "accept")
  /\ UNCHANGED <<process, stop_server, listening, client_fd, refers, registry,
                 clients_mutex, threads, network>>

\* accept returns a connection.
Accepts(c) ==
  /\ main = "accept" /\ listening
  /\ conn[c] = "none"
  /\ \E fd \in Descriptors : refers[fd] = None
  /\ LET fd == Min({n \in Descriptors : refers[n] = None})
     IN  client_fd' = fd /\ refers' = [refers EXCEPT ![fd] = c]
  /\ conn' = [conn EXCEPT ![c] = "open"]
  /\ ToMain("add")
  /\ UNCHANGED <<process, stop_server, listening, registry, clients_mutex,
                 threads, said, stream, unread>>

\* accept fails, the listening socket being closed; stop_server is set.
AcceptFails ==
  /\ main = "accept" /\ ~listening
  /\ ToMain("closing")
  /\ UNCHANGED <<process, stop_server, listening, client_fd, refers, registry,
                 clients_mutex, threads, network>>

Registers ==
  /\ main = "add" /\ Available /\ ~Full
  /\ add_client(client_fd)
  /\ ToMain("create")
  /\ UNCHANGED <<process, stop_server, listening, client_fd, refers,
                 clients_mutex, threads, network>>

\* "Server is full": the notice is left out, the connection is closed.
Rejects ==
  /\ main = "add" /\ Available /\ Full
  /\ Closes(client_fd)
  /\ client_fd' = None
  /\ ToMain("check")
  /\ UNCHANGED <<process, stop_server, listening, registry,
                 clients_mutex, threads, said, stream, unread>>

CreatesThread(c) ==
  /\ main = "create" /\ refers[client_fd] = c
  /\ at' = [at EXCEPT ![c] = "recv"]
  /\ client_sock' = [client_sock EXCEPT ![c] = client_fd]
  /\ client_fd' = None
  /\ ToMain("check")
  /\ UNCHANGED <<process, stop_server, listening, refers, registry,
                 clients_mutex, slot, taken, network>>

\* Mutant: the error path closes the descriptor and forgets the registry.
CreateFails_KeepsSlot ==
  /\ main = "create"
  /\ Closes(client_fd)
  /\ client_fd' = None
  /\ ToMain("check")
  /\ UNCHANGED <<process, stop_server, listening, registry,
                 clients_mutex, threads, said, stream, unread>>

\* malloc or pthread_create failed.
CreateFails ==
  /\ main = "create" /\ Available
  /\ remove_client(client_fd)
  /\ Closes(client_fd)
  /\ client_fd' = None
  /\ ToMain("check")
  /\ UNCHANGED <<process, stop_server, listening, clients_mutex,
                 threads, said, stream, unread>>

\* After the loop: everything registered is shut down, closed and forgotten;
\* client_count stays.
ClosesAll ==
  /\ main = "closing" /\ Available
  /\ refers' = [fd \in Descriptors |->
                  IF Holding(fd) = {} THEN refers[fd] ELSE None]
  /\ conn' = [c \in Clients |->
                IF \E fd \in Descriptors : Holding(fd) # {} /\ refers[fd] = c
                THEN "closed" ELSE conn[c]]
  /\ clients' = [i \in Slots |-> None]
  /\ ToMain("destroy")
  /\ UNCHANGED <<process, stop_server, listening, client_fd, client_count,
                 clients_mutex, threads, said, stream, unread>>

\* pthread_mutex_destroy, while client threads may still run: it fails when one
\* of them holds the mutex.
Destroys ==
  /\ main = "destroy"
  /\ clients_mutex' = IF clients_mutex = None THEN Destroyed ELSE clients_mutex
  /\ ToMain("exit")
  /\ UNCHANGED <<process, stop_server, listening, client_fd, refers, registry,
                 threads, network>>

Exits ==
  /\ main = "exit"
  /\ process = "running" /\ process' = "exited"
  /\ UNCHANGED <<stop_server, listening, main, client_fd, refers, registry,
                 clients_mutex, threads, network>>
-----------------------------------------------------------------------------
(***************************************************************************)
(* A client's thread.                                                      *)
(***************************************************************************)
Go(c, step) == process = "running" /\ at' = [at EXCEPT ![c] = step]

\* recv returns a message.
Receives(c) ==
  /\ at[c] = "recv"
  /\ refers[client_sock[c]] = c /\ taken[c] < said[c]
  /\ taken' = [taken EXCEPT ![c] = @ + 1]
  /\ Go(c, "lock")
  /\ UNCHANGED <<process, stop_server, listening, main, client_fd, refers,
                 registry, clients_mutex, client_sock, slot, network>>

\* recv returns 0 or an error, once what had arrived is read: the client has
\* gone (an error is reported once), or main has closed the descriptor.
Ends(c) ==
  /\ at[c] = "recv"
  /\ \/ refers[client_sock[c]] # c
     \/ conn[c] # "open" /\ taken[c] = said[c]
  /\ conn' = [conn EXCEPT ![c] = IF @ = "err" THEN "rst" ELSE @]
  /\ Go(c, "remove")
  /\ UNCHANGED <<process, stop_server, listening, main, client_fd, refers,
                 registry, clients_mutex, client_sock, slot, taken, said, stream,
                 unread>>

Message(c) == <<c, taken[c]>>

\* Mutant: the broadcast does without the mutex.
Locks_Not(c) ==
  /\ at[c] = "lock"
  /\ Go(c, "sending")
  /\ UNCHANGED <<process, stop_server, listening, main, client_fd, refers,
                 registry, clients_mutex, client_sock, slot, taken, network>>

\* broadcast_message begins.
Locks(c) ==
  /\ at[c] = "lock" /\ Available
  /\ clients_mutex' = IF clients_mutex = None THEN c ELSE clients_mutex
  /\ Go(c, "sending")
  /\ UNCHANGED <<process, stop_server, listening, main, client_fd, refers,
                 registry, client_sock, slot, taken, network>>

\* The slots the loop has yet to send to, and whose the first of them is.
ToSend(c) ==
  {i \in Slots : i >= slot[c] /\ clients[i] \notin {None, client_sock[c]}}

Receiver(c) == refers[clients[Min(ToSend(c))]]

\* One send, its result ignored; it blocks while the connection is full.
Sends(c) ==
  /\ at[c] = "sending" /\ ToSend(c) # {}
  /\ \E d \in Clients :
       /\ d = Receiver(c)
       /\ conn[d] = "open" => unread[d] < Room
       /\ \E after \in AfterSend(conn[d]) : conn' = [conn EXCEPT ![d] = after]
       /\ stream' = [stream EXCEPT ![d] = Append(@, Message(c))]
       /\ unread' = [unread EXCEPT ![d] = IF conn[d] = "open" THEN @ + 1 ELSE 0]
  /\ slot' = [slot EXCEPT ![c] = Min(ToSend(c)) + 1]
  /\ Go(c, "sending")
  /\ UNCHANGED <<process, stop_server, listening, main, client_fd, refers,
                 registry, clients_mutex, client_sock, taken, said>>

Unlocks(c) ==
  /\ at[c] = "sending" /\ ToSend(c) = {}
  /\ clients_mutex' = IF clients_mutex = c THEN None ELSE clients_mutex
  /\ slot' = [slot EXCEPT ![c] = 1]
  /\ Go(c, "recv")
  /\ UNCHANGED <<process, stop_server, listening, main, client_fd, refers,
                 registry, client_sock, taken, network>>

Removes(c) ==
  /\ at[c] = "remove" /\ Available
  /\ remove_client(client_sock[c])
  /\ Go(c, "close")
  /\ UNCHANGED <<process, stop_server, listening, main, client_fd, refers,
                 clients_mutex, client_sock, slot, taken, network>>

\* Mutant: the thread ends without closing its descriptor.
ClosesOwn_Not(c) ==
  /\ at[c] = "close"
  /\ Go(c, "done")
  /\ UNCHANGED <<process, stop_server, listening, main, client_fd, refers,
                 registry, clients_mutex, client_sock, slot, taken, network>>

\* close: after a shutdown main has closed the descriptor already.
ClosesOwn(c) ==
  /\ at[c] = "close"
  /\ Closes(client_sock[c])
  /\ client_sock' = [client_sock EXCEPT ![c] = None]
  /\ Go(c, "done")
  /\ UNCHANGED <<process, stop_server, listening, main, client_fd, registry,
                 clients_mutex, slot, taken, said, stream, unread>>

\* A send to a connection known to be gone: SIGPIPE ends the process.
SigPipe(c) ==
  /\ process = "running"
  /\ at[c] = "sending" /\ ToSend(c) # {}
  /\ \E d \in Clients : d = Receiver(c) /\ conn[d] = "rst"
  /\ process' = "killed"
  /\ UNCHANGED <<stop_server, listening, main, client_fd, refers, registry,
                 clients_mutex, threads, network>>
-----------------------------------------------------------------------------
(***************************************************************************)
(* Ctrl-C and the clients.                                                 *)
(***************************************************************************)
\* Mutant: only the flag is set, and accept goes on waiting.
handle_sigint_FlagOnly ==
  /\ process = "running" /\ ~stop_server
  /\ stop_server' = TRUE
  /\ UNCHANGED <<process, listening, main, client_fd, refers, registry,
                 clients_mutex, threads, network>>

\* handle_sigint, in the main thread: Linux prefers it for a signal to the
\* process, so that no send is interrupted.
handle_sigint ==
  /\ process = "running" /\ ~stop_server
  /\ stop_server' = TRUE /\ listening' = FALSE
  /\ UNCHANGED <<process, main, client_fd, refers, registry, clients_mutex,
                 threads, network>>

ClientSays(c) ==
  /\ process = "running"
  /\ conn[c] = "open" /\ c \in Speakers
  /\ MapThenSumSet(LAMBDA d : said[d], Clients) < MaxSends
  /\ said' = [said EXCEPT ![c] = @ + 1]
  /\ UNCHANGED <<process, stop_server, listening, main, client_fd, refers,
                 registry, clients_mutex, threads, conn, stream, unread>>

\* receive_messages in the client reads and prints.
ClientReads(c) ==
  /\ process = "running"
  /\ conn[c] = "open" /\ unread[c] > 0
  /\ unread' = [unread EXCEPT ![c] = @ - 1]
  /\ UNCHANGED <<process, stop_server, listening, main, client_fd, refers,
                 registry, clients_mutex, threads, conn, said, stream>>

\* The client closes its connection, or it is reset.
ClientLeaves(c) ==
  /\ process = "running"
  /\ conn[c] = "open"
  /\ \E gone \in Endings : conn' = [conn EXCEPT ![c] = gone]
  /\ unread' = [unread EXCEPT ![c] = 0]
  /\ UNCHANGED <<process, stop_server, listening, main, client_fd, refers,
                 registry, clients_mutex, threads, said, stream>>
-----------------------------------------------------------------------------
MainThread ==
  \/ Checks \/ AcceptFails \/ Registers \/ Rejects
  \/ \E c \in Clients : CreatesThread(c)
  \/ ClosesAll \/ Destroys \/ Exits

ClientThread(c) ==
  \/ Receives(c) \/ Ends(c)
  \/ Locks(c) \/ Sends(c) \/ SigPipe(c) \/ Unlocks(c)
  \/ Removes(c) \/ ClosesOwn(c)

Next ==
  \/ MainThread
  \/ CreateFails
  \/ handle_sigint
  \/ \E c \in Clients :
       \/ Accepts(c) \/ ClientThread(c)
       \/ ClientSays(c) \/ ClientReads(c) \/ ClientLeaves(c)

Spec == Init /\ [][Next]_vars

\* The threads run.  A mutex that becomes free again and again need not be given
\* to everyone who waits, but clients say only so much.
Fairness == WF_vars(MainThread) /\ \A c \in Clients : WF_vars(ClientThread(c))

FairSpec == Spec /\ Fairness

\* And the clients read, as receive_messages does.
ReadersSpec == FairSpec /\ \A c \in Clients : WF_vars(ClientReads(c))
-----------------------------------------------------------------------------
(***************************************************************************)
(* Properties.                                                             *)
(***************************************************************************)
MainSteps == {"check", "accept", "add", "create", "closing", "destroy", "exit"}
Steps == {"none", "recv", "lock", "sending", "remove", "close", "done"}

\* Types; the count stays within the registry, and a thread never takes more
\* messages than its client has sent.
TypeOK ==
  /\ process \in {"running", "exited", "killed"}
  /\ stop_server \in BOOLEAN /\ listening \in BOOLEAN
  /\ main \in MainSteps
  /\ client_fd \in Descriptors \cup {None}
  /\ refers \in [Descriptors -> Clients \cup {None}]
  /\ clients \in [Slots -> Descriptors \cup {None}]
  /\ client_count \in 0..MAX_CLIENTS
  /\ clients_mutex \in Clients \cup {None, Destroyed}
  /\ at \in [Clients -> Steps]
  /\ client_sock \in [Clients -> Descriptors \cup {None}]
  /\ slot \in [Clients -> 1..(MAX_CLIENTS + 1)]
  /\ conn \in [Clients -> Connection \cup {"none", "closed"}]
  /\ said \in [Clients -> Nat] /\ taken \in [Clients -> Nat]
  /\ \A c \in Clients : taken[c] <= said[c]
  /\ stream \in [Clients -> Seq(Clients \X Nat)]
  /\ unread \in [Clients -> 0..Room]

Registered(c) == {i \in Slots : clients[i] # None /\ refers[clients[i]] = c}

\* Until main closes everything the registry is exact, although descriptors are
\* reused at once: a client whose thread receives or broadcasts has one slot,
\* with its own descriptor, nobody else has any, and the count is right.  A
\* thread never holds a number that has become another client's.
RegistryExact ==
  main \notin {"destroy", "exit"} =>
    /\ client_count = Cardinality(Slots \ Holding(None))
    /\ \A i \in Slots : clients[i] # None => refers[clients[i]] # None
    /\ \A c \in Clients :
         IF at[c] \in {"recv", "lock", "sending", "remove"}
         THEN /\ Cardinality(Registered(c)) = 1
              /\ Registered(c) = Holding(client_sock[c])
         ELSE Registered(c) # {} =>
                main = "create" /\ Registered(c) = Holding(client_fd)
    /\ \A c \in Clients :
         at[c] \in Steps \ {"none", "done"} => refers[client_sock[c]] = c

\* One order for the whole room, whoever joins, leaves or is slow: two messages
\* that two clients both get reach them in the same order, each once; a client's
\* own come in the order it said them, and never back to itself.
SameOrder ==
  /\ \A c, d \in Clients :
       \A i, j \in DOMAIN stream[c], k, l \in DOMAIN stream[d] :
         stream[c][i] = stream[d][k] /\ stream[c][j] = stream[d][l] =>
           (i < j <=> k < l)
  /\ \A c \in Clients : \A i, j \in DOMAIN stream[c] :
       i < j /\ stream[c][i][1] = stream[c][j][1] =>
         stream[c][i][2] < stream[c][j][2]
  /\ \A c \in Clients : \A i \in DOMAIN stream[c] : stream[c][i][1] # c

\* Ctrl-C ends the server: "Server exiting cleanly." (multithread_chatroom.c:213)
CtrlCStops == stop_server ~> process # "running"

\* A client that leaves is forgotten: its thread ends, its descriptor is free.
LeaversForgotten ==
  \A c \in Clients :
    conn[c] \in {"fin", "err", "rst"} ~>
      process # "running" \/ \A fd \in Descriptors : refers[fd] # c
=============================================================================
