------------------------------ MODULE PeerFiles ------------------------------
(***************************************************************************)
(* Peer-to-peer file transfer: the directory assignment/udp_file_server.c  *)
(* and the peers assignment/udp_file_client.c, one on each machine.  A     *)
(* peer has two threads: main works through the user's commands, the other *)
(* takes SEND requests, opens a TCP listener for each, answers, and saves  *)
(* what arrives.  Every LIST and SEND uses a UDP socket of its own.        *)
(*                                                                         *)
(* Datagrams are lost, delayed and reordered: those under way form a set,  *)
(* and nothing makes them arrive.  A broadcast is a datagram to each.      *)
(***************************************************************************)
EXTENDS Naturals, Sequences, FiniteSetsExt, Tcp

CONSTANTS
  Peers,        \* the peers, one on each address
  Names,        \* "uname_" and a random number: two peers may have the same
  Drawn,        \* bound: who may have drawn which
  Quitters,     \* bound: the peers that QUIT or get Ctrl-C
  Size,         \* pieces of the file anybody sends
  MAX_CLIENTS,  \* 100: entries of the directory
  MaxCommands   \* bound: commands of all the users

None == "none"

ASSUME PeerAssumption ==
  /\ None \notin Peers
  /\ Size \in Nat /\ MAX_CLIENTS \in Nat
  /\ Drawn \subseteq [Peers -> Names] /\ Quitters \subseteq Peers
  /\ MaxCommands \in Nat

VARIABLES
  my_name,   \* of each peer
  at,        \* the step of its main thread
  attempt,   \* its commands so far; each has its own socket
  target,    \* whom the last SEND was for
  answer,    \* the receiver that answered it, and its port
  link,      \* the connection to it, as the sender's TCP sees it
  listed,    \* clients there were when it typed LIST, then those it showed
  rx,        \* the step of the thread that receives
  serving,   \* the SEND that thread has answered: the peer and its attempt
  port,      \* the listener it has opened, the latest one
  conn,      \* the connection on that listener, as its TCP sees it
  file,      \* the copy it is writing or has written
  net,       \* datagrams under way
  clients    \* the directory

sender   == <<at, attempt, target, answer, link, listed>>
receiver == <<rx, serving, port, conn, file>>
vars == <<my_name, sender, receiver, net, clients>>

NoAnswer == <<None, 0>>
NoConn  == [from |-> None, attempt |-> 0, target |-> None, sent |-> 0, eof |-> FALSE]
Running(p) == at[p] # "gone"

Init ==
  /\ my_name \in Drawn
  /\ at = [p \in Peers |-> "start"]
  /\ attempt = [p \in Peers |-> 0]
  /\ target = [p \in Peers |-> None]
  /\ answer = [p \in Peers |-> NoAnswer]
  /\ link = [p \in Peers |-> "closed"]
  /\ listed = [p \in Peers |-> 0]
  /\ rx = [p \in Peers |-> "off"]
  /\ serving = [p \in Peers |-> <<None, 0>>]
  /\ port = [p \in Peers |-> 0]
  /\ conn = [p \in Peers |-> NoConn]
  /\ file = [p \in Peers |-> <<>>]
  /\ net = {}
  /\ clients = <<>>

Datagram(op, from, to, n, what) ==
  [op |-> op, from |-> from, to |-> to, attempt |-> n, what |-> what]

Go(p, step) == at' = [at EXCEPT ![p] = step]
-----------------------------------------------------------------------------
(***************************************************************************)
(* The directory: handle_registration and handle_list_request, each in one *)
(* critical section of the mutex.                                          *)
(***************************************************************************)
Entries(name) == {i \in 1..Len(clients) : clients[i].name = name}

\* Mutant: a name that registers again is entered again.
Enters_Again(name, ip) ==
  clients' = IF Len(clients) < MAX_CLIENTS
             THEN Append(clients, [name |-> name, ip |-> ip]) ELSE clients

\* A known name gets the new address; a new one is entered if there is room.
Enters(name, ip) ==
  clients' = IF Entries(name) # {}
             THEN [i \in 1..Len(clients) |->
                     IF i \in Entries(name) THEN [clients[i] EXCEPT !.ip = ip]
                     ELSE clients[i]]
             ELSE IF Len(clients) < MAX_CLIENTS
             THEN Append(clients, [name |-> name, ip |-> ip]) ELSE clients

handle_registration(m) ==
  /\ m.op = "REG"
  /\ Enters(m.what, m.from)
  /\ net' = net \ {m}
  /\ UNCHANGED <<my_name, sender, receiver>>

handle_list_request(m) ==
  /\ m.op = "LIST"
  /\ net' = (net \ {m}) \cup
            {Datagram("LISTING", "server", m.from, m.attempt, Len(clients))}
  /\ UNCHANGED <<my_name, sender, receiver, clients>>
-----------------------------------------------------------------------------
(***************************************************************************)
(* The main thread of a peer.                                              *)
(***************************************************************************)
\* register_client: one broadcast that nobody acknowledges; a second later the
\* other thread binds its port.
Starts(p) ==
  /\ at[p] = "start"
  /\ Go(p, "prompt")
  /\ rx' = [rx EXCEPT ![p] = "recv"]
  /\ net' = net \cup {Datagram("REG", p, "server", 0, my_name[p])}
  /\ UNCHANGED <<my_name, attempt, target, answer, link, listed, serving, port,
                 conn, file, clients>>

Commands(p) ==
  /\ at[p] = "prompt"
  /\ MapThenSumSet(LAMBDA q : attempt[q], Peers) < MaxCommands
  /\ attempt' = [attempt EXCEPT ![p] = @ + 1]

\* get_client_list asks.
TypesLIST(p) ==
  /\ Commands(p)
  /\ Go(p, "list")
  /\ net' = net \cup {Datagram("LIST", p, "server", attempt'[p], "")}
  /\ listed' = [listed EXCEPT ![p] = Len(clients)]
  /\ UNCHANGED <<my_name, target, answer, link, receiver, clients>>

\* send_file_to_client asks everyone; the file is there.  Peers of other names
\* drop the datagram (udp_file_client.c:249), so it is kept for the rest.
TypesSEND(p, name) ==
  /\ Commands(p)
  /\ Go(p, "wait")
  /\ target' = [target EXCEPT ![p] = name]
  /\ answer' = [answer EXCEPT ![p] = NoAnswer]
  /\ net' = net \cup {Datagram("SEND", p, q, attempt'[p], name) :
                        q \in {q \in Peers : rx[q] # "off" /\ my_name[q] = name}}
  /\ UNCHANGED <<my_name, link, listed, receiver, clients>>

\* Mutant: one socket for all commands, bound to a fixed port.
Mine_AnyAttempt(p, m) == m.to = p

\* recvfrom on the command's own socket.
Mine(p, m) == m.to = p /\ m.attempt = attempt[p]

TakesListing(p, m) ==
  /\ at[p] = "list" /\ m.op = "LISTING" /\ Mine(p, m)
  /\ listed' = [listed EXCEPT ![p] = m.what]
  /\ Go(p, "prompt")
  /\ net' = net \ {m}
  /\ UNCHANGED <<my_name, attempt, target, answer, link, receiver, clients>>

\* Mutant: the address is taken as written, and 0.0.0.0 is oneself.
Address_AsWritten(p, m) == p

\* Receivers write "0.0.0.0" for their own address; the datagram's is used.
Address(p, m) == m.from

\* The first answer is taken.
TakesAnswer(p, m) ==
  /\ at[p] = "wait" /\ m.op = "ANSWER" /\ Mine(p, m)
  /\ answer' = [answer EXCEPT ![p] = <<Address(p, m), m.what>>]
  /\ Go(p, "connect")
  /\ net' = net \ {m}
  /\ UNCHANGED <<my_name, attempt, target, link, listed, receiver, clients>>

\* Mutant: recvfrom waits for ever.
SO_RCVTIMEO_None(p) == FALSE

SO_RCVTIMEO(p) == at[p] \in {"list", "wait"}

\* "No response (timeout)" after 3 or 5 seconds: the socket is closed.
TimesOut(p) ==
  /\ SO_RCVTIMEO(p)
  /\ Go(p, "prompt")
  /\ UNCHANGED <<my_name, attempt, target, answer, link, listed, receiver, net,
                 clients>>

To(p) == answer[p][1]
Listening(p) ==
  /\ Running(To(p)) /\ rx[To(p)] = "accept" /\ port[To(p)] = answer[p][2]

\* send_file_tcp: connect, to the listener or to a port nobody listens on.
Connects(p) ==
  /\ at[p] = "connect"
  /\ IF Listening(p)
     THEN /\ conn' = [conn EXCEPT ![To(p)] =
                        [NoConn EXCEPT !.from = p, !.attempt = attempt[p],
                                       !.target = target[p]]]
          /\ link' = [link EXCEPT ![p] = "open"]
          /\ Go(p, "sending")
     ELSE Go(p, "prompt") /\ UNCHANGED <<conn, link>>
  /\ UNCHANGED <<my_name, attempt, target, answer, listed, rx, serving, port,
                 file, net, clients>>

Linked(p) == link[p] = "open" /\ conn[To(p)].from = p

\* The size, then the pieces; what send returns is ignored.
Sends(p) ==
  /\ at[p] = "sending" /\ link[p] # "rst"
  /\ IF Linked(p)
     THEN /\ conn[To(p)].sent <= Size
          /\ conn' = [conn EXCEPT ![To(p)].sent = @ + 1]
          /\ UNCHANGED <<link, at>>
     ELSE /\ UNCHANGED conn
          /\ \/ \E after \in AfterSend(link[p]) : link' = [link EXCEPT ![p] = after]
                /\ UNCHANGED at
             \/ Go(p, "prompt") /\ link' = [link EXCEPT ![p] = "closed"]
  /\ UNCHANGED <<my_name, attempt, target, answer, listed, rx, serving, port,
                 file, net, clients>>

\* close: "Transfer complete!"
SendDone(p) ==
  /\ at[p] = "sending" /\ Linked(p) /\ conn[To(p)].sent = Size + 1
  /\ conn' = [conn EXCEPT ![To(p)].eof = TRUE]
  /\ link' = [link EXCEPT ![p] = "closed"]
  /\ Go(p, "prompt")
  /\ UNCHANGED <<my_name, attempt, target, answer, listed, rx, serving, port,
                 file, net, clients>>

\* The process is gone: QUIT, Ctrl-C, or SIGPIPE.  Who was sending to it sees a
\* reset, who was receiving from it an end.  (A peer that dies while it waits is
\* as one that gives up and dies at the prompt.)
Quits(p) ==
  /\ Running(p)
  /\ link[p] = "rst" \/ (p \in Quitters /\ at[p] \in {"prompt", "sending"})
  /\ Go(p, "gone")
  /\ conn' = [q \in Peers |->
                IF q = p THEN NoConn
                ELSE IF conn[q].from = p THEN [conn[q] EXCEPT !.eof = TRUE]
                ELSE conn[q]]
  /\ link' = [q \in Peers |->
                IF q = p THEN "closed"
                ELSE IF conn[p].from = q /\ link[q] = "open" THEN "err" ELSE link[q]]
  /\ rx' = [rx EXCEPT ![p] = "off"]
  /\ UNCHANGED <<my_name, attempt, target, answer, listed, serving, port, file,
                 net, clients>>
-----------------------------------------------------------------------------
(***************************************************************************)
(* receive_send_request, the other thread.                                 *)
(***************************************************************************)
\* A SEND for this name: a listener on a new port, and its number as answer.
TakesSEND(q, m) ==
  /\ rx[q] = "recv" /\ m.op = "SEND" /\ m.to = q
  /\ serving' = [serving EXCEPT ![q] = <<m.from, m.attempt>>]
  /\ port' = [port EXCEPT ![q] = @ + 1]
  /\ net' = (net \ {m}) \cup
            {Datagram("ANSWER", q, m.from, m.attempt, port'[q])}
  /\ rx' = [rx EXCEPT ![q] = "accept"]
  /\ UNCHANGED <<my_name, sender, conn, file, clients>>

\* accept, which has no timeout.
Accepts(q) ==
  /\ rx[q] = "accept" /\ conn[q] # NoConn
  /\ rx' = [rx EXCEPT ![q] = "size"]
  /\ UNCHANGED <<my_name, sender, serving, port, conn, file, net, clients>>

\* The connection is closed; a sender that is still there finds out.
Hangs(q) ==
  /\ rx' = [rx EXCEPT ![q] = "recv"]
  /\ conn' = [conn EXCEPT ![q] = NoConn]
  /\ link' = [p \in Peers |->
                IF p = conn[q].from /\ ~conn[q].eof /\ link[p] = "open" THEN "err"
                ELSE link[p]]

\* The size arrives, or the end, and the file is created or cannot be.
ReadsSize(q) ==
  /\ rx[q] = "size" /\ (conn[q].sent > 0 \/ conn[q].eof)
  /\ \/ /\ file' = [file EXCEPT ![q] = <<>>]
        /\ rx' = [rx EXCEPT ![q] = "data"]
        /\ UNCHANGED <<conn, link>>
     \/ Hangs(q) /\ UNCHANGED file
  /\ UNCHANGED <<my_name, at, attempt, target, answer, listed, serving, port,
                 net, clients>>

\* Mutant: the loop stops one piece early.
Wants_Less(q) == Len(file[q]) + 1 < Size

\* received < file_size
Wants(q) == Len(file[q]) < Size

ReadsPiece(q) ==
  /\ rx[q] = "data" /\ Wants(q) /\ conn[q].sent > Len(file[q]) + 1
  /\ file' = [file EXCEPT ![q] = Append(@, <<conn[q].from, Len(@) + 1>>)]
  /\ UNCHANGED <<my_name, sender, rx, serving, port, conn, net, clients>>

\* "Saved": all of it, or what came before the end.
Saves(q) ==
  /\ rx[q] = "data"
  /\ ~Wants(q) \/ (conn[q].eof /\ conn[q].sent <= Len(file[q]) + 1)
  /\ Hangs(q)
  /\ UNCHANGED <<my_name, at, attempt, target, answer, listed, serving, port,
                 file, net, clients>>
-----------------------------------------------------------------------------
Main(p) ==
  \/ Starts(p) \/ TimesOut(p) \/ Connects(p) \/ Sends(p) \/ SendDone(p)

Receiver(q) == Accepts(q) \/ ReadsSize(q) \/ ReadsPiece(q) \/ Saves(q)

Next ==
  \/ \E p \in Peers :
       \/ Main(p) \/ Receiver(p) \/ Quits(p)
       \/ TypesLIST(p) \/ \E name \in Names : TypesSEND(p, name)
       \/ \E m \in net : TakesListing(p, m) \/ TakesAnswer(p, m) \/ TakesSEND(p, m)
  \/ \E m \in net : handle_registration(m) \/ handle_list_request(m)

\* Threads run, timers expire, TCP delivers; datagrams need not arrive.
FairSpec ==
  /\ Init /\ [][Next]_vars
  /\ \A p \in Peers : WF_vars(Main(p)) /\ WF_vars(Receiver(p))
  /\ \A p \in Peers : WF_vars(link[p] = "rst" /\ Quits(p))
-----------------------------------------------------------------------------
(***************************************************************************)
(* Properties.                                                             *)
(***************************************************************************)
\* Types; the directory knows each name once, at the address of a peer that has
\* it, although registrations are reordered and names collide.
TypeOK ==
  /\ at \in [Peers -> {"start", "prompt", "list", "wait", "connect", "sending", "gone"}]
  /\ rx \in [Peers -> {"off", "recv", "accept", "size", "data"}]
  /\ link \in [Peers -> Connection \cup {"closed"}]
  /\ \A p \in Peers : attempt[p] \in Nat /\ conn[p].sent \in 0..(Size + 1)
  /\ Len(clients) <= MAX_CLIENTS
  /\ \A i \in 1..Len(clients) :
       /\ Entries(clients[i].name) = {i}
       /\ my_name[clients[i].ip] = clients[i].name

\* The connection a receiver accepts is from the peer it answered, for that very
\* SEND, and the user had typed the receiver's name: answers that come after
\* the timeout never direct a later SEND to somebody else.
RightTransfer ==
  \A q \in Peers : conn[q] # NoConn =>
    /\ <<conn[q].from, conn[q].attempt>> = serving[q]
    /\ conn[q].target = my_name[q]

\* What a receiver has saved is one sender's file from its start, all of it
\* unless that sender's process ended (udp_file_client.c:313-323 says "Saved"
\* either way).
SavedWhole ==
  \A q \in Peers :
    /\ \A i \in 1..Len(file[q]) : file[q][i] = <<file[q][1][1], i>>
    /\ rx[q] = "recv" /\ file[q] # <<>> =>
         Len(file[q]) = Size \/ ~Running(file[q][1][1])

\* A LIST shows at least the clients there were when it was typed: never a
\* listing asked for by an earlier LIST, which comes after that one's timeout.
ListIsFresh == [][\A p \in Peers : listed'[p] >= listed[p]]_vars

\* Every command comes back to the prompt, whatever is lost, unless the peer ends.
CommandsReturn ==
  \A p \in Peers :
    at[p] \in {"list", "wait", "connect", "sending"} ~> at[p] \in {"prompt", "gone"}

\* A receiver leaves accept, unless the SEND it answered was given up: its sender
\* timed out, typed the next, took the answer of a namesake, or ended.  Then it
\* waits for ever (udp_file_client.c:294), and so do all later SENDs to it.
Abandoned(q) ==
  LET p == serving[q][1]
  IN  \/ ~Running(p)
      \/ attempt[p] # serving[q][2]
      \/ at[p] = "prompt" /\ answer[p] = NoAnswer
      \/ \E other \in Peers \ {q} :
            answer[p][1] = other /\ my_name[other] = target[p]

ReceiverReturns ==
  \A q \in Peers : rx[q] = "accept" ~> rx[q] # "accept" \/ Abandoned(q)
=============================================================================
