-------------------------- MODULE PeerFiles_proofs --------------------------
(***************************************************************************)
(* Theorems about the peers and their directory, for every number of       *)
(* peers, names, files and commands: who is connected to whom is right     *)
(* whatever datagrams are lost, late or out of order, what is saved is     *)
(* whole, and a listing is never an old one.                               *)
(***************************************************************************)
EXTENDS PeerFiles, SequenceTheorems, TLAPS

PeerSteps  == {"start", "prompt", "list", "wait", "connect", "sending", "gone"}
Whoever    == Peers \cup {None}
Accepted   ==
  [from : Whoever, attempt : Nat, target : Names \cup {None}, sent : 0..(Size + 1),
   eof : BOOLEAN]

\* The types the proofs need.
PeerTypes ==
  /\ my_name \in [Peers -> Names]
  /\ at \in [Peers -> PeerSteps]
  /\ attempt \in [Peers -> Nat]
  /\ target \in [Peers -> Names \cup {None}]
  /\ answer \in [Peers -> Whoever \X Nat]
  /\ link \in [Peers -> Connection \cup {"closed"}]
  /\ listed \in [Peers -> Nat]
  /\ rx \in [Peers -> {"off", "recv", "accept", "size", "data"}]
  /\ serving \in [Peers -> Whoever \X Nat]
  /\ port \in [Peers -> Nat]
  /\ conn \in [Peers -> Accepted]
  /\ file \in [Peers -> Seq(Peers \X Nat)]
  /\ clients \in Seq([name : Names, ip : Peers])

\* The directory.
DirectoryInv ==
  /\ Len(clients) <= MAX_CLIENTS
  /\ \A i, j \in 1..Len(clients) : clients[i].name = clients[j].name => i = j
  /\ \A i \in 1..Len(clients) : my_name[clients[i].ip] = clients[i].name
  /\ \A p \in Peers : listed[p] <= Len(clients)

\* Datagrams under way.  Attempts number the sockets: none is ahead of its
\* peer's, and a listing for the latest one was made after the LIST was typed.
Registering(m) == m.from \in Peers /\ m.what = my_name[m.from]

Asking(m) == m.from \in Peers /\ m.attempt \in Nat /\ m.attempt <= attempt[m.from]

Listing(m) ==
  /\ m.to \in Peers /\ m.attempt \in Nat /\ m.attempt <= attempt[m.to]
  /\ m.what \in Nat /\ m.what <= Len(clients)
  /\ m.attempt = attempt[m.to] /\ at[m.to] = "list" => listed[m.to] <= m.what

Requesting(m) ==
  /\ m.from \in Peers /\ m.to \in Peers
  /\ m.attempt \in Nat /\ m.attempt <= attempt[m.from]
  /\ m.attempt = attempt[m.from] => target[m.from] = my_name[m.to]

\* Who has the answer q sent with port n: the one q serves, if that is still the
\* listener it has open.
Offered(q, n, p, k) == n \in Nat /\ n <= port[q] /\ (n = port[q] => serving[q] = <<p, k>>)

Answering(m) ==
  /\ m.from \in Peers /\ m.to \in Peers
  /\ m.attempt \in Nat /\ m.attempt <= attempt[m.to]
  /\ m.attempt = attempt[m.to] => target[m.to] = my_name[m.from]
  /\ Offered(m.from, m.what, m.to, m.attempt)

Right(m) ==
  /\ m.op = "REG" => Registering(m)
  /\ m.op = "LIST" => Asking(m)
  /\ m.op = "LISTING" => Listing(m)
  /\ m.op = "SEND" => Requesting(m)
  /\ m.op = "ANSWER" => Answering(m)

NetInv == \A m \in net : Right(m)

\* A sender that is about to connect, or has.
Directed(p) ==
  /\ at[p] \in {"connect", "sending"} => To(p) \in Peers
  /\ at[p] = "connect" =>
       target[p] = my_name[To(p)] /\ Offered(To(p), answer[p][2], p, attempt[p])

AnswerInv == \A p \in Peers : Directed(p)

\* A receiver's connection.
Connected(q) ==
  /\ conn[q].from = None => conn[q] = NoConn
  /\ conn[q].from # None =>
       /\ rx[q] \in {"accept", "size", "data"}
       /\ serving[q] = <<conn[q].from, conn[q].attempt>>
       /\ conn[q].target = my_name[q]
  /\ rx[q] \in {"size", "data"} => conn[q].from # None
  /\ conn[q].eof => conn[q].sent = Size + 1 \/ ~Running(conn[q].from)

ConnInv == \A q \in Peers : Connected(q)

\* What it writes and has written; before it starts, nothing.
Written(q) ==
  /\ at[q] = "start" => rx[q] = "off" /\ file[q] = <<>>
  /\ Len(file[q]) <= Size
  /\ \A i \in 1..Len(file[q]) : file[q][i] = <<file[q][1][1], i>>
  /\ rx[q] = "data" /\ file[q] # <<>> => file[q][1][1] = conn[q].from
  /\ rx[q] \in {"recv", "accept", "size"} /\ file[q] # <<>> =>
       Len(file[q]) = Size \/ ~Running(file[q][1][1])

FileInv == \A q \in Peers : Written(q)

PeerInv == PeerTypes /\ DirectoryInv /\ NetInv /\ AnswerInv /\ ConnInv /\ FileInv
-----------------------------------------------------------------------------
LEMMA NobodyIsNone == None \notin Peers /\ Size \in Nat /\ MAX_CLIENTS \in Nat
  BY PeerAssumption

LEMMA InitPeer == Init => PeerInv
  <1> SUFFICES ASSUME Init PROVE PeerInv
    OBVIOUS
  <1>1. PeerTypes
    <2>1. my_name \in [Peers -> Names]
      BY PeerAssumption DEF Init
    <2>2. NoConn \in Accepted
      BY PeerAssumption DEF NoConn, Accepted, Whoever
    <2>3. file \in [Peers -> Seq(Peers \X Nat)] /\ clients \in Seq([name : Names, ip : Peers])
      BY EmptySeq, Zenon DEF Init
    <2>4. answer \in [Peers -> Whoever \X Nat] /\ serving \in [Peers -> Whoever \X Nat]
      BY DEF Init, NoAnswer, Whoever
    <2>5. conn \in [Peers -> Accepted]
      BY <2>2, Zenon DEF Init
    <2>6. at \in [Peers -> PeerSteps]
      BY DEF Init, PeerSteps
    <2> QED
      BY <2>1, <2>3, <2>4, <2>5, <2>6 DEF Init, PeerTypes
  <1>2. DirectoryInv
    <2>1. Len(clients) = 0
      BY EmptySeq DEF Init
    <2> QED
      BY <2>1, PeerAssumption DEF DirectoryInv, Init
  <1>3. NetInv /\ AnswerInv
    BY DEF Init, NetInv, AnswerInv, Directed
  <1>4. ConnInv
    BY DEF Init, ConnInv, Connected, NoConn
  <1>5. FileInv
    <2>1. \A q \in Peers : file[q] = <<>> /\ Len(file[q]) = 0
      BY EmptySeq DEF Init
    <2> QED
      BY <2>1, PeerAssumption DEF Init, FileInv, Written
  <1> QED
    BY <1>1, <1>2, <1>3, <1>4, <1>5 DEF PeerInv

\* What a step may do to the datagrams that stay under way, to the senders and
\* to the receivers that it is not a step of.
Later ==
  /\ my_name' = my_name
  /\ \A p \in Peers :
       \/ attempt'[p] > attempt[p]
       \/ /\ attempt'[p] = attempt[p] /\ target'[p] = target[p]
          /\ at'[p] = "list" => at[p] = "list" /\ listed'[p] = listed[p]
  /\ \A q \in Peers :
       \/ port'[q] > port[q]
       \/ port'[q] = port[q] /\ serving'[q] = serving[q]
  /\ Len(clients') >= Len(clients)
  /\ \A p \in Peers : ~Running(p) => ~Running(p)'

LEMMA RightLater ==
  ASSUME PeerInv, PeerTypes', Later, NEW m \in net
  PROVE  Right(m)'
  <1> USE DEF PeerInv, Later
  <1>0. Right(m)
    BY DEF NetInv
  <1>1. ASSUME m.op = "REG" PROVE Registering(m)'
    BY <1>0, <1>1 DEF Right, Registering
  <1>n. \A p \in Peers :
          /\ attempt[p] \in Nat /\ attempt'[p] \in Nat /\ attempt[p] <= attempt'[p]
          /\ port[p] \in Nat /\ port'[p] \in Nat
    <2>1. \A p \in Peers : /\ attempt[p] \in Nat /\ attempt'[p] \in Nat
                           /\ port[p] \in Nat /\ port'[p] \in Nat
      BY DEF PeerTypes
    <2>2. \A p \in Peers : attempt'[p] = attempt[p] \/ attempt'[p] > attempt[p]
      OBVIOUS
    <2> QED
      BY <2>1, <2>2
  <1>2. ASSUME m.op = "LIST" PROVE Asking(m)'
    BY <1>0, <1>2, <1>n DEF Right, Asking
  <1>3. ASSUME m.op = "LISTING" PROVE Listing(m)'
    <2>1. Len(clients) \in Nat /\ Len(clients') \in Nat
      BY LenProperties DEF PeerTypes
    <2>2. Listing(m)
      BY <1>0, <1>3 DEF Right
    <2>3. attempt'[m.to] = m.attempt /\ at'[m.to] = "list" =>
            attempt[m.to] = m.attempt /\ at[m.to] = "list" /\ listed'[m.to] = listed[m.to]
      BY <1>n, <2>2 DEF Listing
    <2> QED
      BY <1>n, <2>1, <2>2, <2>3 DEF Listing
  <1>4. ASSUME m.op = "SEND" PROVE Requesting(m)'
    <2>1. Requesting(m)
      BY <1>0, <1>4 DEF Right
    <2>2. attempt'[m.from] = m.attempt =>
            attempt[m.from] = m.attempt /\ target'[m.from] = target[m.from]
      BY <1>n, <2>1 DEF Requesting
    <2> QED
      BY <1>n, <2>1, <2>2 DEF Requesting
  <1>5. ASSUME m.op = "ANSWER" PROVE Answering(m)'
    <2>1. Answering(m)
      BY <1>0, <1>5 DEF Right
    <2>2. attempt'[m.to] = m.attempt =>
            attempt[m.to] = m.attempt /\ target'[m.to] = target[m.to]
      BY <1>n, <2>1 DEF Answering
    <2>3. Offered(m.from, m.what, m.to, m.attempt)'
      BY <1>n, <2>1 DEF Answering, Offered
    <2> QED
      BY <1>n, <2>1, <2>2, <2>3 DEF Answering
  <1> QED
    BY <1>1, <1>2, <1>3, <1>4, <1>5 DEF Right

LEMMA DirectedLater ==
  ASSUME PeerInv, PeerTypes', Later, NEW p \in Peers,
         at'[p] \in {"connect", "sending"} =>
           at[p] \in {"connect", "sending"} /\ answer'[p] = answer[p],
         at'[p] = "connect" =>
           at[p] = "connect" /\ target'[p] = target[p] /\ attempt'[p] = attempt[p]
  PROVE  Directed(p)'
  <1> USE DEF PeerInv, Later
  <1>1. \A q \in Peers : port[q] \in Nat /\ port'[q] \in Nat
    BY DEF PeerTypes
  <1>2. Directed(p)
    BY DEF AnswerInv
  <1>3. ASSUME at'[p] = "connect"
        PROVE  Offered(To(p), answer[p][2], p, attempt[p])'
    <2>1. /\ To(p) \in Peers /\ To(p)' = To(p)
          /\ Offered(To(p), answer[p][2], p, attempt[p])
          /\ answer'[p] = answer[p] /\ attempt'[p] = attempt[p]
      BY <1>2, <1>3 DEF Directed, To
    <2> QED
      BY <1>1, <2>1 DEF Offered
  <1> QED
    BY <1>2, <1>3 DEF Directed, To

LEMMA ConnectedLater ==
  ASSUME PeerInv, PeerTypes', Later, NEW q \in Peers,
         conn'[q] = conn[q], rx'[q] = rx[q], serving'[q] = serving[q]
  PROVE  Connected(q)'
  <1>1. conn[q].from # None => conn[q].from \in Peers
    BY DEF PeerInv, PeerTypes, Accepted, Whoever
  <1>2. conn[q] = NoConn => ~conn[q].eof
    BY DEF NoConn
  <1> QED
    BY <1>1, <1>2 DEF PeerInv, ConnInv, Connected, Later

LEMMA WrittenLater ==
  ASSUME PeerInv, PeerTypes', Later, NEW q \in Peers,
         file'[q] = file[q],
         \/ rx'[q] \in {rx[q], "off"}
         \/ {rx[q], rx'[q]} \subseteq {"recv", "accept", "size"},
         conn'[q].from = conn[q].from \/ rx'[q] # "data",
         at'[q] = "start" => at[q] = "start" /\ rx'[q] = rx[q]
  PROVE  Written(q)'
  <1>1. file[q] # <<>> => file[q][1][1] \in Peers
    <2>1. file[q] \in Seq(Peers \X Nat)
      BY DEF PeerInv, PeerTypes
    <2>2. ASSUME file[q] # <<>>
          PROVE  file[q][1] \in Peers \X Nat
      BY <2>1, <2>2, EmptySeq, LenProperties, ElementOfSeq
    <2> QED
      BY <2>2
  <1> QED
    BY <1>1 DEF PeerInv, FileInv, Written, Later
-----------------------------------------------------------------------------
(***************************************************************************)
(* The directory.                                                          *)
(***************************************************************************)
LEMMA EntersName ==
  ASSUME PeerInv, NEW name \in Names, NEW ip \in Peers, my_name[ip] = name,
         Enters(name, ip), my_name' = my_name, listed' = listed
  PROVE  /\ clients' \in Seq([name : Names, ip : Peers])
         /\ Len(clients') >= Len(clients)
         /\ DirectoryInv'
  <1> USE DEF PeerInv
  <1> DEFINE entry == [name |-> name, ip |-> ip]
  <1>1. /\ Len(clients) \in Nat /\ clients \in Seq([name : Names, ip : Peers])
        /\ \A i \in 1..Len(clients) : clients[i] \in [name : Names, ip : Peers]
    BY LenProperties, ElementOfSeq DEF PeerTypes
  <1>2. \A p \in Peers : listed[p] \in Nat /\ MAX_CLIENTS \in Nat
    BY PeerAssumption DEF PeerTypes
  <1>3. CASE Entries(name) # {}
    <2> DEFINE new == [i \in 1..Len(clients) |->
                         IF i \in Entries(name) THEN [clients[i] EXCEPT !.ip = ip]
                         ELSE clients[i]]
    <2>1. clients' = new
      BY <1>3 DEF Enters
    <2>2. \A i \in 1..Len(clients) :
            /\ new[i] \in [name : Names, ip : Peers]
            /\ new[i].name = clients[i].name
            /\ new[i].ip = IF i \in Entries(name) THEN ip ELSE clients[i].ip
      BY <1>1 DEF Entries
    <2>3. new \in Seq([name : Names, ip : Peers]) /\ Len(new) = Len(clients)
      <3>1. new \in [1..Len(clients) -> [name : Names, ip : Peers]]
        BY <2>2
      <3> HIDE DEF new
      <3> QED
        BY <1>1, <3>1, SeqDef, LenProperties
    <2> HIDE DEF new
    <2>4. \A i, j \in 1..Len(new) : new[i].name = new[j].name => i = j
      BY <2>2, <2>3 DEF DirectoryInv
    <2>5. \A i \in 1..Len(new) : my_name[new[i].ip] = new[i].name
      BY <2>2, <2>3 DEF DirectoryInv, Entries
    <2>6. DirectoryInv'
      BY <2>1, <2>3, <2>4, <2>5 DEF DirectoryInv
    <2> QED
      BY <1>1, <2>1, <2>3, <2>6
  <1>4. CASE Entries(name) = {} /\ Len(clients) < MAX_CLIENTS
    <2>1. clients' = Append(clients, entry)
      BY <1>4 DEF Enters
    <2>2. /\ entry \in [name : Names, ip : Peers] /\ entry.name = name /\ entry.ip = ip
          /\ \A i \in 1..Len(clients) : clients[i].name # name
      BY <1>4 DEF Entries
    <2> HIDE DEF entry
    <2>3. /\ clients' \in Seq([name : Names, ip : Peers])
          /\ Len(clients') = Len(clients) + 1
          /\ clients'[Len(clients) + 1] = entry
          /\ \A i \in 1..Len(clients) : clients'[i] = clients[i]
      BY <1>1, <2>1, <2>2, AppendProperties
    <2>4. \A i \in 1..Len(clients') : i \in 1..Len(clients) \/ i = Len(clients) + 1
      BY <1>1, <2>3
    <2>5. \A i, j \in 1..Len(clients') : clients'[i].name = clients'[j].name => i = j
      BY <2>2, <2>3, <2>4 DEF DirectoryInv
    <2>6. \A i \in 1..Len(clients') : my_name'[clients'[i].ip] = clients'[i].name
      BY <2>2, <2>3, <2>4 DEF DirectoryInv
    <2>7. Len(clients') <= MAX_CLIENTS /\ \A p \in Peers : listed'[p] <= Len(clients')
      BY <1>1, <1>2, <1>4, <2>3 DEF DirectoryInv
    <2> QED
      BY <1>1, <2>3, <2>5, <2>6, <2>7 DEF DirectoryInv
  <1>5. CASE clients' = clients
    BY <1>1, <1>5 DEF DirectoryInv
  <1> QED
    BY <1>3, <1>4, <1>5 DEF Enters

LEMMA SameDirectory ==
  ASSUME PeerInv, UNCHANGED <<my_name, clients>>,
         \A p \in Peers : listed'[p] <= Len(clients)
  PROVE  DirectoryInv'
  BY DEF PeerInv, DirectoryInv

LEMMA RegistrationStep ==
  ASSUME PeerInv, NEW m \in net, handle_registration(m)
  PROVE  PeerInv'
  <1> USE DEF PeerInv, sender, receiver
  <1>1. /\ m.what \in Names /\ m.from \in Peers /\ my_name[m.from] = m.what
        /\ Enters(m.what, m.from) /\ net' = net \ {m}
        /\ UNCHANGED <<my_name, sender, receiver>>
    BY DEF handle_registration, NetInv, Right, Registering, PeerTypes
  <1>2. /\ clients' \in Seq([name : Names, ip : Peers])
        /\ Len(clients') >= Len(clients) /\ DirectoryInv'
    BY <1>1, EntersName
  <1>3. PeerTypes'
    BY <1>1, <1>2 DEF PeerTypes
  <1>4. Later
    BY <1>1, <1>2 DEF Later, Running
  <1>5. NetInv'
    BY <1>1, <1>3, <1>4, RightLater DEF NetInv
  <1>6. AnswerInv'
    BY <1>1, <1>3, <1>4, DirectedLater DEF AnswerInv
  <1>7. ConnInv' /\ FileInv'
    BY <1>1, <1>3, <1>4, ConnectedLater, WrittenLater DEF ConnInv, FileInv
  <1> QED
    BY <1>2, <1>3, <1>5, <1>6, <1>7

LEMMA ListRequestStep ==
  ASSUME PeerInv, NEW m \in net, handle_list_request(m)
  PROVE  PeerInv'
  <1> USE DEF PeerInv, sender, receiver
  <1> DEFINE reply == Datagram("LISTING", "server", m.from, m.attempt, Len(clients))
  <1>1. /\ m.from \in Peers /\ m.attempt \in Nat /\ m.attempt <= attempt[m.from]
        /\ net' = (net \ {m}) \cup {reply}
        /\ UNCHANGED <<my_name, sender, receiver, clients>>
    BY DEF handle_list_request, NetInv, Right, Asking
  <1>2. PeerTypes'
    BY <1>1 DEF PeerTypes
  <1>3. Len(clients) \in Nat
    BY LenProperties DEF PeerTypes
  <1>4. Later
    BY <1>1, <1>3 DEF Later, Running
  <1>5. Right(reply)'
    BY <1>1, <1>3 DEF Right, Listing, Datagram, DirectoryInv
  <1>6. NetInv'
    BY <1>1, <1>2, <1>4, <1>5, RightLater DEF NetInv
  <1>7. DirectoryInv'
    BY <1>1, SameDirectory DEF DirectoryInv
  <1>8. AnswerInv'
    BY <1>1, <1>2, <1>4, DirectedLater DEF AnswerInv
  <1>9. ConnInv' /\ FileInv'
    BY <1>1, <1>2, <1>4, ConnectedLater, WrittenLater DEF ConnInv, FileInv
  <1> QED
    BY <1>2, <1>6, <1>7, <1>8, <1>9
-----------------------------------------------------------------------------
(***************************************************************************)
(* The sender: commands, answers and timeouts.                             *)
(***************************************************************************)
LEMMA StartsStep ==
  ASSUME PeerInv, NEW p \in Peers, Starts(p)
  PROVE  PeerInv'
  <1> USE DEF PeerInv
  <1> DEFINE register == Datagram("REG", p, "server", 0, my_name[p])
  <1>1. /\ at[p] = "start" /\ at' = [at EXCEPT ![p] = "prompt"]
        /\ rx' = [rx EXCEPT ![p] = "recv"] /\ net' = net \cup {register}
        /\ UNCHANGED <<my_name, attempt, target, answer, link, listed, serving, port,
                       conn, file, clients>>
    BY DEF Starts, Go
  <1>2. PeerTypes'
    BY <1>1 DEF PeerTypes, PeerSteps
  <1>3. Len(clients) \in Nat
    BY LenProperties DEF PeerTypes
  <1>4. Later
    BY <1>1, <1>3 DEF Later, Running, PeerTypes
  <1>5. Right(register)'
    BY <1>1 DEF Right, Registering, Datagram
  <1>6. NetInv'
    BY <1>1, <1>2, <1>4, <1>5, RightLater DEF NetInv
  <1>7. DirectoryInv'
    BY <1>1, SameDirectory DEF DirectoryInv
  <1>8. AnswerInv'
    BY <1>1, <1>2, <1>4, DirectedLater DEF AnswerInv, PeerTypes
  <1>9. \A q \in Peers \ {p} : rx'[q] = rx[q] /\ at'[q] = at[q]
    BY <1>1 DEF PeerTypes
  <1>10. /\ rx[p] = "off" /\ file[p] = <<>> /\ rx'[p] = "recv" /\ at'[p] = "prompt"
         /\ file' = file /\ conn' = conn
    BY <1>1 DEF FileInv, Written, PeerTypes
  <1>11. Connected(p)'
    <2>1. conn[p] = NoConn /\ conn[p].from = None
      BY <1>10 DEF ConnInv, Connected
    <2>2. ~conn[p].eof
      BY <2>1 DEF NoConn
    <2> QED
      BY <1>10, <2>1, <2>2 DEF Connected
  <1>12. Written(p)'
    BY <1>10, EmptySeq DEF FileInv, Written
  <1>13. ConnInv' /\ FileInv'
    BY <1>1, <1>2, <1>4, <1>9, <1>11, <1>12, ConnectedLater, WrittenLater
    DEF ConnInv, FileInv
  <1> QED
    BY <1>2, <1>6, <1>7, <1>8, <1>13

\* A step of the sender that leaves its connection and all receivers alone.
LEMMA CommandStep ==
  ASSUME PeerInv, NEW p \in Peers, NEW step \in PeerSteps \ {"start", "connect", "sending"},
         at[p] \notin {"start", "gone"}, at' = [at EXCEPT ![p] = step],
         \/ attempt' = attempt /\ step # "list"
         \/ attempt' = [attempt EXCEPT ![p] = @ + 1],
         target' \in [Peers -> Names \cup {None}],
         answer' \in [Peers -> Whoever \X Nat],
         listed' \in [Peers -> Nat],
         \A q \in Peers \ {p} : /\ target'[q] = target[q] /\ answer'[q] = answer[q]
                                /\ listed'[q] = listed[q],
         attempt' = attempt => target' = target,
         listed'[p] <= Len(clients),
         UNCHANGED <<my_name, link, receiver, clients>>,
         \A m \in net' : m \in net \/ Right(m)'
  PROVE  PeerInv'
  <1> USE DEF PeerInv, receiver
  <1>0. /\ attempt' \in [Peers -> Nat] /\ at' \in [Peers -> PeerSteps]
        /\ \/ attempt' = attempt /\ step # "list"
           \/ attempt'[p] > attempt[p]
        /\ \A q \in Peers \ {p} : attempt'[q] = attempt[q]
    <2>1. attempt \in [Peers -> Nat] /\ at' \in [Peers -> PeerSteps]
      BY DEF PeerTypes
    <2>2. CASE attempt' = attempt /\ step # "list"
      BY <2>1, <2>2
    <2>3. CASE attempt' = [attempt EXCEPT ![p] = @ + 1]
      <3>1. attempt'[p] = attempt[p] + 1 /\ attempt[p] \in Nat
        BY <2>1, <2>3
      <3> QED
        BY <2>1, <2>3, <3>1
    <2> QED
      BY <2>2, <2>3
  <1>1. PeerTypes'
    BY <1>0 DEF PeerTypes
  <1>2. Len(clients) \in Nat
    BY LenProperties DEF PeerTypes
  <1>3. at'[p] = step /\ \A q \in Peers \ {p} : at'[q] = at[q]
    BY DEF PeerTypes
  <1>4. Later
    <2>1. ASSUME NEW q \in Peers
          PROVE  \/ attempt'[q] > attempt[q]
                 \/ /\ attempt'[q] = attempt[q] /\ target'[q] = target[q]
                    /\ at'[q] = "list" => at[q] = "list" /\ listed'[q] = listed[q]
      BY <1>0, <1>3
    <2> QED
      BY <1>2, <1>3, <2>1 DEF Later, Running
  <1>5. NetInv'
    BY <1>1, <1>4, RightLater DEF NetInv
  <1>6. DirectoryInv'
    <2>1. \A q \in Peers : listed'[q] <= Len(clients)
      BY DEF DirectoryInv
    <2> QED
      BY <2>1, SameDirectory
  <1>7. ASSUME NEW q \in Peers
        PROVE  Directed(q)'
    <2>1. CASE q = p
      BY <1>3, <2>1 DEF Directed
    <2>2. CASE q # p
      <3>1. attempt'[q] = attempt[q]
        BY <1>0, <2>2
      <3> QED
        BY <1>1, <1>3, <1>4, <2>2, <3>1, DirectedLater
    <2> QED
      BY <2>1, <2>2
  <1>8. ASSUME NEW q \in Peers
        PROVE  Connected(q)' /\ Written(q)'
    BY <1>1, <1>3, <1>4, ConnectedLater, WrittenLater
  <1> QED
    BY <1>1, <1>5, <1>6, <1>7, <1>8 DEF AnswerInv, ConnInv, FileInv

LEMMA TypesLISTStep ==
  ASSUME PeerInv, NEW p \in Peers, TypesLIST(p)
  PROVE  PeerInv'
  <1> USE DEF PeerInv
  <1>a. attempt' = [attempt EXCEPT ![p] = @ + 1]
    BY DEF TypesLIST, Commands
  <1>0. PICK n \in Nat : attempt'[p] = n
    BY <1>a DEF PeerTypes
  <1> DEFINE ask == Datagram("LIST", p, "server", n, "")
  <1>1. /\ at[p] = "prompt" /\ at' = [at EXCEPT ![p] = "list"]
        /\ attempt' = [attempt EXCEPT ![p] = @ + 1]
        /\ net' = net \cup {ask} /\ listed' = [listed EXCEPT ![p] = Len(clients)]
        /\ UNCHANGED <<my_name, target, answer, link, receiver, clients>>
    BY <1>0 DEF TypesLIST, Commands, Go
  <1>2. Right(ask)'
    <2>1. n <= n
      OBVIOUS
    <2>2. Asking(ask)'
      BY <1>0, <2>1 DEF Asking, Datagram
    <2> QED
      BY <2>2 DEF Right, Datagram
  <1>3. Len(clients) \in Nat /\ Len(clients) <= Len(clients)
    BY LenProperties DEF PeerTypes
  <1>4. /\ listed' \in [Peers -> Nat] /\ listed'[p] = Len(clients)
        /\ \A q \in Peers \ {p} : listed'[q] = listed[q]
    BY <1>1, <1>3 DEF PeerTypes
  <1>5. target' \in [Peers -> Names \cup {None}] /\ answer' \in [Peers -> Whoever \X Nat]
    BY <1>1 DEF PeerTypes
  <1> HIDE DEF ask
  <1> QED
    BY <1>1, <1>2, <1>3, <1>4, <1>5, CommandStep DEF PeerSteps

LEMMA TypesSENDStep ==
  ASSUME PeerInv, NEW p \in Peers, NEW name \in Names, TypesSEND(p, name)
  PROVE  PeerInv'
  <1> USE DEF PeerInv
  <1>a. attempt' = [attempt EXCEPT ![p] = @ + 1]
    BY DEF TypesSEND, Commands
  <1>0. PICK n \in Nat : attempt'[p] = n
    BY <1>a DEF PeerTypes
  <1> DEFINE Asked == {q \in Peers : rx[q] # "off" /\ my_name[q] = name}
             ask(q) == Datagram("SEND", p, q, n, name)
  <1>1. /\ at[p] = "prompt" /\ at' = [at EXCEPT ![p] = "wait"]
        /\ attempt' = [attempt EXCEPT ![p] = @ + 1]
        /\ target' = [target EXCEPT ![p] = name]
        /\ answer' = [answer EXCEPT ![p] = NoAnswer]
        /\ net' = net \cup {ask(q) : q \in Asked}
        /\ UNCHANGED <<my_name, link, listed, receiver, clients>>
    BY <1>0 DEF TypesSEND, Commands, Go
  <1>2. ASSUME NEW q \in Peers, my_name[q] = name
        PROVE  Right(ask(q))'
    <2>1. target'[p] = name /\ my_name'[q] = name
      BY <1>1, <1>2 DEF PeerTypes
    <2> QED
      BY <1>0, <2>1 DEF Right, Requesting, Datagram
  <1>3. /\ listed' \in [Peers -> Nat] /\ listed'[p] <= Len(clients)
        /\ \A q \in Peers \ {p} : listed'[q] = listed[q]
    BY <1>1 DEF PeerTypes, DirectoryInv
  <1>4. /\ target' \in [Peers -> Names \cup {None}]
        /\ answer' \in [Peers -> Whoever \X Nat]
        /\ \A q \in Peers \ {p} : target'[q] = target[q] /\ answer'[q] = answer[q]
    BY <1>1 DEF PeerTypes, NoAnswer, Whoever
  <1>5. attempt' # attempt
    BY <1>1 DEF PeerTypes
  <1>6. \A m \in net' : m \in net \/ Right(m)'
    BY <1>1, <1>2
  <1> HIDE DEF Asked, ask
  <1> QED
    BY <1>1, <1>3, <1>4, <1>5, <1>6, CommandStep DEF PeerSteps

LEMMA TakesListingStep ==
  ASSUME PeerInv, NEW p \in Peers, NEW m \in net, TakesListing(p, m)
  PROVE  PeerInv' /\ listed'[p] >= listed[p]
  <1> USE DEF PeerInv
  <1>1. /\ at[p] = "list" /\ at' = [at EXCEPT ![p] = "prompt"]
        /\ m.op = "LISTING" /\ m.to = p /\ m.attempt = attempt[p]
        /\ net' = net \ {m} /\ listed' = [listed EXCEPT ![p] = m.what]
        /\ UNCHANGED <<my_name, attempt, target, answer, link, receiver, clients>>
    BY DEF TakesListing, Go, Mine
  <1>2. m.what \in Nat /\ m.what <= Len(clients) /\ listed[p] <= m.what
    BY <1>1 DEF NetInv, Right, Listing
  <1>3. /\ listed' \in [Peers -> Nat] /\ listed'[p] = m.what
        /\ \A q \in Peers \ {p} : listed'[q] = listed[q]
    BY <1>1, <1>2 DEF PeerTypes
  <1>4. target' \in [Peers -> Names \cup {None}] /\ answer' \in [Peers -> Whoever \X Nat]
    BY <1>1 DEF PeerTypes
  <1>5. listed[p] \in Nat
    BY DEF PeerTypes
  <1>6. PeerInv'
    BY <1>1, <1>2, <1>3, <1>4, CommandStep DEF PeerSteps
  <1> QED
    BY <1>2, <1>3, <1>5, <1>6

LEMMA TimesOutStep ==
  ASSUME PeerInv, NEW p \in Peers, TimesOut(p)
  PROVE  PeerInv'
  <1>1. /\ at[p] \in {"list", "wait"} /\ at' = [at EXCEPT ![p] = "prompt"]
        /\ UNCHANGED <<my_name, attempt, target, answer, link, listed, receiver, net,
                       clients>>
    BY DEF TimesOut, SO_RCVTIMEO, Go
  <1>2. /\ listed' \in [Peers -> Nat] /\ listed'[p] <= Len(clients)
        /\ target' \in [Peers -> Names \cup {None}] /\ answer' \in [Peers -> Whoever \X Nat]
    BY <1>1 DEF PeerInv, PeerTypes, DirectoryInv
  <1> QED
    BY <1>1, <1>2, CommandStep DEF PeerSteps

\* The first answer directs the sender to the receiver that serves it, or to a
\* listener that receiver has closed.
LEMMA TakesAnswerStep ==
  ASSUME PeerInv, NEW p \in Peers, NEW m \in net, TakesAnswer(p, m)
  PROVE  PeerInv'
  <1> USE DEF PeerInv, receiver
  <1>1. /\ at[p] = "wait" /\ at' = [at EXCEPT ![p] = "connect"]
        /\ m.op = "ANSWER" /\ m.to = p /\ m.attempt = attempt[p]
        /\ net' = net \ {m} /\ answer' = [answer EXCEPT ![p] = <<m.from, m.what>>]
        /\ UNCHANGED <<my_name, attempt, target, link, listed, receiver, clients>>
    BY DEF TakesAnswer, Go, Mine, Address
  <1>2. Answering(m)
    BY <1>1 DEF NetInv, Right
  <1>3. PeerTypes'
    BY <1>1, <1>2 DEF PeerTypes, PeerSteps, Answering, Offered, Whoever
  <1>4. Len(clients) \in Nat
    BY LenProperties DEF PeerTypes
  <1>5. at'[p] = "connect" /\ \A q \in Peers \ {p} : at'[q] = at[q] /\ answer'[q] = answer[q]
    BY <1>1 DEF PeerTypes
  <1>6. Later
    BY <1>1, <1>4, <1>5 DEF Later, Running
  <1>7. NetInv'
    BY <1>1, <1>3, <1>6, RightLater DEF NetInv
  <1>8. DirectoryInv'
    BY <1>1, SameDirectory DEF DirectoryInv
  <1>9. Directed(p)'
    <2>1. answer'[p] = <<m.from, m.what>>
      BY <1>1 DEF PeerTypes
    <2> QED
      BY <1>1, <1>2, <2>1 DEF Directed, Answering, Offered, To
  <1>10. ASSUME NEW q \in Peers
         PROVE  Directed(q)' /\ Connected(q)' /\ Written(q)'
    BY <1>1, <1>3, <1>5, <1>6, <1>9, DirectedLater, ConnectedLater, WrittenLater
  <1> QED
    BY <1>3, <1>7, <1>8, <1>10 DEF AnswerInv, ConnInv, FileInv
-----------------------------------------------------------------------------
(***************************************************************************)
(* The connection.                                                         *)
(***************************************************************************)
\* A step that leaves the directory and the datagrams alone.
LEMMA TcpStep ==
  ASSUME PeerInv, PeerTypes', Later, UNCHANGED <<net, clients, listed>>,
         \A p \in Peers : Directed(p)' /\ Connected(p)' /\ Written(p)'
  PROVE  PeerInv'
  <1>1. NetInv'
    BY RightLater DEF NetInv, PeerInv
  <1>2. DirectoryInv'
    BY SameDirectory DEF PeerInv, DirectoryInv, Later
  <1> QED
    BY <1>1, <1>2 DEF PeerInv, AnswerInv, ConnInv, FileInv

\* A new connection.
LEMMA AcceptedNew ==
  ASSUME NEW c \in Accepted,
         NEW p \in Peers, NEW n \in Nat, NEW name \in Names \cup {None}
  PROVE  [c EXCEPT !.from = p, !.attempt = n, !.target = name] \in Accepted
  BY DEF Accepted, Whoever

LEMMA ConnectsStep ==
  ASSUME PeerInv, NEW p \in Peers, Connects(p)
  PROVE  PeerInv'
  <1> USE DEF PeerInv
  <1>1. /\ at[p] = "connect" /\ at' = [at EXCEPT ![p] = IF Listening(p) THEN "sending" ELSE "prompt"]
        /\ UNCHANGED <<my_name, attempt, target, answer, listed, rx, serving, port,
                       file, net, clients>>
    BY DEF Connects, Go
  <1>2. /\ To(p) \in Peers /\ target[p] = my_name[To(p)]
        /\ Offered(To(p), answer[p][2], p, attempt[p])
    BY <1>1 DEF AnswerInv, Directed
  <1>3. Len(clients) \in Nat
    BY LenProperties DEF PeerTypes
  <1>4. at'[p] \in {"sending", "prompt"} /\ \A q \in Peers \ {p} : at'[q] = at[q]
    BY <1>1 DEF PeerTypes
  <1>5. Later
    BY <1>1, <1>3, <1>4 DEF Later, Running
  <1>6. CASE Listening(p)
    <2> DEFINE new == [NoConn EXCEPT !.from = p, !.attempt = attempt[p], !.target = target[p]]
    <2>1. conn' = [conn EXCEPT ![To(p)] = new] /\ link' = [link EXCEPT ![p] = "open"]
      BY <1>1, <1>6 DEF Connects
    <2>2. /\ new \in Accepted /\ new.from = p /\ new.attempt = attempt[p]
          /\ new.target = target[p] /\ ~new.eof
      <3>1. PICK n \in Nat, name \in Names \cup {None} :
              n = attempt[p] /\ name = target[p]
        BY DEF PeerTypes
      <3>2. NoConn \in Accepted
        BY NobodyIsNone DEF NoConn, Accepted, Whoever
      <3> DEFINE x == [NoConn EXCEPT !.from = p, !.attempt = n, !.target = name]
      <3>3. x \in Accepted
        BY <3>2, AcceptedNew
      <3>4. x.from = p /\ x.attempt = n /\ x.target = name /\ ~x.eof
        BY DEF NoConn
      <3>5. new = x
        BY <3>1
      <3> HIDE DEF new, x
      <3> QED
        BY <3>1, <3>3, <3>4, <3>5
    <2> HIDE DEF new
    <2>3. PeerTypes'
      BY <1>1, <1>2, <2>1, <2>2 DEF PeerTypes, PeerSteps, Connection
    <2>4. conn'[To(p)] = new /\ \A q \in Peers \ {To(p)} : conn'[q] = conn[q]
      BY <1>2, <2>1 DEF PeerTypes
    <2>5. Connected(To(p))'
      <3> DEFINE q == To(p)
      <3>1. rx[q] = "accept" /\ serving[q] = <<p, attempt[p]>> /\ target[p] = my_name[q]
        BY <1>2, <1>6 DEF Listening, Offered
      <3>2. conn'[q] = new /\ rx'[q] = rx[q] /\ serving'[q] = serving[q]
            /\ my_name' = my_name /\ To(p)' = To(p)
        BY <1>1, <2>4 DEF To
      <3> QED
        BY <2>2, <3>1, <3>2, NobodyIsNone DEF Connected
    <2>6. ASSUME NEW q \in Peers
          PROVE  Directed(q)' /\ Connected(q)' /\ Written(q)'
      <3>1. Directed(q)'
        BY <1>1, <1>4, <1>5, <2>3, DirectedLater DEF PeerTypes
      <3>2. Connected(q)'
        <4>1. CASE q = To(p)
          <5>1. To(p)' = To(p)
            BY <1>1 DEF To
          <5> QED
            BY <2>5, <4>1, <5>1
        <4>2. CASE q # To(p)
          BY <1>1, <1>5, <2>3, <2>4, <4>2, ConnectedLater
        <4> QED
          BY <4>1, <4>2
      <3>3. Written(q)'
        <4>1. conn'[q].from = conn[q].from \/ rx'[q] # "data"
          BY <1>1, <1>6, <2>4 DEF Listening
        <4> QED
          BY <1>1, <1>4, <1>5, <2>3, <4>1, WrittenLater
      <3> QED
        BY <3>1, <3>2, <3>3
    <2> QED
      BY <1>1, <1>5, <2>3, <2>6, TcpStep
  <1>7. CASE ~Listening(p)
    <2>1. UNCHANGED <<conn, link>>
      BY <1>7 DEF Connects
    <2>2. PeerTypes'
      BY <1>1, <2>1 DEF PeerTypes, PeerSteps
    <2>3. at'[p] = "prompt"
      BY <1>1, <1>7 DEF PeerTypes
    <2>4. \A q \in Peers : Directed(q)' /\ Connected(q)' /\ Written(q)'
      BY <1>1, <1>4, <1>5, <2>1, <2>2, <2>3, DirectedLater, ConnectedLater, WrittenLater
    <2> QED
      BY <1>1, <1>5, <2>2, <2>4, TcpStep
  <1> QED
    BY <1>6, <1>7

\* A field of a connection changes.
LEMMA AcceptedField ==
  ASSUME NEW c \in Accepted
  PROVE  /\ c.from \in Whoever /\ c.attempt \in Nat /\ c.sent \in 0..(Size + 1)
         /\ \A n \in 0..(Size + 1) :
              /\ [c EXCEPT !.sent = n] \in Accepted
              /\ [c EXCEPT !.sent = n].sent = n
              /\ [c EXCEPT !.sent = n].from = c.from
              /\ [c EXCEPT !.sent = n].attempt = c.attempt
              /\ [c EXCEPT !.sent = n].target = c.target
              /\ [c EXCEPT !.sent = n].eof = c.eof
         /\ [c EXCEPT !.eof = TRUE] \in Accepted
         /\ [c EXCEPT !.eof = TRUE].from = c.from
         /\ [c EXCEPT !.eof = TRUE].attempt = c.attempt
         /\ [c EXCEPT !.eof = TRUE].target = c.target
         /\ [c EXCEPT !.eof = TRUE].sent = c.sent
         /\ [c EXCEPT !.eof = TRUE].eof
  BY DEF Accepted

\* One end of a connection changes it, and the threads stay where they are or the
\* sender goes back to its prompt.
LEMMA SenderStep ==
  ASSUME PeerInv, NEW p \in Peers, at[p] = "sending", at'[p] \in {"sending", "prompt"},
         \A q \in Peers \ {p} : at'[q] = at[q],
         UNCHANGED <<my_name, attempt, target, answer, listed, rx, serving, port, file,
                     net, clients>>,
         PeerTypes',
         \A q \in Peers :
           conn'[q] = conn[q] \/ (Connected(q)' /\ conn'[q].from = conn[q].from)
  PROVE  PeerInv'
  <1> USE DEF PeerInv
  <1>1. Len(clients) \in Nat
    BY LenProperties DEF PeerTypes
  <1>2. Later
    BY <1>1 DEF Later, Running
  <1>3. ASSUME NEW q \in Peers
        PROVE  Directed(q)' /\ Connected(q)' /\ Written(q)'
    <2>1. Directed(q)'
      BY <1>2, DirectedLater
    <2>2. Connected(q)'
      BY <1>2, ConnectedLater
    <2>3. Written(q)'
      BY <1>2, WrittenLater
    <2> QED
      BY <2>1, <2>2, <2>3
  <1> QED
    BY <1>2, <1>3, TcpStep

LEMMA SendsStep ==
  ASSUME PeerInv, NEW p \in Peers, Sends(p)
  PROVE  PeerInv'
  <1> USE DEF PeerInv
  <1>1. /\ at[p] = "sending"
        /\ UNCHANGED <<my_name, attempt, target, answer, listed, rx, serving, port,
                       file, net, clients>>
    BY DEF Sends
  <1>2. CASE Linked(p)
    <2>1. PICK q \in Peers : q = To(p)
      BY <1>1 DEF AnswerInv, Directed
    <2>2. /\ conn[q].from = p /\ conn[q].sent <= Size /\ UNCHANGED <<link, at>>
          /\ conn' = [conn EXCEPT ![q] = [conn[q] EXCEPT !.sent = @ + 1]]
      BY <1>2, <2>1 DEF Sends, Linked
    <2>3. conn[q] \in Accepted /\ conn[q].sent + 1 \in 0..(Size + 1)
      <3>1. conn[q] \in Accepted
        BY DEF PeerTypes
      <3>2. conn[q].sent \in 0..(Size + 1) /\ conn[q].sent <= Size
        BY <2>2, <3>1, AcceptedField
      <3> QED
        BY <3>1, <3>2, NobodyIsNone
    <2> DEFINE new == [conn[q] EXCEPT !.sent = @ + 1]
    <2>4. /\ new \in Accepted /\ new.from = p /\ new.attempt = conn[q].attempt
          /\ new.target = conn[q].target /\ new.eof = conn[q].eof
      BY <2>2, <2>3, AcceptedField
    <2> HIDE DEF new
    <2>5. conn' = [conn EXCEPT ![q] = new]
      BY <2>2 DEF new
    <2>6. PeerTypes'
      <3>1. conn' \in [Peers -> Accepted]
        BY <2>4, <2>5 DEF PeerTypes
      <3> QED
        BY <1>1, <2>2, <3>1 DEF PeerTypes
    <2>7. conn'[q] = new /\ \A r \in Peers \ {q} : conn'[r] = conn[r]
      BY <2>5 DEF PeerTypes
    <2>8. ~conn[q].eof
      <3>1. conn[q].sent # Size + 1
        BY <2>2, NobodyIsNone
      <3>2. Running(conn[q].from)
        BY <1>1, <2>2 DEF Running
      <3> QED
        BY <3>1, <3>2 DEF ConnInv, Connected
    <2>9. Connected(q)'
      BY <1>1, <2>2, <2>4, <2>7, <2>8, NobodyIsNone DEF ConnInv, Connected
    <2> QED
      BY <1>1, <2>2, <2>4, <2>6, <2>7, <2>9, SenderStep
  <1>3. CASE ~Linked(p)
    <2>1. UNCHANGED conn
      BY <1>3 DEF Sends
    <2>2. /\ link' \in [Peers -> Connection \cup {"closed"}]
          /\ at' = at \/ at' = [at EXCEPT ![p] = "prompt"]
      <3>1. CASE \E after \in AfterSend(link[p]) : link' = [link EXCEPT ![p] = after]
                 /\ UNCHANGED at
        <4>1. \A after \in AfterSend(link[p]) : after \in Connection
          BY DEF AfterSend, Connection
        <4> QED
          BY <3>1, <4>1 DEF PeerTypes
      <3>2. CASE Go(p, "prompt") /\ link' = [link EXCEPT ![p] = "closed"]
        BY <3>2 DEF Go, PeerTypes
      <3> QED
        BY <1>3, <3>1, <3>2 DEF Sends
    <2>3. PeerTypes'
      BY <1>1, <2>1, <2>2 DEF PeerTypes, PeerSteps
    <2>4. at'[p] \in {"sending", "prompt"} /\ \A q \in Peers \ {p} : at'[q] = at[q]
      BY <1>1, <2>2 DEF PeerTypes
    <2> QED
      BY <1>1, <2>1, <2>3, <2>4, SenderStep
  <1> QED
    BY <1>2, <1>3

LEMMA SendDoneStep ==
  ASSUME PeerInv, NEW p \in Peers, SendDone(p)
  PROVE  PeerInv'
  <1> USE DEF PeerInv
  <1>1. /\ at[p] = "sending" /\ at' = [at EXCEPT ![p] = "prompt"]
        /\ link' = [link EXCEPT ![p] = "closed"]
        /\ UNCHANGED <<my_name, attempt, target, answer, listed, rx, serving, port,
                       file, net, clients>>
    BY DEF SendDone, Go
  <1>2. PICK q \in Peers : q = To(p)
    BY <1>1 DEF AnswerInv, Directed
  <1> DEFINE new == [conn[q] EXCEPT !.eof = TRUE]
  <1>3. /\ conn[q].from = p /\ conn[q].sent = Size + 1
        /\ conn' = [conn EXCEPT ![q] = new]
    BY <1>2 DEF SendDone, Linked
  <1>4. /\ new \in Accepted /\ new.from = p /\ new.attempt = conn[q].attempt
        /\ new.target = conn[q].target /\ new.sent = Size + 1
    <2>1. conn[q] \in Accepted
      BY DEF PeerTypes
    <2> QED
      BY <1>3, <2>1, AcceptedField
  <1> HIDE DEF new
  <1>5. PeerTypes'
    BY <1>1, <1>3, <1>4 DEF PeerTypes, PeerSteps
  <1>6. /\ conn'[q] = new /\ \A r \in Peers \ {q} : conn'[r] = conn[r]
        /\ at'[p] = "prompt" /\ \A r \in Peers \ {p} : at'[r] = at[r]
    BY <1>1, <1>3 DEF PeerTypes
  <1>7. Connected(q)'
    BY <1>1, <1>3, <1>4, <1>6, NobodyIsNone DEF ConnInv, Connected
  <1> QED
    BY <1>1, <1>3, <1>4, <1>5, <1>6, <1>7, SenderStep

LEMMA QuitsStep ==
  ASSUME PeerInv, NEW p \in Peers, Quits(p)
  PROVE  PeerInv'
  <1> USE DEF PeerInv
  <1>1. /\ at' = [at EXCEPT ![p] = "gone"] /\ rx' = [rx EXCEPT ![p] = "off"]
        /\ UNCHANGED <<my_name, attempt, target, answer, listed, serving, port, file,
                       net, clients>>
    BY DEF Quits, Go
  <1>2. /\ \A q \in Peers : conn'[q] = IF q = p THEN NoConn
                                       ELSE IF conn[q].from = p
                                       THEN [conn[q] EXCEPT !.eof = TRUE] ELSE conn[q]
        /\ \A q \in Peers : conn'[q] \in Accepted
        /\ conn' \in [Peers -> Accepted]
    <2>1. NoConn \in Accepted
      BY NobodyIsNone DEF NoConn, Accepted, Whoever
    <2>2. \A q \in Peers : conn[q] \in Accepted /\ [conn[q] EXCEPT !.eof = TRUE] \in Accepted
      BY AcceptedField DEF PeerTypes
    <2> QED
      BY <2>1, <2>2, Zenon DEF Quits
  <1>3. link' \in [Peers -> Connection \cup {"closed"}]
    BY DEF Quits, PeerTypes, Connection
  <1>4. PeerTypes'
    BY <1>1, <1>2, <1>3 DEF PeerTypes, PeerSteps
  <1>5. /\ at'[p] = "gone" /\ \A q \in Peers \ {p} : at'[q] = at[q]
        /\ rx'[p] = "off" /\ \A q \in Peers \ {p} : rx'[q] = rx[q]
    BY <1>1 DEF PeerTypes
  <1>6. Len(clients) \in Nat
    BY LenProperties DEF PeerTypes
  <1>7. Later
    BY <1>1, <1>5, <1>6 DEF Later, Running
  <1>8. ASSUME NEW q \in Peers
        PROVE  Directed(q)' /\ Connected(q)' /\ Written(q)'
    <2>1. Directed(q)'
      BY <1>1, <1>4, <1>5, <1>7, DirectedLater
    <2>2. CASE q = p
      <3>1. conn'[q] = NoConn
        BY <1>2, <2>2
      <3>2. NoConn.from = None /\ ~NoConn.eof
        BY DEF NoConn
      <3>3. Connected(q)'
        BY <1>5, <2>2, <3>1, <3>2 DEF Connected
      <3>4. Written(q)'
        BY <1>1, <1>4, <1>5, <1>7, <2>2, WrittenLater
      <3> QED
        BY <2>1, <3>3, <3>4
    <2>3. CASE q # p /\ conn[q].from = p
      <3> DEFINE new == [conn[q] EXCEPT !.eof = TRUE]
      <3>1. conn'[q] = new
        BY <1>2, <2>3
      <3>2. new.from = p /\ new.attempt = conn[q].attempt /\ new.target = conn[q].target
        <4>1. conn[q] \in Accepted
          BY DEF PeerTypes
        <4> QED
          BY <2>3, <4>1, AcceptedField
      <3> HIDE DEF new
      <3>3. Connected(q)'
        BY <1>1, <1>5, <2>3, <3>1, <3>2, NobodyIsNone DEF ConnInv, Connected, Running
      <3>4. Written(q)'
        BY <1>1, <1>4, <1>5, <1>7, <2>3, <3>1, <3>2, WrittenLater
      <3> QED
        BY <2>1, <3>3, <3>4
    <2>4. CASE q # p /\ conn[q].from # p
      <3>1. conn'[q] = conn[q]
        BY <1>2, <2>4
      <3> QED
        BY <1>1, <1>4, <1>5, <1>7, <2>1, <2>4, <3>1, ConnectedLater, WrittenLater
    <2> QED
      BY <2>2, <2>3, <2>4
  <1> QED
    BY <1>1, <1>4, <1>7, <1>8, TcpStep
-----------------------------------------------------------------------------
(***************************************************************************)
(* The receiver.                                                           *)
(***************************************************************************)
LEMMA TakesSENDStep ==
  ASSUME PeerInv, NEW q \in Peers, NEW m \in net, TakesSEND(q, m)
  PROVE  PeerInv'
  <1> USE DEF PeerInv, sender
  <1>1. PICK n \in Nat : n = port[q] + 1
    BY DEF PeerTypes
  <1> DEFINE reply == Datagram("ANSWER", q, m.from, m.attempt, n)
  <1>2. /\ rx[q] = "recv" /\ rx' = [rx EXCEPT ![q] = "accept"]
        /\ m.op = "SEND" /\ m.to = q
        /\ serving' = [serving EXCEPT ![q] = <<m.from, m.attempt>>]
        /\ port' = [port EXCEPT ![q] = n]
        /\ UNCHANGED <<my_name, sender, conn, file, clients>>
    BY <1>1 DEF TakesSEND
  <1>3. port'[q] = n /\ serving'[q] = <<m.from, m.attempt>> /\ rx'[q] = "accept"
    BY <1>2 DEF PeerTypes
  <1>4. net' = (net \ {m}) \cup {reply}
    BY <1>3 DEF TakesSEND
  <1>5. Requesting(m)
    BY <1>2 DEF NetInv, Right
  <1>6. PeerTypes'
    <2>1. /\ serving' \in [Peers -> Whoever \X Nat] /\ port' \in [Peers -> Nat]
          /\ rx' \in [Peers -> {"off", "recv", "accept", "size", "data"}]
      BY <1>2, <1>5 DEF PeerTypes, Requesting, Whoever
    <2> QED
      BY <1>2, <2>1 DEF PeerTypes
  <1>7. Len(clients) \in Nat /\ port[q] \in Nat
    BY LenProperties DEF PeerTypes
  <1>8. \A p \in Peers \ {q} : /\ port'[p] = port[p] /\ serving'[p] = serving[p]
                               /\ rx'[p] = rx[p]
    BY <1>2 DEF PeerTypes
  <1>9. Later
    <2>1. port'[q] > port[q]
      BY <1>1, <1>3, <1>7
    <2> QED
      BY <1>2, <1>7, <1>8, <2>1 DEF Later, Running
  <1>10. Right(reply)'
    <2>1. n <= n
      OBVIOUS
    <2>2. Answering(reply)'
      BY <1>2, <1>3, <1>5, <2>1 DEF Answering, Requesting, Offered, Datagram
    <2> QED
      BY <2>2 DEF Right, Datagram
  <1> HIDE DEF reply
  <1>11. NetInv'
    BY <1>4, <1>6, <1>9, <1>10, RightLater DEF NetInv
  <1>12. DirectoryInv'
    BY <1>2, SameDirectory DEF DirectoryInv
  <1>13. AnswerInv'
    BY <1>2, <1>6, <1>9, DirectedLater DEF AnswerInv
  <1>14. Connected(q)'
    <2>1. conn[q] = NoConn
      BY <1>2 DEF ConnInv, Connected
    <2>2. conn'[q] = NoConn /\ NoConn.from = None /\ ~NoConn.eof
      BY <1>2, <2>1 DEF NoConn
    <2> QED
      BY <1>3, <2>2 DEF Connected
  <1>15. ASSUME NEW p \in Peers
         PROVE  Connected(p)' /\ Written(p)'
    <2>1. Connected(p)'
      BY <1>2, <1>6, <1>8, <1>9, <1>14, ConnectedLater
    <2>2. Written(p)'
      <3>1. at[q] # "start"
        BY <1>2 DEF FileInv, Written
      <3> QED
        BY <1>2, <1>3, <1>6, <1>8, <1>9, <3>1, WrittenLater
    <2> QED
      BY <2>1, <2>2
  <1> QED
    BY <1>6, <1>11, <1>12, <1>13, <1>15 DEF ConnInv, FileInv

\* A step of a receiver that leaves the sockets for commands alone.
LEMMA ReceiverStep ==
  ASSUME PeerInv, NEW q \in Peers, PeerTypes',
         UNCHANGED <<my_name, at, attempt, target, answer, listed, serving, port, net,
                     clients>>,
         \A p \in Peers \ {q} : conn'[p] = conn[p] /\ rx'[p] = rx[p] /\ file'[p] = file[p],
         Connected(q)', Written(q)'
  PROVE  PeerInv'
  <1> USE DEF PeerInv
  <1>1. Len(clients) \in Nat
    BY LenProperties DEF PeerTypes
  <1>2. Later
    BY <1>1 DEF Later, Running
  <1>3. ASSUME NEW p \in Peers
        PROVE  Directed(p)' /\ Connected(p)' /\ Written(p)'
    BY <1>2, DirectedLater, ConnectedLater, WrittenLater
  <1> QED
    BY <1>2, <1>3, TcpStep

LEMMA AcceptsStep ==
  ASSUME PeerInv, NEW q \in Peers, Accepts(q)
  PROVE  PeerInv'
  <1> USE DEF PeerInv, sender
  <1>1. /\ rx[q] = "accept" /\ conn[q] # NoConn /\ rx' = [rx EXCEPT ![q] = "size"]
        /\ UNCHANGED <<my_name, sender, serving, port, conn, file, net, clients>>
    BY DEF Accepts
  <1>2. rx'[q] = "size" /\ \A p \in Peers \ {q} : rx'[p] = rx[p]
    BY <1>1 DEF PeerTypes
  <1>3. PeerTypes'
    BY <1>1 DEF PeerTypes
  <1>4. Connected(q)'
    BY <1>1, <1>2 DEF ConnInv, Connected, Running
  <1>5. Written(q)'
    BY <1>1, <1>2 DEF FileInv, Written, Running
  <1> QED
    BY <1>1, <1>2, <1>3, <1>4, <1>5, ReceiverStep

LEMMA HangsUp ==
  ASSUME PeerInv, NEW q \in Peers, Hangs(q),
         UNCHANGED <<my_name, at, attempt, target, answer, listed, serving, port, file,
                     net, clients>>
  PROVE  /\ PeerTypes' /\ Connected(q)' /\ rx'[q] = "recv"
         /\ \A p \in Peers \ {q} : conn'[p] = conn[p] /\ rx'[p] = rx[p]
  <1> USE DEF PeerInv
  <1>1. NoConn \in Accepted /\ NoConn.from = None /\ ~NoConn.eof
    BY NobodyIsNone DEF NoConn, Accepted, Whoever
  <1>2. /\ conn' = [conn EXCEPT ![q] = NoConn] /\ rx' = [rx EXCEPT ![q] = "recv"]
    BY DEF Hangs
  <1>3. link' \in [Peers -> Connection \cup {"closed"}]
    BY DEF Hangs, PeerTypes, Connection
  <1>4. /\ conn'[q] = NoConn /\ rx'[q] = "recv"
        /\ \A p \in Peers \ {q} : conn'[p] = conn[p] /\ rx'[p] = rx[p]
    BY <1>2 DEF PeerTypes
  <1>5. conn' \in [Peers -> Accepted]
    BY <1>1, <1>2 DEF PeerTypes
  <1>6. PeerTypes'
    BY <1>2, <1>3, <1>5 DEF PeerTypes
  <1>7. Connected(q)'
    BY <1>1, <1>4 DEF Connected
  <1> QED
    BY <1>4, <1>6, <1>7

LEMMA ReadsSizeStep ==
  ASSUME PeerInv, NEW q \in Peers, ReadsSize(q)
  PROVE  PeerInv'
  <1> USE DEF PeerInv
  <1>1. /\ rx[q] = "size"
        /\ UNCHANGED <<my_name, at, attempt, target, answer, listed, serving, port,
                       net, clients>>
    BY DEF ReadsSize
  <1>2. CASE /\ file' = [file EXCEPT ![q] = <<>>] /\ rx' = [rx EXCEPT ![q] = "data"]
             /\ UNCHANGED <<conn, link>>
    <2>1. /\ file'[q] = <<>> /\ rx'[q] = "data"
          /\ \A p \in Peers \ {q} : file'[p] = file[p] /\ rx'[p] = rx[p]
      BY <1>2 DEF PeerTypes
    <2>2. <<>> \in Seq(Peers \X Nat) /\ Len(<<>>) = 0
      BY EmptySeq
    <2>3. file' \in [Peers -> Seq(Peers \X Nat)]
      BY <1>2, <2>2 DEF PeerTypes
    <2>4. PeerTypes'
      BY <1>1, <1>2, <2>3 DEF PeerTypes
    <2>5. Connected(q)'
      BY <1>1, <1>2, <2>1 DEF ConnInv, Connected, Running
    <2>6. Written(q)'
      BY <1>1, <2>1, <2>2, NobodyIsNone DEF FileInv, Written
    <2> QED
      BY <1>1, <1>2, <2>1, <2>4, <2>5, <2>6, ReceiverStep
  <1>3. CASE Hangs(q) /\ UNCHANGED file
    <2>1. /\ PeerTypes' /\ Connected(q)' /\ rx'[q] = "recv"
          /\ \A p \in Peers \ {q} : conn'[p] = conn[p] /\ rx'[p] = rx[p]
      BY <1>1, <1>3, HangsUp
    <2>2. Written(q)'
      BY <1>1, <1>3, <2>1 DEF FileInv, Written, Running
    <2> QED
      BY <1>1, <1>3, <2>1, <2>2, ReceiverStep
  <1> QED
    BY <1>2, <1>3 DEF ReadsSize

LEMMA ReadsPieceStep ==
  ASSUME PeerInv, NEW q \in Peers, ReadsPiece(q)
  PROVE  PeerInv'
  <1> USE DEF PeerInv, sender
  <1> DEFINE piece == <<conn[q].from, Len(file[q]) + 1>>
  <1>1. /\ rx[q] = "data" /\ Len(file[q]) < Size
        /\ file' = [file EXCEPT ![q] = Append(file[q], piece)]
        /\ UNCHANGED <<my_name, sender, rx, serving, port, conn, net, clients>>
    BY DEF ReadsPiece, Wants
  <1>2. conn[q].from \in Peers
    BY <1>1 DEF ConnInv, Connected, PeerTypes, Accepted, Whoever
  <1>3. file[q] \in Seq(Peers \X Nat) /\ Len(file[q]) \in Nat
    BY LenProperties DEF PeerTypes
  <1>4. piece \in Peers \X Nat /\ piece[1] = conn[q].from
    BY <1>2, <1>3
  <1> DEFINE n == Len(file[q])
  <1>5. /\ file'[q] = Append(file[q], piece) /\ file'[q] \in Seq(Peers \X Nat)
        /\ Len(file'[q]) = n + 1 /\ file'[q][n + 1] = piece
        /\ \A i \in 1..n : file'[q][i] = file[q][i]
    <2>1. file'[q] = Append(file[q], piece)
      BY <1>1 DEF PeerTypes
    <2> QED
      BY <1>3, <1>4, <2>1, AppendProperties
  <1>6. PeerTypes'
    <2>1. file' \in [Peers -> Seq(Peers \X Nat)]
      BY <1>1, <1>5 DEF PeerTypes
    <2> QED
      BY <1>1, <2>1 DEF PeerTypes
  <1>7. Connected(q)'
    BY <1>1 DEF ConnInv, Connected, Running
  <1>8. Written(q)'
    <2>1. file'[q][1][1] = conn[q].from
      <3>1. CASE n = 0
        BY <1>4, <1>5, <3>1
      <3>2. CASE n > 0
        <4>1. 1 \in 1..n /\ file[q] # <<>>
          BY <1>3, <3>2, EmptySeq
        <4> QED
          BY <1>1, <1>5, <4>1 DEF FileInv, Written
      <3> QED
        BY <1>3, <3>1, <3>2
    <2>2. ASSUME NEW i \in 1..Len(file'[q])
          PROVE  file'[q][i] = <<conn[q].from, i>>
      <3>1. CASE i = n + 1
        BY <1>5, <3>1
      <3>2. CASE i \in 1..n
        <4>1. file[q] # <<>>
          BY <1>3, <3>2, EmptySeq
        <4> QED
          BY <1>1, <1>5, <3>2, <4>1 DEF FileInv, Written
      <3> QED
        BY <1>3, <1>5, <3>1, <3>2
    <2>3. Len(file'[q]) <= Size
      BY <1>1, <1>3, <1>5, NobodyIsNone
    <2>4. at'[q] # "start" /\ rx'[q] = "data" /\ conn' = conn
      BY <1>1 DEF FileInv, Written
    <2> QED
      BY <2>1, <2>2, <2>3, <2>4 DEF Written
  <1>9. \A p \in Peers \ {q} : file'[p] = file[p]
    BY <1>1 DEF PeerTypes
  <1> QED
    BY <1>1, <1>6, <1>7, <1>8, <1>9, ReceiverStep

LEMMA SavesStep ==
  ASSUME PeerInv, NEW q \in Peers, Saves(q)
  PROVE  PeerInv'
  <1> USE DEF PeerInv
  <1>1. /\ rx[q] = "data" /\ Hangs(q)
        /\ UNCHANGED <<my_name, at, attempt, target, answer, listed, serving, port,
                       file, net, clients>>
    BY DEF Saves
  <1>2. /\ PeerTypes' /\ Connected(q)' /\ rx'[q] = "recv"
        /\ \A p \in Peers \ {q} : conn'[p] = conn[p] /\ rx'[p] = rx[p]
    BY <1>1, HangsUp
  <1>3. Len(file[q]) \in Nat /\ Size \in Nat
    BY LenProperties, NobodyIsNone DEF PeerTypes
  <1>4. file[q] # <<>> => Len(file[q]) = Size \/ ~Running(file[q][1][1])
    <2>1. CASE ~Wants(q)
      BY <1>3, <2>1 DEF Wants, FileInv, Written
    <2>2. CASE Wants(q) /\ conn[q].eof /\ conn[q].sent <= Len(file[q]) + 1
      <3>1. conn[q].sent # Size + 1
        BY <1>3, <2>2 DEF Wants
      <3> QED
        BY <1>1, <2>2, <3>1 DEF FileInv, Written, ConnInv, Connected
    <2> QED
      BY <2>1, <2>2 DEF Saves
  <1>5. Written(q)'
    BY <1>1, <1>2, <1>4 DEF FileInv, Written, Running
  <1> QED
    BY <1>1, <1>2, <1>5, ReceiverStep

LEMMA NoStep ==
  ASSUME PeerInv, UNCHANGED vars
  PROVE  PeerInv'
  <1> USE DEF vars, sender, receiver
  <1>1. PeerTypes' /\ DirectoryInv'
    BY DEF PeerInv, PeerTypes, DirectoryInv
  <1>2. NetInv' /\ AnswerInv'
    BY DEF PeerInv, NetInv, Right, Registering, Asking, Listing, Requesting, Answering,
           Offered, AnswerInv, Directed, To
  <1>3. ConnInv' /\ FileInv'
    BY DEF PeerInv, ConnInv, Connected, FileInv, Written, Running
  <1> QED
    BY <1>1, <1>2, <1>3 DEF PeerInv

LEMMA PeerNext == PeerInv /\ [Next]_vars => PeerInv'
  <1> SUFFICES ASSUME PeerInv, [Next]_vars PROVE PeerInv'
    OBVIOUS
  <1>1. ASSUME NEW p \in Peers, Main(p) PROVE PeerInv'
    BY <1>1, StartsStep, TimesOutStep, ConnectsStep, SendsStep, SendDoneStep DEF Main
  <1>2. ASSUME NEW p \in Peers, Receiver(p) PROVE PeerInv'
    BY <1>2, AcceptsStep, ReadsSizeStep, ReadsPieceStep, SavesStep DEF Receiver
  <1>3. ASSUME NEW p \in Peers, NEW m \in net,
               TakesListing(p, m) \/ TakesAnswer(p, m) \/ TakesSEND(p, m)
        PROVE  PeerInv'
    BY <1>3, TakesListingStep, TakesAnswerStep, TakesSENDStep
  <1>4. ASSUME NEW m \in net, handle_registration(m) \/ handle_list_request(m)
        PROVE  PeerInv'
    BY <1>4, RegistrationStep, ListRequestStep
  <1>5. ASSUME NEW p \in Peers,
               Quits(p) \/ TypesLIST(p) \/ \E name \in Names : TypesSEND(p, name)
        PROVE  PeerInv'
    BY <1>5, QuitsStep, TypesLISTStep, TypesSENDStep
  <1> QED
    BY <1>1, <1>2, <1>3, <1>4, <1>5, NoStep DEF Next
-----------------------------------------------------------------------------
LEMMA PeerInvTypeOK == PeerInv => TypeOK
  <1> SUFFICES ASSUME PeerInv PROVE TypeOK
    OBVIOUS
  <1>1. /\ at \in [Peers -> {"start", "prompt", "list", "wait", "connect", "sending", "gone"}]
        /\ rx \in [Peers -> {"off", "recv", "accept", "size", "data"}]
        /\ link \in [Peers -> Connection \cup {"closed"}]
    BY DEF PeerInv, PeerTypes, PeerSteps
  <1>2. \A p \in Peers : attempt[p] \in Nat /\ conn[p].sent \in 0..(Size + 1)
    BY DEF PeerInv, PeerTypes, Accepted
  <1>3. \A i \in 1..Len(clients) :
          Entries(clients[i].name) = {i} /\ my_name[clients[i].ip] = clients[i].name
    BY DEF PeerInv, DirectoryInv, Entries
  <1> QED
    BY <1>1, <1>2, <1>3 DEF TypeOK, PeerInv, DirectoryInv

LEMMA PeerInvRight == PeerInv => RightTransfer
  BY DEF PeerInv, ConnInv, Connected, RightTransfer

LEMMA PeerInvWhole == PeerInv => SavedWhole
  BY DEF PeerInv, FileInv, Written, SavedWhole

LEMMA ListedGrows ==
  PeerInv /\ [Next]_vars => [\A p \in Peers : listed'[p] >= listed[p]]_vars
  <1> SUFFICES ASSUME PeerInv, Next, NEW p \in Peers PROVE listed'[p] >= listed[p]
    OBVIOUS
  <1> USE DEF PeerInv
  <1>1. listed[p] \in Nat /\ Len(clients) \in Nat /\ listed[p] <= Len(clients)
    BY LenProperties DEF PeerTypes, DirectoryInv
  <1>2. CASE UNCHANGED listed
    BY <1>1, <1>2
  <1>3. ASSUME NEW q \in Peers, TypesLIST(q)
        PROVE  listed'[p] >= listed[p]
    <2>1. listed' = [listed EXCEPT ![q] = Len(clients)]
      BY <1>3 DEF TypesLIST
    <2> QED
      BY <1>1, <2>1 DEF PeerTypes
  <1>4. ASSUME NEW q \in Peers, NEW m \in net, TakesListing(q, m)
        PROVE  listed'[p] >= listed[p]
    <2>1. listed' = [listed EXCEPT ![q] = m.what] /\ listed'[q] >= listed[q]
      BY <1>4, TakesListingStep DEF TakesListing
    <2> QED
      BY <1>1, <2>1 DEF PeerTypes
  <1>5. ASSUME NEW q \in Peers,
               Main(q) \/ Receiver(q) \/ Quits(q) \/ \E name \in Names : TypesSEND(q, name)
        PROVE  UNCHANGED listed
    BY <1>5 DEF Main, Starts, TimesOut, Connects, Sends, SendDone, Receiver, Accepts,
                ReadsSize, ReadsPiece, Saves, Quits, TypesSEND, sender
  <1>6. ASSUME NEW q \in Peers, NEW m \in net,
               \/ TakesAnswer(q, m) \/ TakesSEND(q, m)
               \/ handle_registration(m) \/ handle_list_request(m)
        PROVE  UNCHANGED listed
    BY <1>6 DEF TakesAnswer, TakesSEND, handle_registration, handle_list_request, sender
  <1>7. ASSUME NEW m \in net, handle_registration(m) \/ handle_list_request(m)
        PROVE  UNCHANGED listed
    BY <1>7, <1>6
  <1> QED
    BY <1>2, <1>3, <1>4, <1>5, <1>6, <1>7 DEF Next
-----------------------------------------------------------------------------
\* The threads' steps are the steps there are, and the directory has each name
\* once, at the address of a peer of that name, whatever registrations are lost,
\* late or out of order (handle_registration looks the name up first).
THEOREM PeerTypeTheorem == FairSpec => []TypeOK
  BY InitPeer, PeerNext, PeerInvTypeOK, PTL DEF FairSpec

\* A receiver accepts the connection of the peer it answered, for the SEND it
\* answered, and the user of that peer typed this receiver's name, for any number
\* of late, lost and reordered answers: each SEND has a socket of its own, and a
\* receiver opens a new listener for every SEND it takes.
THEOREM RightTransferTheorem == FairSpec => []RightTransfer
  BY InitPeer, PeerNext, PeerInvRight, PTL DEF FairSpec

\* What a receiver has saved is one sender's file from its start, and all of it
\* unless that sender's process is gone (the loop of receive_file ends early only
\* when recv returns 0), for files of any size.
THEOREM SavedWholeTheorem == FairSpec => []SavedWhole
  BY InitPeer, PeerNext, PeerInvWhole, PTL DEF FairSpec

\* A listing shows every client the directory had when LIST was typed: one that
\* comes after its command timed out is never taken for a later one's.
THEOREM ListIsFreshTheorem == FairSpec => ListIsFresh
  BY InitPeer, PeerNext, ListedGrows, PTL DEF FairSpec, ListIsFresh
=============================================================================
