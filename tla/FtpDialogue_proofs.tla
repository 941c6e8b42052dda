------------------------- MODULE FtpDialogue_proofs --------------------------
(***************************************************************************)
(* FtpDialogue implements FtpServer: whatever the clients' users do, and   *)
(* however TCP cuts the control connections, the server's half of the      *)
(* dialogue is a behaviour of FtpServer.  What is proved of FtpServer with *)
(* clients that may do anything thus holds with these clients.             *)
(*                                                                         *)
(* And FtpDialogue implements FtpExchange, while a recv returns one        *)
(* message and local files can be created: client and server alternate.    *)
(***************************************************************************)
EXTENDS FtpDialogueExchange, FtpServer_proofs, SequenceTheorems

DInv == SessionInv /\ DTypeOK

LEMMA InitDialogue == DInit => DInv
  <1> SUFFICES ASSUME DInit PROVE DInv
    OBVIOUS
  <1>1. SessionInv
    BY InitSession DEF DInit
  <1>2. client \in [Sessions -> Doings] /\ serving \in [Sessions -> Ports \cup {NoPort, NoSocket}]
    BY DEF DInit, Doings
  <1>3. commands \in [Sessions -> Seq(Commands)]
    BY EmptySeq DEF DInit
  <1>4. data_port \in [Sessions -> Ports \cup {NoPort}]
    BY EmptySeq DEF DInit
  <1>5. ASSUME NEW s \in Sessions
        PROVE  replies[s] \in Seq(Messages(s)) /\ data_port[s] = NoPort
    BY EmptySeq DEF DInit
  <1> QED
    BY <1>1, <1>2, <1>3, <1>4, <1>5 DEF DInit, DInv, DTypeOK

LEMMA DropType ==
  ASSUME NEW S, NEW queue \in Seq(S), NEW k \in 1..Len(queue)
  PROVE  Drop(queue, k) \in Seq(S)
  <1>1. k + 1 \in 1..(Len(queue) + 1) /\ Len(queue) \in Nat
    BY LenProperties
  <1> QED
    BY <1>1, SubSeqProperties DEF Drop

LEMMA HeadType ==
  ASSUME NEW S, NEW queue \in Seq(S), queue # <<>>
  PROVE  Head(queue) \in S /\ 1 \in 1..Len(queue)
  BY HeadTailProperties, LenProperties

LEMMA TakenRange ==
  ASSUME NEW n \in Nat, n > 0, NEW k \in Taken(n)
  PROVE  k \in 1..n
  BY DEF Taken

\* Announcements are never taken back; a 227 announces the port it carries.
LEMMA AnnouncedGrows ==
  ASSUME SessionInv, NEW s \in Sessions, NEW r,
         Command(s, r) \/ Proceeds(s, r) \/ AcceptFails(s, r)
  PROVE  /\ \A t \in Sessions : announced[t] \subseteq announced'[t]
         /\ r = <<227>> => Announced(pasv_port[s]) \in announced'[s]
  <1>1. CASE handle_PASV(s, r)
    <2>1. CASE UNCHANGED passive /\ r # <<227>>
      BY <2>1 DEF passive
    <2>2. CASE UNCHANGED announced /\ r # <<227>>
      BY <2>2
    <2>3. CASE OpensListener(s)
      <3>1. announced' = [announced EXCEPT
                            ![s] = @ \cup {Announced(pasv_port[s])}]
        BY <2>3 DEF OpensListener
      <3> QED
        BY <3>1 DEF SessionInv, TypeOK
    <2> QED
      BY <1>1, <2>1, <2>2, <2>3 DEF handle_PASV
  <1>2. CASE UNCHANGED announced /\ r # <<227>>
    BY <1>2
  <1>3. ASSUME Command(s, r), ~handle_PASV(s, r)
        PROVE  UNCHANGED announced /\ r # <<227>>
    <2>1. CASE \E user \in Usernames : handle_USER(s, user, r)
      BY <2>1 DEF handle_USER, passive
    <2>2. CASE \E password \in Passwords : handle_PASS(s, password, r)
      BY <2>2 DEF handle_PASS, passive
    <2>3. CASE \E arg \in CwdArgs : handle_CWD(s, arg, r)
      BY <2>3 DEF handle_CWD, passive
    <2>4. CASE handle_PWD(s, r) \/ handle_CDUP(s, r) \/ handle_other(s, r)
      BY <2>4 DEF handle_PWD, handle_CDUP, handle_other, OtherReplies, passive
    <2>5. CASE handle_LIST(s, r) \/ handle_RETR(s, r) \/ handle_STOR(s, r)
      <3>1. CASE RefusesTransfer(s, r)
        BY <3>1 DEF RefusesTransfer, passive
      <3>2. CASE \E step : BeginsTransfer(s, step, r)
        BY <3>2 DEF BeginsTransfer, passive
      <3>3. CASE r = <<550>> /\ UNCHANGED passive
        BY <3>3 DEF passive
      <3> QED
        BY <2>5, <3>1, <3>2, <3>3 DEF handle_LIST, handle_RETR, handle_STOR
    <2>6. CASE handle_QUIT(s, r)
      BY <2>6 DEF handle_QUIT, passive
    <2> QED
      BY <1>3, <2>1, <2>2, <2>3, <2>4, <2>5, <2>6 DEF Command
  <1>4. ASSUME Proceeds(s, r) \/ AcceptFails(s, r)
        PROVE  UNCHANGED announced /\ r # <<227>>
    BY <1>4
    DEF Proceeds, ThreadStarts, AcceptLIST, AcceptRETR, AcceptSTOR, AcceptFails,
        ListFails, SendLIST, SendRETR, FinishRETR, FinishSTOR, Disconnect, passive
  <1> QED
    BY <1>1, <1>2, <1>3, <1>4

\* What was sent to a client stays among the messages it may have.
LEMMA MessagesGrow ==
  ASSUME \A t \in Sessions : announced[t] \subseteq announced'[t]
  PROVE  \A t \in Sessions :
           /\ Messages(t) \subseteq Messages(t)'
           /\ \A queue \in Seq(Messages(t)) : queue \in Seq(Messages(t)')
  <1>1. ASSUME NEW t \in Sessions
        PROVE  Messages(t) \subseteq Messages(t)'
    BY DEF Messages
  <1>2. ASSUME NEW t \in Sessions, NEW queue \in Seq(Messages(t))
        PROVE  queue \in Seq(Messages(t)')
    BY <1>1, SeqMonotonic
  <1> QED
    BY <1>1, <1>2

\* A step that leaves the announcements be, or adds to them, keeps every session
\* that it does not touch.
LEMMA WireKept ==
  ASSUME DTypeOK,
         \A t \in Sessions : announced[t] \subseteq announced'[t],
         UNCHANGED wire
  PROVE  DTypeOK'
  <1>1. ASSUME NEW t \in Sessions
        PROVE  /\ replies'[t] \in Seq(Messages(t)')
               /\ data_port'[t] # NoPort => data_port'[t] \in announced'[t]
    BY MessagesGrow DEF DTypeOK, wire
  <1> QED
    BY <1>1 DEF DTypeOK, wire

\* What the client receives leaves messages it may have.
LEMMA ReceiveType ==
  ASSUME DTypeOK, NEW s \in Sessions, ftp_recv_response(s)
  PROVE  /\ DOMAIN replies' = Sessions
         /\ \A t \in Sessions : replies'[t] \in Seq(Messages(t))
         /\ Response(s).code = 227 => Response(s).port \in announced[s]
  <1>1. replies[s] \in Seq(Messages(s)) /\ DOMAIN replies = Sessions
    BY DEF DTypeOK
  <1>2. CASE replies[s] = <<>>
    <2>1. replies' = replies /\ Response(s) = [code |-> -1, port |-> NoPort]
      BY <1>2 DEF ftp_recv_response, Response
    <2>2. Response(s).code # 227
      BY <2>1
    <2> QED
      BY <2>1, <2>2 DEF DTypeOK
  <1>3. CASE replies[s] # <<>>
    <2>1. PICK k \in Taken(Len(replies[s])) :
            replies' = [replies EXCEPT ![s] = Drop(@, k)]
      BY <1>3 DEF ftp_recv_response
    <2>2. Len(replies[s]) \in Nat /\ Len(replies[s]) > 0
      BY <1>1, <1>3, EmptySeq
    <2>3. k \in 1..Len(replies[s])
      BY <2>1, <2>2, TakenRange
    <2>4. Drop(replies[s], k) \in Seq(Messages(s))
      BY <1>1, <2>3, DropType
    <2>5. Response(s) \in Messages(s)
      BY <1>1, <1>3, HeadType DEF Response
    <2>6. Response(s).code = 227 => Response(s).port \in announced[s]
      BY <2>5 DEF Messages
    <2>7. \A t \in Sessions : replies'[t] \in Seq(Messages(t))
      BY <2>1, <2>4, <1>1 DEF DTypeOK
    <2> QED
      BY <1>1, <2>1, <2>6, <2>7
  <1> QED
    BY <1>2, <1>3

LEMMA SendCommandType ==
  ASSUME DTypeOK, NEW s \in Sessions, NEW name, NEW arg,
         [name |-> name, arg |-> arg] \in Commands,
         ftp_send_command(s, name, arg)
  PROVE  commands' \in [Sessions -> Seq(Commands)]
  <1>1. Append(commands[s], [name |-> name, arg |-> arg]) \in Seq(Commands)
    BY AppendProperties DEF DTypeOK
  <1> QED
    BY <1>1 DEF DTypeOK, ftp_send_command

LEMMA DoesType ==
  ASSUME DTypeOK, NEW s \in Sessions, NEW doing \in Doings,
         client' = [client EXCEPT ![s] = doing]
  PROVE  client' \in [Sessions -> Doings]
  BY DEF DTypeOK

LEMMA DoingsNamed ==
  /\ Prompt \in Doings /\ Off \in Doings
  /\ <<"pwd", "reply">> \in Doings /\ <<"cd", "reply">> \in Doings
  /\ <<"quit", "reply">> \in Doings
  /\ \A step \in {"greeting", "USER", "PASS"} : <<"login", step>> \in Doings
  /\ \A task \in Transfers, step \in {"pasv", "connect", "reply", "data", "end"} :
       <<task, step>> \in Doings
  BY DEF Doings

\* The parts of the wire's type, for a step that announces nothing.
LEMMA WireType ==
  ASSUME DTypeOK, announced' = announced, serving' = serving,
         client' \in [Sessions -> Doings],
         commands' \in [Sessions -> Seq(Commands)],
         data_port' \in [Sessions -> Ports \cup {NoPort}],
         DOMAIN replies' = Sessions,
         \A t \in Sessions :
           /\ replies'[t] \in Seq(Messages(t))
           /\ data_port'[t] # NoPort => data_port'[t] \in announced[t]
  PROVE  DTypeOK'
  <1>1. \A t \in Sessions : Messages(t)' = Messages(t)
    BY DEF Messages
  <1> QED
    BY <1>1 DEF DTypeOK

LEMMA RepliesKept ==
  ASSUME DTypeOK, replies' = replies
  PROVE  /\ DOMAIN replies' = Sessions
         /\ \A t \in Sessions : replies'[t] \in Seq(Messages(t))
  BY DEF DTypeOK

LEMMA PortsKept ==
  ASSUME DTypeOK, NEW s \in Sessions,
         data_port' = data_port \/ data_port' = [data_port EXCEPT ![s] = NoPort]
  PROVE  /\ data_port' \in [Sessions -> Ports \cup {NoPort}]
         /\ \A t \in Sessions :
              data_port'[t] # NoPort => data_port'[t] \in announced[t]
  BY DEF DTypeOK

LEMMA CommandNames ==
  /\ \A user \in Usernames : [name |-> "USER", arg |-> user] \in Commands
  /\ \A password \in Passwords : [name |-> "PASS", arg |-> password] \in Commands
  /\ \A arg \in CwdArgs : [name |-> "CWD", arg |-> arg] \in Commands
  /\ \A name \in {"PWD", "PASV", "LIST", "RETR", "STOR", "QUIT"} :
       [name |-> name, arg |-> ""] \in Commands
  BY DEF Commands

\* The client hangs up: a step of FtpServer's client, or nothing to the server.
LEMMA LeavesStep ==
  ASSUME DInv, NEW s \in Sessions, ftp_disconnect(s),
         UNCHANGED <<commands, serving>>
  PROVE  [Next]_vars /\ DTypeOK'
  <1>1. [Next]_vars
    BY DEF ftp_disconnect, Next, Client
  <1>2. announced' = announced
    BY DEF ftp_disconnect, ClientCloses, vars, passive
  <1>3. client' \in [Sessions -> Doings]
    BY DoesType, DoingsNamed DEF DInv, ftp_disconnect
  <1>4. /\ DOMAIN replies' = Sessions
        /\ \A t \in Sessions : replies'[t] \in Seq(Messages(t))
    BY EmptySeq DEF DInv, DTypeOK, ftp_disconnect
  <1> QED
    BY <1>1, <1>2, <1>3, <1>4, PortsKept, WireType DEF DInv, DTypeOK, ftp_disconnect

LEMMA LoginStep ==
  ASSUME DInv, NEW s \in Sessions,
         ftp_login_USER(s) \/ ftp_login_PASS(s) \/ ftp_login_done(s)
  PROVE  UNCHANGED vars /\ DTypeOK'
  <1> USE DEF DInv
  <1>1. /\ UNCHANGED vars /\ announced' = announced /\ ftp_recv_response(s)
        /\ UNCHANGED <<data_port, serving>>
    BY DEF ftp_login_USER, ftp_login_PASS, ftp_login_done, vars, passive
  <1>2. client' \in [Sessions -> Doings]
    <2>1. CASE ftp_login_USER(s)
      <3>1. client' = [client EXCEPT ![s] = <<"login", "USER">>]
        BY <2>1 DEF ftp_login_USER, Does
      <3> QED
        BY <3>1, DoesType, DoingsNamed
    <2>2. CASE ftp_login_PASS(s)
      <3>1. client' = [client EXCEPT ![s] = <<"login", "PASS">>]
        BY <2>2 DEF ftp_login_PASS, Does
      <3> QED
        BY <3>1, DoesType, DoingsNamed
    <2>3. CASE ftp_login_done(s)
      BY <2>3, DoesType, DoingsNamed DEF ftp_login_done
    <2> QED
      BY <2>1, <2>2, <2>3
  <1>3. commands' \in [Sessions -> Seq(Commands)]
    <2>1. CASE ftp_login_USER(s)
      BY <2>1, SendCommandType, CommandNames DEF ftp_login_USER
    <2>2. CASE ftp_login_PASS(s)
      BY <2>2, SendCommandType, CommandNames DEF ftp_login_PASS
    <2>3. CASE ftp_login_done(s)
      BY <2>3 DEF ftp_login_done, DTypeOK
    <2> QED
      BY <2>1, <2>2, <2>3
  <1> QED
    BY <1>1, <1>2, <1>3, ReceiveType, PortsKept, WireType

LEMMA PromptStep ==
  ASSUME DInv, NEW s \in Sessions, UserTypes(s)
  PROVE  UNCHANGED vars /\ DTypeOK'
  <1> USE DEF DInv
  <1>1. /\ UNCHANGED vars /\ announced' = announced
        /\ UNCHANGED <<replies, data_port, serving>>
    BY DEF UserTypes, vars, passive
  <1>2. client' \in [Sessions -> Doings]
    BY DoesType, DoingsNamed DEF UserTypes, Does
  <1>3. commands' \in [Sessions -> Seq(Commands)]
    BY SendCommandType, CommandNames DEF UserTypes
  <1> QED
    BY <1>1, <1>2, <1>3, RepliesKept, PortsKept, WireType

LEMMA ReplyStep ==
  ASSUME DInv, NEW s \in Sessions, TakesLastReply(s)
  PROVE  UNCHANGED vars /\ DTypeOK'
  <1> USE DEF DInv
  <1>1. /\ UNCHANGED vars /\ announced' = announced /\ ftp_recv_response(s)
        /\ UNCHANGED <<commands, data_port, serving>>
    BY DEF TakesLastReply, vars, passive
  <1>2. client' \in [Sessions -> Doings]
    BY DoesType, DoingsNamed DEF TakesLastReply
  <1> QED
    BY <1>1, <1>2, ReceiveType, PortsKept, WireType DEF DTypeOK

\* Only a port of a 227, announced to this client, becomes its data port.
LEMMA PasvReplyStep ==
  ASSUME DInv, NEW s \in Sessions, NEW task \in Transfers, ftp_pasv(s, task)
  PROVE  UNCHANGED vars /\ DTypeOK'
  <1> USE DEF DInv
  <1>1. /\ UNCHANGED vars /\ announced' = announced /\ ftp_recv_response(s)
        /\ UNCHANGED <<commands, serving>>
    BY DEF ftp_pasv, vars, passive
  <1>2. client' \in [Sessions -> Doings]
    <2>1. <<task, "connect">> \in Doings /\ Prompt \in Doings
      BY DoingsNamed
    <2>2. \E doing \in Doings : client' = [client EXCEPT ![s] = doing]
      BY <2>1 DEF ftp_pasv, Does
    <2> QED
      BY <2>2, DoesType
  <1>3. CASE Response(s).code = 227
    <2>1. data_port' = [data_port EXCEPT ![s] = Response(s).port]
      BY <1>3 DEF ftp_pasv
    <2>2. Response(s).port \in announced[s] /\ announced[s] \subseteq Ports
      BY <1>1, <1>3, ReceiveType DEF SessionInv, TypeOK
    <2>3. /\ data_port' \in [Sessions -> Ports \cup {NoPort}]
          /\ \A t \in Sessions :
               data_port'[t] # NoPort => data_port'[t] \in announced[t]
      BY <2>1, <2>2 DEF DTypeOK
    <2> QED
      BY <1>1, <1>2, <2>3, ReceiveType, WireType DEF DTypeOK
  <1>4. CASE Response(s).code # 227
    <2>1. UNCHANGED data_port
      BY <1>4 DEF ftp_pasv
    <2> QED
      BY <1>1, <1>2, <2>1, ReceiveType, PortsKept, WireType DEF DTypeOK
  <1> QED
    BY <1>3, <1>4

\* The client connects to a port announced to it, so FtpServer allows it.
LEMMA ConnectStep ==
  ASSUME DInv, NEW s \in Sessions, NEW task \in Transfers, ConnectsData(s, task)
  PROVE  Next /\ DTypeOK'
  <1> USE DEF DInv
  <1>1. PICK t \in Sessions :
          /\ pasv_listen_socket[t] = data_port[s]
          /\ Len(backlog[t]) < Backlog
          /\ backlog' = [backlog EXCEPT ![t] = Append(@, s)]
    BY DEF ConnectsData
  <1>2. data_port[s] # NoPort
    <2>1. pasv_listen_socket[t] \in Ports \cup {NoSocket}
      BY DEF SessionInv, TypeOK
    <2>2. NoPort \notin Ports \cup {NoSocket}
      BY PortAssumption DEF NoPort, NoSocket, Ports
    <2> QED
      BY <1>1, <2>1, <2>2
  <1>3. pasv_listen_socket[t] \in announced[s]
    BY <1>1, <1>2 DEF DTypeOK
  <1>4. ClientConnects(s)
    BY <1>1, <1>3 DEF ConnectsData, ClientConnects
  <1>5. Next
    BY <1>4 DEF Next, Client
  <1>6. /\ announced' = announced /\ UNCHANGED <<replies, data_port, serving>>
    BY DEF ConnectsData
  <1>7. client' \in [Sessions -> Doings]
    BY DoesType, DoingsNamed DEF ConnectsData, Does
  <1>8. commands' \in [Sessions -> Seq(Commands)]
    <2>1. Verb(task) \in {"LIST", "RETR", "STOR"}
      BY DEF Verb
    <2>2. [name |-> Verb(task), arg |-> ""] \in Commands
      BY <2>1, CommandNames
    <2> QED
      BY <2>2, SendCommandType DEF ConnectsData
  <1> QED
    BY <1>5, <1>6, <1>7, <1>8, RepliesKept, PortsKept, WireType

LEMMA DataStep ==
  ASSUME DInv, NEW s \in Sessions, NEW task \in Transfers,
         ConnectFails(s, task) \/ BeginsData(s, task) \/ FinishesData(s, task)
  PROVE  UNCHANGED vars /\ DTypeOK'
  <1> USE DEF DInv
  <1>1. /\ UNCHANGED vars /\ announced' = announced
        /\ UNCHANGED <<commands, serving>>
        /\ replies' = replies \/ ftp_recv_response(s)
        /\ data_port' = data_port \/ data_port' = [data_port EXCEPT ![s] = NoPort]
    BY DEF ConnectFails, BeginsData, FinishesData, vars, passive
  <1>2. client' \in [Sessions -> Doings]
    <2>1. CASE ConnectFails(s, task)
      BY ZenonT(30), <2>1, DoesType, DoingsNamed DEF ConnectFails, Does
    <2>2. CASE BeginsData(s, task)
      <3>1. \/ client' = [client EXCEPT ![s] = <<task, "data">>]
            \/ client' = [client EXCEPT ![s] = Prompt]
        BY <2>2 DEF BeginsData, Does
      <3> QED
        BY <3>1, DoesType, DoingsNamed
    <2>3. CASE FinishesData(s, task)
      BY ZenonT(30), <2>3, DoesType, DoingsNamed DEF FinishesData, Does
    <2> QED
      BY <2>1, <2>2, <2>3
  <1> QED
    BY <1>1, <1>2, ReceiveType, RepliesKept, PortsKept, WireType DEF DTypeOK

\* The server answers: the reply joins the messages of its client.
LEMMA AnswersType ==
  ASSUME DInv, NEW s \in Sessions, NEW r \in Replies,
         Command(s, r) \/ Proceeds(s, r) \/ AcceptFails(s, r),
         Answers(s, r)
  PROVE  /\ DOMAIN replies' = Sessions
         /\ \A t \in Sessions : replies'[t] \in Seq(Messages(t)')
  <1> USE DEF DInv
  <1>1. /\ \A t \in Sessions : announced[t] \subseteq announced'[t]
        /\ r = <<227>> => Announced(pasv_port[s]) \in announced'[s]
    BY AnnouncedGrows
  <1>2. \A t \in Sessions : replies[t] \in Seq(Messages(t)')
    BY <1>1, MessagesGrow DEF DTypeOK
  <1>3. CASE r = <<>> \/ client[s] = Off
    BY <1>2, <1>3 DEF Answers, DTypeOK
  <1>4. CASE ~(r = <<>> \/ client[s] = Off)
    <2>1. replies' = [replies EXCEPT ![s] = Append(@, Reply(s, Head(r)))]
      BY <1>4 DEF Answers
    <2>2. PICK code \in Codes : r = <<code>>
      BY <1>4 DEF Replies
    <2>3. Head(r) = code
      BY <2>2
    <2>4. Reply(s, code) \in Messages(s)'
      <3>1. CASE code = 227
        <4>1. Announced(pasv_port[s]) \in announced'[s]
          BY <1>1, <2>2, <3>1
        <4>2. announced'[s] \subseteq Ports
          <5>1. [Next]_vars
            BY DEF Next
          <5> QED
            BY <5>1, SessionNext DEF SessionInv, TypeOK
        <4> QED
          BY <3>1, <4>1, <4>2 DEF Reply, Messages, Codes
      <3>2. CASE code # 227
        BY <2>2, <3>2 DEF Reply, Messages
      <3> QED
        BY <3>1, <3>2
    <2>5. Append(replies[s], Reply(s, code)) \in Seq(Messages(s)')
      BY <1>2, <2>4, AppendProperties
    <2> QED
      BY <1>2, <2>1, <2>3, <2>5 DEF DTypeOK
  <1> QED
    BY <1>3, <1>4

LEMMA ServerWireType ==
  ASSUME DInv, NEW s \in Sessions, NEW r \in Replies,
         Command(s, r) \/ Proceeds(s, r) \/ AcceptFails(s, r),
         Answers(s, r), UNCHANGED <<client, data_port>>,
         commands' \in [Sessions -> Seq(Commands)],
         serving' \in [Sessions -> Ports \cup {NoPort, NoSocket}]
  PROVE  [Next]_vars /\ DTypeOK'
  <1>1. [Next]_vars
    BY DEF Next
  <1>2. \A t \in Sessions : announced[t] \subseteq announced'[t]
    BY AnnouncedGrows DEF DInv
  <1>3. \A t \in Sessions :
          data_port'[t] # NoPort => data_port'[t] \in announced'[t]
    BY <1>2 DEF DInv, DTypeOK
  <1> QED
    BY <1>1, <1>3, AnswersType DEF DInv, DTypeOK

\* A command the client sent is one FtpServer's clients may send.
LEMMA ReadsStep ==
  ASSUME DInv, NEW s \in Sessions, NEW r \in Replies, ServerReads(s, r)
  PROVE  [Next]_vars /\ DTypeOK'
  <1>1. commands[s] \in Seq(Commands) /\ commands[s] # <<>>
    BY DEF DInv, DTypeOK, ServerReads
  <1>2. Head(commands[s]) \in Commands
    BY <1>1, HeadType
  <1>3. Command(s, r)
    <2> DEFINE cmd == Head(commands[s])
    <2>1. /\ cmd.name = "USER" => cmd.arg \in Usernames
          /\ cmd.name = "PASS" => cmd.arg \in Passwords
          /\ cmd.name = "CWD" => cmd.arg \in CwdArgs
      BY <1>2 DEF Commands
    <2>2. Handles(s, cmd, r)
      BY DEF ServerReads
    <2> QED
      BY <2>1, <2>2 DEF Handles, Command
  <1>4. commands' \in [Sessions -> Seq(Commands)]
    <2>1. PICK k \in Taken(Len(commands[s])) :
            commands' = [commands EXCEPT ![s] = Drop(@, k)]
      BY DEF ServerReads
    <2>2. Len(commands[s]) \in Nat /\ Len(commands[s]) > 0
      BY <1>1, EmptySeq
    <2>3. Drop(commands[s], k) \in Seq(Commands)
      BY <1>1, <2>1, <2>2, TakenRange, DropType
    <2> QED
      BY <2>1, <2>3 DEF DInv, DTypeOK
  <1> QED
    BY <1>3, <1>4, ServerWireType DEF ServerReads, DInv, DTypeOK

LEMMA ProceedsStep ==
  ASSUME DInv, NEW s \in Sessions, NEW r \in Replies,
         ServerProceeds(s, r) \/ ServerAcceptFails(s, r)
  PROVE  [Next]_vars /\ DTypeOK'
  <1>1. serving' \in [Sessions -> Ports \cup {NoPort, NoSocket}]
    <2>1. serving' = serving
            \/ serving' = [serving EXCEPT ![s] = pasv_listen_socket[s]]
      BY DEF ServerProceeds, ServerAcceptFails
    <2>2. pasv_listen_socket[s] \in Ports \cup {NoSocket}
      BY DEF DInv, SessionInv, TypeOK
    <2> QED
      BY <2>1, <2>2 DEF DInv, DTypeOK
  <1>2. Proceeds(s, r) \/ AcceptFails(s, r)
    BY DEF ServerProceeds, ServerAcceptFails
  <1> QED
    BY <1>1, <1>2, ServerWireType
    DEF ServerProceeds, ServerAcceptFails, DInv, DTypeOK

LEMMA ArrivalStep ==
  ASSUME DInv,
         \/ \E s \in Sessions : DataEndArrives(s)
         \/ ServerDies
  PROVE  [Next]_vars /\ DTypeOK'
  <1>1. [Next]_vars /\ UNCHANGED wire
    BY DEF DataEndArrives, ServerDies, Next, Client
  <1>2. announced' = announced
    BY DEF DataEndArrives, ClientEndsData, ServerDies, Sigint, SigPipe, OverrunsPath,
           OverrunsListing, Killed, passive
  <1> QED
    BY <1>1, <1>2, WireKept DEF DInv

LEMMA AcceptedClientStep ==
  ASSUME DInv, NEW s \in Sessions, ftp_connect(s)
  PROVE  [Next]_vars /\ DTypeOK'
  <1>1. [Next]_vars /\ announced' = announced
    BY DEF ftp_connect, MainAccepts, Next, passive
  <1>2. client' \in [Sessions -> Doings]
    BY DoesType, DoingsNamed DEF DInv, ftp_connect, Does
  <1> QED
    BY <1>1, <1>2, RepliesKept, PortsKept, WireType
    DEF DInv, DTypeOK, ftp_connect

\* Every step of the dialogue is a step of FtpServer or leaves it alone.
LEMMA DialogueStep ==
  ASSUME DInv, [DNext]_dvars
  PROVE  [Next]_vars /\ DInv'
  <1>1. ASSUME UNCHANGED dvars
        PROVE  [Next]_vars /\ DTypeOK'
    BY <1>1, WireKept DEF dvars, DInv, vars, passive
  <1>2. ASSUME NEW s \in Sessions, ClientProcess(s)
        PROVE  [Next]_vars /\ DTypeOK'
    <2>1. CASE ftp_login_fails(s) \/ ftp_quit(s)
      BY <2>1, LeavesStep DEF ftp_login_fails, ftp_quit
    <2> QED
      BY <1>2, <2>1, LoginStep, ReplyStep, PasvReplyStep, ConnectStep, DataStep
      DEF ClientProcess
  <1>3. ASSUME NEW s \in Sessions, UserLeaves(s) \/ ClientKilled(s)
        PROVE  [Next]_vars /\ DTypeOK'
    BY <1>3, LeavesStep DEF UserLeaves, ClientKilled
  <1>4. ASSUME NEW s \in Sessions, ServerThread(s)
        PROVE  [Next]_vars /\ DTypeOK'
    BY <1>4, ReadsStep, ProceedsStep DEF ServerThread
  <1>5. [Next]_vars /\ DTypeOK'
    <2>1. ASSUME NEW s \in Sessions, UserTypes(s)
          PROVE  [Next]_vars /\ DTypeOK'
      BY <2>1, PromptStep
    <2>2. ASSUME NEW s \in Sessions, NEW r \in Replies, ServerAcceptFails(s, r)
          PROVE  [Next]_vars /\ DTypeOK'
      BY <2>2, ProceedsStep
    <2>3. ASSUME NEW s \in Sessions, ftp_connect(s)
          PROVE  [Next]_vars /\ DTypeOK'
      BY <2>3, AcceptedClientStep
    <2>4. ASSUME \/ \E s \in Sessions : DataEndArrives(s)
                 \/ ServerDies
          PROVE  [Next]_vars /\ DTypeOK'
      BY <2>4, ArrivalStep
    <2> QED
      BY <1>1, <1>2, <1>3, <1>4, <2>1, <2>2, <2>3, <2>4 DEF DNext
  <1>6. SessionInv'
    BY <1>5, SessionNext DEF DInv
  <1> QED
    BY <1>5, <1>6 DEF DInv

\* The composition implements the server on its own.
THEOREM ImplementsServer == DSpec => ServerSpec
  <1>1. DInit => Init /\ DInv
    BY InitDialogue DEF DInit
  <1> QED
    BY <1>1, DialogueStep, PTL DEF DSpec, ServerSpec, Spec

\* In every behaviour of the dialogue, however TCP cuts it and whatever fails
\* on the client, clients hold and use announced ports only.
THEOREM DialogueTypeTheorem == DSpec => []DTypeOK
  <1>1. DInv => DTypeOK
    BY DEF DInv
  <1> QED
    BY <1>1, InitDialogue, DialogueStep, PTL DEF DSpec

\* What is proved of the server holds when these clients use it, whose cd sends
\* any name, ".." too: a session is the user it names, in a directory that exists
\* as spelled from that user's root, and releases every descriptor it took.
THEOREM DialogueIdentity == DSpec => [](SessionIdentity /\ DescriptorsReleased)
  BY ImplementsServer, IdentityTheorem, ReleasedTheorem, PTL DEF ServerSpec

\* In the dialogue, too, a transfer's data connection is that of the client that
\* asked: the port it reads from a 227 (ftp_client.c:192) leads to its own session.
THEOREM DialogueOwnData ==
  ASSUME EnoughPorts
  PROVE  DSpec => []OwnData
  BY ImplementsServer, OwnDataTheorem, PTL DEF ServerSpec
-----------------------------------------------------------------------------
(***************************************************************************)
(* The alternation of commands and replies, while a recv returns one       *)
(* message and local files can be created.                                 *)
(***************************************************************************)
\* Where the client waits for the first reply to what it asked, where it asks
\* nothing, and where it has a transfer under way.
FirstReply ==
  ({"login"} \X {"greeting", "USER", "PASS"})
    \cup {<<"pwd", "reply">>, <<"cd", "reply">>, <<"quit", "reply">>}
    \cup (Transfers \X {"pasv", "reply"})
Opening == Transfers \X {"reply"}
Idling  == {Prompt} \cup (Transfers \X {"connect"})
Moving  == Transfers \X {"data", "end"}

\* The phases of an exchange: nothing is asked; the greeting is due; a command is
\* on its way; its only or last reply is; a transfer waits for its connection,
\* has begun, has begun and ended; the client knows that it has begun.
Rests(s) ==
  /\ client[s] \in Idling /\ at[s] = "loop"
  /\ commands[s] = <<>> /\ replies[s] = <<>>

Greets(s) ==
  /\ client[s] = <<"login", "greeting">> /\ at[s] = "starting"
  /\ commands[s] = <<>> /\ replies[s] = <<>>

Asks(s) ==
  /\ client[s] \in FirstReply /\ at[s] = "loop"
  /\ Len(commands[s]) = 1 /\ replies[s] = <<>>
  /\ Head(commands[s]).name \in {"LIST", "RETR", "STOR"} => client[s] \in Opening

Answered(s) ==
  /\ client[s] \in FirstReply \cup Moving /\ at[s] = "loop"
  /\ commands[s] = <<>>
  /\ Len(replies[s]) = 1 /\ replies[s][1].code # 150

Opens(s) ==
  /\ client[s] \in Opening /\ at[s] \in Accepting
  /\ commands[s] = <<>> /\ replies[s] = <<>>

Begun(s) ==
  /\ client[s] \in Opening /\ at[s] \in Transferring
  /\ commands[s] = <<>>
  /\ Len(replies[s]) = 1 /\ replies[s][1].code = 150

Over(s) ==
  /\ client[s] \in Opening /\ at[s] = "loop"
  /\ commands[s] = <<>>
  /\ Len(replies[s]) = 2
  /\ replies[s][1].code = 150 /\ replies[s][2].code # 150

Moves(s) ==
  /\ client[s] \in Moving /\ at[s] \in Transferring
  /\ commands[s] = <<>> /\ replies[s] = <<>>

Phase(s) ==
  \/ Rests(s) \/ Greets(s) \/ Asks(s) \/ Answered(s)
  \/ Opens(s) \/ Begun(s) \/ Over(s) \/ Moves(s)

\* A client that is there, with a server that is, is in one of the phases.
Lockstep(s) ==
  /\ client[s] = <<"new", "">> =>
       at[s] = "none" /\ commands[s] = <<>> /\ replies[s] = <<>>
  /\ client[s] = Off => replies[s] = <<>>
  /\ Joined(s) /\ ~ServerGone(s) => ctrl[s] = "open" /\ Phase(s)

LockInv == \A s \in Sessions : Lockstep(s)
\* The clients differ in what they do, so that their phases do.
LEMMA Disjoint ==
  /\ Prompt \in Idling /\ Prompt \notin FirstReply \cup Opening \cup Moving
  /\ \A task \in Transfers :
       /\ <<task, "connect">> \in Idling
       /\ <<task, "connect">> \notin FirstReply \cup Opening \cup Moving
       /\ <<task, "pasv">> \in FirstReply /\ <<task, "pasv">> \notin Idling \cup Opening \cup Moving
       /\ <<task, "reply">> \in FirstReply \cap Opening
       /\ <<task, "reply">> \notin Idling \cup Moving
       /\ \A step \in {"data", "end"} :
            /\ <<task, step>> \in Moving
            /\ <<task, step>> \notin Idling \cup FirstReply \cup Opening
  /\ \A step \in {"greeting", "USER", "PASS"} :
       /\ <<"login", step>> \in FirstReply
       /\ <<"login", step>> \notin Idling \cup Opening \cup Moving
  /\ \A task \in {"pwd", "cd", "quit"} :
       /\ <<task, "reply">> \in FirstReply
       /\ <<task, "reply">> \notin Idling \cup Opening \cup Moving
  BY DEF Prompt, Idling, FirstReply, Opening, Moving, Transfers

LEMMA DoingsJoined ==
  /\ <<"new", "">> # Off
  /\ \A doing \in Idling \cup FirstReply \cup Moving :
       doing \notin {<<"new", "">>, Off}
  <1> DEFINE Tasks == {"prompt", "login", "pwd", "cd", "quit", "ls", "get", "put"}
  <1>1. \A doing \in Idling \cup FirstReply \cup Moving : doing[1] \in Tasks
    <2>1. Prompt[1] \in Tasks
      BY DEF Prompt
    <2>2. \A doing \in {"login"} \X {"greeting", "USER", "PASS"} : doing[1] \in Tasks
      OBVIOUS
    <2>3. /\ \A doing \in Transfers \X {"connect"} : doing[1] \in Tasks
          /\ \A doing \in Transfers \X {"pasv", "reply"} : doing[1] \in Tasks
          /\ \A doing \in Transfers \X {"data", "end"} : doing[1] \in Tasks
      BY DEF Transfers
    <2>4. \A doing \in {<<"pwd", "reply">>, <<"cd", "reply">>, <<"quit", "reply">>} :
            doing[1] \in Tasks
      OBVIOUS
    <2> QED
      BY <2>1, <2>2, <2>3, <2>4 DEF Idling, FirstReply, Moving
  <1>2. Off[1] = "off" /\ <<"new", "">>[1] = "new"
    BY DEF Off
  <1> QED
    BY <1>1, <1>2

LEMMA IdlingApart ==
  \A doing \in Idling : doing \notin FirstReply \cup Opening \cup Moving
  <1> DEFINE Waits == {"greeting", "USER", "PASS", "reply", "pasv", "data", "end"}
  <1>1. \A doing \in FirstReply \cup Opening \cup Moving : doing[2] \in Waits
    <2>1. \A doing \in {"login"} \X {"greeting", "USER", "PASS"} : doing[2] \in Waits
      OBVIOUS
    <2>2. /\ \A doing \in Transfers \X {"reply"} : doing[2] \in Waits
          /\ \A doing \in Transfers \X {"pasv", "reply"} : doing[2] \in Waits
          /\ \A doing \in Transfers \X {"data", "end"} : doing[2] \in Waits
      OBVIOUS
    <2>3. \A doing \in {<<"pwd", "reply">>, <<"cd", "reply">>, <<"quit", "reply">>} :
            doing[2] \in Waits
      OBVIOUS
    <2> QED
      BY <2>1, <2>2, <2>3 DEF FirstReply, Opening, Moving
  <1>2. \A doing \in Idling : doing[2] \notin Waits
    <2>1. \A doing \in Transfers \X {"connect"} : doing[2] \notin Waits
      OBVIOUS
    <2>2. Prompt[2] \notin Waits
      BY DEF Prompt
    <2> QED
      BY <2>1, <2>2 DEF Idling
  <1> QED
    BY <1>1, <1>2

\* One message leaves the queue.
LEMMA DropOne ==
  ASSUME NEW S, NEW queue \in Seq(S), queue # <<>>
  PROVE  /\ Drop(queue, 1) \in Seq(S)
         /\ Len(queue) \in Nat \ {0}
         /\ Len(Drop(queue, 1)) = Len(queue) - 1
         /\ \A i \in 1..(Len(queue) - 1) : Drop(queue, 1)[i] = queue[i + 1]
  <1>1. Len(queue) \in Nat /\ Len(queue) > 0
    BY EmptySeq
  <1>2. 2 \in 1..(Len(queue) + 1) /\ Len(queue) \in 1..Len(queue)
    BY <1>1
  <1>3. SubSeq(queue, 2, Len(queue)) \in Seq(S)
    BY <1>1, <1>2, DropType DEF Drop
  <1>4. \A i \in 2..Len(queue) : queue[i] \in S
    BY <1>1
  <1>5. /\ Len(SubSeq(queue, 2, Len(queue))) =
             IF 2 <= Len(queue) THEN Len(queue) - 2 + 1 ELSE 0
        /\ \A i \in 1..(Len(queue) - 2 + 1) :
             SubSeq(queue, 2, Len(queue))[i] = queue[2 + i - 1]
    BY <1>1, <1>4, SubSeqProperties
  <1> QED
    <2>1. Len(queue) - 1 = Len(queue) - 2 + 1 /\ 1 + 1 = 2
      BY <1>1
    <2>2. Drop(queue, 1) = SubSeq(queue, 2, Len(queue))
      BY DEF Drop
    <2>3. Len(Drop(queue, 1)) = Len(queue) - 1
      BY <1>1, <1>5, <2>2
    <2>4. \A i \in 1..(Len(queue) - 1) : Drop(queue, 1)[i] = queue[i + 1]
      BY <1>1, <1>5, <2>1, <2>2
    <2>5. Drop(queue, 1) \in Seq(S)
      BY <1>3, <2>2
    <2>6. Len(queue) \in Nat \ {0}
      BY <1>1
    <2> QED
      BY <2>3, <2>4, <2>5, <2>6

LEMMA LenZero ==
  ASSUME NEW S, NEW queue \in Seq(S)
  PROVE  Len(queue) \in Nat /\ (Len(queue) = 0 <=> queue = <<>>)
  BY EmptySeq

-----------------------------------------------------------------------------
\* A step of one session, as FtpExchange sees it: nothing, Join, Ask, Read,
\* Begin, Complete or Leave.
Reads(s) ==
  /\ replies[s] # <<>> /\ replies'[s] = Drop(replies[s], 1)
  /\ \/ Asked(s)' = Asked(s)
     \/ ~Asked(s) /\ Len(replies[s]) = 1 /\ Asked(s)'

Sends(s, prelim) ==
  /\ Asked(s) /\ Asked(s)' = prelim
  /\ \E m \in Messages(s)' :
       replies'[s] = Append(replies[s], m) /\ (m.code = 150 <=> prelim)

Exchanges(s) ==
  \/ ~Joined(s) /\ Joined(s)' /\ replies'[s] = replies[s]
  \/ Joined(s) /\ ~Joined(s)' /\ replies'[s] = <<>>
  \/ /\ Joined(s)' = Joined(s)
     /\ \/ Asked(s)' = Asked(s) /\ replies'[s] = replies[s]
        \/ /\ Joined(s) /\ ~Asked(s) /\ Asked(s)'
           /\ replies[s] = <<>> /\ replies'[s] = <<>>
        \/ Reads(s)
        \/ replies[s] = <<>> /\ Sends(s, TRUE)
        \/ Sends(s, FALSE)

\* Nothing of another session changes that Lockstep or the mapping looks at.
Alone(s) ==
  \A t \in Sessions \ {s} :
    UNCHANGED <<client[t], commands[t], replies[t], at[t], ctrl[t]>>

ClassesOf(queue) == [i \in DOMAIN queue |-> Class(queue[i].code)]

LEMMA ClassesDrop ==
  ASSUME NEW S, NEW queue \in Seq(S), queue # <<>>
  PROVE  /\ ClassesOf(queue) # <<>> /\ Len(ClassesOf(queue)) = Len(queue)
         /\ ClassesOf(Drop(queue, 1)) = Tail(ClassesOf(queue))
  <1> DEFINE n == Len(queue)
             classes == ClassesOf(queue)
             rest == Drop(queue, 1)
             Class2 == {"preliminary", "completion"}
  <1>1. /\ n \in Nat \ {0} /\ rest \in Seq(S) /\ Len(rest) = n - 1
        /\ \A i \in 1..(n - 1) : rest[i] = queue[i + 1]
    BY DropOne
  <1>2. DOMAIN queue = 1..n /\ DOMAIN rest = 1..(n - 1)
    BY <1>1, LenProperties
  <1>3. classes = [i \in 1..n |-> Class(queue[i].code)]
    BY <1>2 DEF ClassesOf
  <1>4. classes \in Seq(Class2)
    BY <1>1, <1>3, IsASeq DEF Class
  <1>5. Len(classes) = n /\ classes # <<>>
    BY <1>1, <1>3, <1>4, LenProperties, EmptySeq
  <1>6. /\ Tail(classes) \in Seq(Class2) /\ Len(Tail(classes)) = n - 1
        /\ \A i \in 1..(n - 1) : Tail(classes)[i] = classes[i + 1]
    BY <1>1, <1>4, <1>5, HeadTailProperties
  <1>7. ClassesOf(rest) = [i \in 1..(n - 1) |-> Class(rest[i].code)]
    BY <1>2 DEF ClassesOf
  <1>8. \A i \in 1..(n - 1) : Tail(classes)[i] = Class(rest[i].code)
    BY <1>1, <1>3, <1>6
  <1>9. Tail(classes) = [i \in 1..(n - 1) |-> Tail(classes)[i]]
    BY <1>1, <1>6, LenProperties
  <1> QED
    BY <1>5, <1>7, <1>8, <1>9

LEMMA ClassesAppend ==
  ASSUME NEW S, NEW queue \in Seq(S), NEW m \in S
  PROVE  ClassesOf(Append(queue, m)) = Append(ClassesOf(queue), Class(m.code))
  <1> DEFINE n == Len(queue)
             classes == ClassesOf(queue)
             Class2 == {"preliminary", "completion"}
             longer == Append(queue, m)
             both == Append(classes, Class(m.code))
  <1>1. n \in Nat /\ DOMAIN queue = 1..n
    BY LenProperties
  <1>2. /\ longer \in Seq(S) /\ Len(longer) = n + 1
        /\ \A i \in 1..n : longer[i] = queue[i]
        /\ longer[n + 1] = m
    BY AppendProperties
  <1>3. DOMAIN longer = 1..(n + 1)
    BY <1>2, LenProperties
  <1>4. classes = [i \in 1..n |-> Class(queue[i].code)]
    BY <1>1 DEF ClassesOf
  <1>5. classes \in Seq(Class2) /\ Class(m.code) \in Class2
    BY <1>1, <1>4, IsASeq DEF Class
  <1>6. Len(classes) = n
    BY <1>1, <1>4, <1>5, LenProperties
  <1>7. /\ both \in Seq(Class2) /\ Len(both) = n + 1
        /\ \A i \in 1..n : both[i] = classes[i]
        /\ both[n + 1] = Class(m.code)
    BY <1>5, <1>6, AppendProperties
  <1>8. both = [i \in 1..(n + 1) |-> both[i]]
    BY <1>7, LenProperties
  <1>9. \A i \in 1..(n + 1) : both[i] = Class(longer[i].code)
    BY <1>1, <1>2, <1>4, <1>7
  <1>10. ClassesOf(longer) = [i \in 1..(n + 1) |-> Class(longer[i].code)]
    BY <1>3 DEF ClassesOf
  <1> QED
    BY <1>8, <1>9, <1>10

joinedBar == [s \in Sessions |-> Joined(s)]
askedBar  == [s \in Sessions |-> Asked(s)]
unreadBar == [s \in Sessions |-> ClassesOf(replies[s])]

\* Another session's part of the mapping stays as it is.
LEMMA BarsAlone ==
  ASSUME NEW s \in Sessions, Alone(s)
  PROVE  /\ joinedBar' = [joinedBar EXCEPT ![s] = Joined(s)']
         /\ askedBar' = [askedBar EXCEPT ![s] = Asked(s)']
         /\ unreadBar' = [unreadBar EXCEPT ![s] = ClassesOf(replies'[s])]
  <1>1. ASSUME NEW t \in Sessions, t # s
        PROVE  /\ Joined(t)' = Joined(t) /\ Asked(t)' = Asked(t)
               /\ ClassesOf(replies'[t]) = ClassesOf(replies[t])
    BY <1>1 DEF Alone, Joined, Asked
  <1>2. joinedBar' = [joinedBar EXCEPT ![s] = Joined(s)']
    BY <1>1, Zenon DEF joinedBar
  <1>3. askedBar' = [askedBar EXCEPT ![s] = Asked(s)']
    BY <1>1, Zenon DEF askedBar
  <1>4. unreadBar' = [unreadBar EXCEPT ![s] = ClassesOf(replies'[s])]
    BY <1>1, Zenon DEF unreadBar
  <1> QED
    BY <1>2, <1>3, <1>4

LEMMA Mapped ==
  ASSUME NEW s \in Sessions
  PROVE  /\ joinedBar[s] = Joined(s) /\ askedBar[s] = Asked(s)
         /\ unreadBar[s] = ClassesOf(replies[s])
  BY Zenon DEF joinedBar, askedBar, unreadBar

LEMMA EmptyClasses == ClassesOf(<<>>) = <<>>
  BY DEF ClassesOf

\* What one session does is a step of FtpExchange, or none.
LEMMA ExchangeStep ==
  ASSUME DInv, DInv', NEW s \in Sessions, Alone(s), Exchanges(s),
         Asked(s) => Joined(s), Asked(s)' => Joined(s)'
  PROVE  [Exchange!ENext]_(Exchange!evars)
  <1> USE Mapped
  <1>1. /\ joinedBar' = [joinedBar EXCEPT ![s] = Joined(s)']
        /\ askedBar' = [askedBar EXCEPT ![s] = Asked(s)']
        /\ unreadBar' = [unreadBar EXCEPT ![s] = ClassesOf(replies'[s])]
    BY BarsAlone
  <1>2. replies[s] \in Seq(Messages(s)) /\ replies'[s] \in Seq(Messages(s)')
    BY DEF DInv, DTypeOK
  <1>3. /\ Joined(s)' = Joined(s) => joinedBar' = joinedBar
        /\ Asked(s)' = Asked(s) => askedBar' = askedBar
        /\ ClassesOf(replies'[s]) = ClassesOf(replies[s]) => unreadBar' = unreadBar
    <2>1. Joined(s)' = Joined(s) => joinedBar' = joinedBar
      BY <1>1, Zenon DEF joinedBar
    <2>2. Asked(s)' = Asked(s) => askedBar' = askedBar
      BY <1>1, Zenon DEF askedBar
    <2>3. ClassesOf(replies'[s]) = ClassesOf(replies[s]) => unreadBar' = unreadBar
      BY <1>1, Zenon DEF unreadBar
    <2> QED
      BY <2>1, <2>2, <2>3
  <1>4. CASE ~Joined(s) /\ Joined(s)' /\ replies'[s] = replies[s]
    <2>1. /\ ~joinedBar[s] /\ joinedBar' = [joinedBar EXCEPT ![s] = TRUE]
          /\ unreadBar' = unreadBar
      BY <1>1, <1>3, <1>4, Zenon
    <2>2. Asked(s)' \in BOOLEAN
      BY DEF Asked, Joined
    <2>3. Exchange!Join(s)
      BY <1>1, <2>1, <2>2, Zenon DEF Exchange!Join, joinedBar, askedBar, unreadBar, ClassesOf
    <2> QED
      BY <2>3 DEF Exchange!ENext
  <1>5. CASE Joined(s) /\ ~Joined(s)' /\ replies'[s] = <<>>
    <2>1. /\ joinedBar[s] /\ joinedBar' = [joinedBar EXCEPT ![s] = FALSE]
          /\ askedBar' = [askedBar EXCEPT ![s] = FALSE]
      <3>1. Joined(s)' = FALSE
        BY <1>5 DEF Joined
      <3>2. Asked(s)' = FALSE
        BY <1>5 DEF Asked
      <3> QED
        BY <1>1, <1>5, <3>1, <3>2, Zenon
    <2>2. unreadBar' = [unreadBar EXCEPT ![s] = <<>>]
      BY <1>1, <1>5, EmptyClasses
    <2>3. Exchange!Leave(s)
      BY <2>1, <2>2, Zenon DEF Exchange!Leave, joinedBar, askedBar, unreadBar, ClassesOf
    <2> QED
      BY <2>3 DEF Exchange!ENext
  <1>6. CASE Joined(s)' = Joined(s) /\ Asked(s)' = Asked(s) /\ replies'[s] = replies[s]
    BY <1>3, <1>6, Zenon
    DEF Exchange!evars, joinedBar, askedBar, unreadBar, ClassesOf
  <1>7. CASE /\ Joined(s)' = Joined(s)
             /\ Joined(s) /\ ~Asked(s) /\ Asked(s)'
             /\ replies[s] = <<>> /\ replies'[s] = <<>>
    <2>1. /\ joinedBar[s] /\ ~askedBar[s] /\ joinedBar' = joinedBar
          /\ askedBar' = [askedBar EXCEPT ![s] = TRUE]
      BY <1>1, <1>3, <1>7, Zenon
    <2>2. unreadBar[s] = <<>> /\ unreadBar' = unreadBar
      BY <1>3, <1>7, EmptyClasses
    <2>3. Exchange!Ask(s)
      BY <2>1, <2>2, Zenon DEF Exchange!Ask, joinedBar, askedBar, unreadBar, ClassesOf
    <2> QED
      BY <2>3 DEF Exchange!ENext
  <1>8. CASE Joined(s)' = Joined(s) /\ Reads(s)
    <2>1. /\ unreadBar[s] # <<>> /\ Len(unreadBar[s]) = Len(replies[s])
          /\ ClassesOf(replies'[s]) = Tail(unreadBar[s])
      BY <1>2, <1>8, ClassesDrop DEF Reads
    <2>2. unreadBar' = [unreadBar EXCEPT ![s] = Tail(@)]
      BY <1>1, <2>1
    <2>3. joinedBar' = joinedBar
      BY <1>3, <1>8
    <2>4. \/ askedBar' = askedBar
          \/ /\ ~askedBar[s] /\ Len(unreadBar[s]) = 1
             /\ askedBar' = [askedBar EXCEPT ![s] = TRUE]
      BY <1>1, <1>3, <1>8, <2>1, Zenon DEF Reads
    <2>5. Exchange!Read(s)
      BY <2>1, <2>2, <2>3, <2>4, Zenon
      DEF Exchange!Read, joinedBar, askedBar, unreadBar, ClassesOf
    <2> QED
      BY <2>5 DEF Exchange!ENext
  <1>9. CASE Joined(s)' = Joined(s) /\ replies[s] = <<>> /\ Sends(s, TRUE)
    <2>1. PICK m \in Messages(s)' : replies'[s] = Append(replies[s], m) /\ m.code = 150
      BY <1>9 DEF Sends
    <2>2. ClassesOf(replies'[s]) = <<"preliminary">>
      <3>1. <<>> \in Seq(Messages(s)')
        BY EmptySeq
      <3>2. ClassesOf(replies'[s]) = Append(ClassesOf(<<>>), Class(m.code))
        <4>1. replies'[s] = Append(<<>>, m)
          BY <1>9, <2>1
        <4> QED
          BY <3>1, <4>1, ClassesAppend
      <3>3. Class(m.code) = "preliminary"
        BY <2>1 DEF Class
      <3>4. Append(<<>>, "preliminary") = <<"preliminary">>
        OBVIOUS
      <3> QED
        BY <3>2, <3>3, <3>4, EmptyClasses, Zenon
    <2>3. unreadBar[s] = <<>> /\ unreadBar' = [unreadBar EXCEPT ![s] = <<"preliminary">>]
      BY <1>1, <1>9, <2>2, EmptyClasses
    <2>4. joinedBar' = joinedBar /\ askedBar' = askedBar /\ askedBar[s]
      BY <1>3, <1>9, Zenon DEF Sends
    <2>5. Exchange!Begin(s)
      BY <2>3, <2>4, Zenon DEF Exchange!Begin, joinedBar, askedBar, unreadBar, ClassesOf
    <2> QED
      BY <2>5 DEF Exchange!ENext
  <1>10. CASE Joined(s)' = Joined(s) /\ Sends(s, FALSE)
    <2>1. PICK m \in Messages(s)' : replies'[s] = Append(replies[s], m) /\ m.code # 150
      BY <1>10 DEF Sends
    <2>2. ClassesOf(replies'[s]) = Append(unreadBar[s], "completion")
      <3>1. Messages(s) \subseteq Messages(s) \cup Messages(s)'
        OBVIOUS
      <3>2. replies[s] \in Seq(Messages(s) \cup Messages(s)')
        BY <1>2, <3>1, SeqMonotonic
      <3>3. ClassesOf(replies'[s]) = Append(ClassesOf(replies[s]), Class(m.code))
        BY <2>1, <3>2, ClassesAppend
      <3> QED
        BY <2>1, <3>3 DEF Class
    <2>3. unreadBar' = [unreadBar EXCEPT ![s] = Append(@, "completion")]
      BY <1>1, <2>2
    <2>4. /\ joinedBar' = joinedBar /\ askedBar[s]
          /\ askedBar' = [askedBar EXCEPT ![s] = FALSE]
      BY <1>1, <1>3, <1>10, Zenon DEF Sends
    <2>5. Exchange!Complete(s)
      BY <2>3, <2>4, Zenon DEF Exchange!Complete, joinedBar, askedBar, unreadBar, ClassesOf
    <2> QED
      BY <2>5 DEF Exchange!ENext
  <1> QED
    BY <1>4, <1>5, <1>6, <1>7, <1>8, <1>9, <1>10 DEF Exchanges

\* The invariant holds of the sessions that a step leaves alone.
LEMMA LockOthers ==
  ASSUME LockInv, NEW s \in Sessions, Alone(s), process' = process,
         Lockstep(s)'
  PROVE  LockInv'
  <1>1. ASSUME NEW t \in Sessions, t # s
        PROVE  Lockstep(t)'
    <2>1. UNCHANGED <<client[t], commands[t], replies[t], at[t], ctrl[t]>>
      BY <1>1 DEF Alone
    <2>2. Phase(t)' = Phase(t)
      BY <2>1 DEF Phase, Rests, Greets, Asks, Answered, Opens, Begun, Over, Moves
    <2>3. ServerGone(t)' = ServerGone(t) /\ Joined(t)' = Joined(t)
      BY <2>1 DEF ServerGone, Joined
    <2>4. Lockstep(t)
      BY DEF LockInv
    <2> QED
      BY <2>1, <2>2, <2>3, <2>4 DEF Lockstep
  <1> QED
    BY <1>1 DEF LockInv

LEMMA InitLock == DInit => LockInv
  <1> SUFFICES ASSUME DInit, NEW s \in Sessions PROVE Lockstep(s)
    BY DEF LockInv
  <1>1. /\ client[s] = <<"new", "">> /\ at[s] = "none"
        /\ commands[s] = <<>> /\ replies[s] = <<>>
    BY DEF DInit, Init
  <1> QED
    BY <1>1 DEF Lockstep, Joined

LEMMA InitExchange == DInit => Exchange!EInit
  <1> SUFFICES ASSUME DInit PROVE Exchange!EInit
    OBVIOUS
  <1>1. \A s \in Sessions : Joined(s) = FALSE /\ Asked(s) = FALSE
    BY DEF DInit, Joined, Asked
  <1>2. \A s \in Sessions : ClassesOf(replies[s]) = <<>>
    BY EmptyClasses DEF DInit
  <1> QED
    BY <1>1, <1>2, Zenon DEF Exchange!EInit, ClassesOf

\* A message goes into the queue.
LEMMA AppendOne ==
  ASSUME NEW S, NEW queue \in Seq(S), NEW m \in S
  PROVE  /\ Append(queue, m) # <<>>
         /\ Len(Append(queue, m)) = Len(queue) + 1
         /\ \A i \in 1..Len(queue) : Append(queue, m)[i] = queue[i]
         /\ Append(queue, m)[Len(queue) + 1] = m
         /\ queue = <<>> => Head(Append(queue, m)) = m
  <1>1. /\ Append(queue, m) \in Seq(S)
        /\ Len(Append(queue, m)) = Len(queue) + 1
        /\ \A i \in 1..Len(queue) : Append(queue, m)[i] = queue[i]
        /\ Append(queue, m)[Len(queue) + 1] = m
    BY AppendProperties
  <1>2. Append(queue, m) # <<>>
    BY <1>1, LenProperties, EmptySeq
  <1>3. queue = <<>> => Head(Append(queue, m)) = m
    BY <1>1, <1>2, HeadTailProperties, EmptySeq
  <1> QED
    BY <1>1, <1>2, <1>3

\* What a step of one session must do: keep to its phases, and to FtpExchange.
Kept(s) == Alone(s) /\ Lockstep(s)' /\ Exchanges(s)

\* recv returns one reply, or the end when there is no reply and no server.
LEMMA Received ==
  ASSUME ~Coalesces, DInv, NEW s \in Sessions, ftp_recv_response(s)
  PROVE  /\ \A t \in Sessions \ {s} : replies'[t] = replies[t]
         /\ replies[s] = <<>> => replies' = replies /\ ServerGone(s)
         /\ replies[s] # <<>> =>
              /\ replies'[s] = Drop(replies[s], 1)
              /\ Len(replies[s]) = 1 => replies'[s] = <<>>
              /\ Len(replies[s]) = 2 =>
                   Len(replies'[s]) = 1 /\ replies'[s][1] = replies[s][2]
              /\ Response(s) = replies[s][1]
  <1>1. replies[s] \in Seq(Messages(s)) /\ DOMAIN replies = Sessions
    BY DEF DInv, DTypeOK
  <1>2. CASE replies[s] = <<>>
    BY <1>2 DEF ftp_recv_response, Arrived
  <1>3. CASE replies[s] # <<>>
    <2>1. replies' = [replies EXCEPT ![s] = Drop(@, 1)]
      BY <1>3 DEF ftp_recv_response, Taken
    <2>2. replies'[s] = Drop(replies[s], 1) /\ \A t \in Sessions \ {s} : replies'[t] = replies[t]
      BY <1>1, <2>1
    <2>3. /\ Drop(replies[s], 1) \in Seq(Messages(s))
          /\ Len(replies[s]) \in Nat \ {0}
          /\ Len(Drop(replies[s], 1)) = Len(replies[s]) - 1
          /\ \A i \in 1..(Len(replies[s]) - 1) : Drop(replies[s], 1)[i] = replies[s][i + 1]
      BY <1>1, <1>3, DropOne
    <2>4. Len(replies[s]) = 1 => replies'[s] = <<>>
      BY <2>2, <2>3, LenZero
    <2>5. Len(replies[s]) = 2 =>
            Len(replies'[s]) = 1 /\ replies'[s][1] = replies[s][2]
      BY <2>2, <2>3
    <2>6. Response(s) = replies[s][1]
      BY <1>1, <1>3, HeadTailProperties DEF Response
    <2> QED
      BY <1>3, <2>2, <2>3, <2>4, <2>5, <2>6
  <1> QED
    BY <1>2, <1>3

\* The client's step when the server is gone: nothing is asked any more.
LEMMA GoneStep ==
  ASSUME DInv, NEW s \in Sessions, ServerGone(s),
         UNCHANGED <<process, at, ctrl, commands>>,
         Joined(s), NEW doing \in Idling \cup FirstReply \cup Moving,
         client' = [client EXCEPT ![s] = doing],
         \A t \in Sessions \ {s} : replies'[t] = replies[t],
         \/ replies'[s] = replies[s]
         \/ replies[s] # <<>> /\ replies'[s] = Drop(replies[s], 1)
  PROVE  Kept(s)
  <1>1. client'[s] = doing /\ \A t \in Sessions \ {s} : client'[t] = client[t]
    BY DEF DInv, DTypeOK
  <1>2. Joined(s)' /\ client'[s] # <<"new", "">> /\ client'[s] # Off
    BY <1>1, DoingsJoined DEF Joined
  <1>3. ServerGone(s)' /\ UNCHANGED <<process, at, ctrl>>
    BY DEF ServerGone
  <1>4. Asked(s)' = Asked(s)
    BY <1>2, <1>3 DEF Asked
  <1>5. Alone(s)
    BY <1>1, <1>3 DEF Alone
  <1>6. Lockstep(s)'
    BY <1>2, <1>3 DEF Lockstep
  <1>7. Exchanges(s)
    BY <1>2, <1>4 DEF Exchanges, Reads
  <1> QED
    BY <1>5, <1>6, <1>7 DEF Kept

\* The client takes a reply and asks nothing.
LEMMA TakesStep ==
  ASSUME ~Coalesces, DInv, LockInv, NEW s \in Sessions,
         ftp_recv_response(s), UNCHANGED <<vars, commands>>,
         NEW doing \in Idling \cup Moving,
         client' = [client EXCEPT ![s] = doing],
         client[s] \in FirstReply \cup Moving,
         doing \in Idling => client[s] \notin Opening \/ Response(s).code # 150,
         doing \in Moving => client[s] \in Opening /\ Response(s).code = 150
  PROVE  Kept(s)
  <1>1. client'[s] = doing /\ \A t \in Sessions \ {s} : client'[t] = client[t]
    BY DEF DInv, DTypeOK
  <1>2. /\ Joined(s) /\ Joined(s)' /\ client'[s] # <<"new", "">> /\ client'[s] # Off
    <2>1. /\ client[s] \in Idling \cup FirstReply \cup Moving
          /\ client'[s] \in Idling \cup FirstReply \cup Moving
      BY <1>1
    <2> QED
      BY <2>1, DoingsJoined DEF Joined
  <1>3. UNCHANGED <<process, at, ctrl>> /\ ServerGone(s)' = ServerGone(s)
    BY DEF vars, ServerGone
  <1>4. CASE ServerGone(s)
    <2>1. /\ \A t \in Sessions \ {s} : replies'[t] = replies[t]
          /\ \/ replies'[s] = replies[s]
             \/ replies[s] # <<>> /\ replies'[s] = Drop(replies[s], 1)
      BY Received
    <2>2. doing \in Idling \cup FirstReply \cup Moving
      OBVIOUS
    <2> QED
      BY <1>2, <1>3, <1>4, <2>1, <2>2, GoneStep
  <1>5. CASE ~ServerGone(s)
    <2>1. /\ replies[s] # <<>> /\ replies'[s] = Drop(replies[s], 1)
          /\ Len(replies[s]) = 1 => replies'[s] = <<>>
          /\ Len(replies[s]) = 2 =>
               Len(replies'[s]) = 1 /\ replies'[s][1] = replies[s][2]
          /\ Response(s) = replies[s][1]
      BY <1>5, Received
    <2>2. Asked(s)' = Asked(s)
      BY <1>2, <1>3 DEF Asked
    <2>3. Alone(s)
      BY <1>1, <1>3, Received DEF Alone
    <2>4. Exchanges(s)
      BY <1>2, <2>1, <2>2 DEF Exchanges, Reads
    <2>5. ctrl[s] = "open" /\ Phase(s)
      BY <1>2, <1>5 DEF LockInv, Lockstep
    <2>6. Answered(s) \/ Begun(s) \/ Over(s)
      BY <2>1, <2>5 DEF Phase, Rests, Greets, Asks, Opens, Moves
    <2>7. Phase(s)'
      <3>1. CASE Answered(s)
        <4>1. doing \in Idling
          BY <2>1, <3>1 DEF Answered
        <4>2. Rests(s)'
          BY <1>1, <1>3, <2>1, <3>1, <4>1 DEF Answered, Rests
        <4> QED
          BY <4>2 DEF Phase
      <3>2. CASE Begun(s)
        <4>1. doing \in Moving
          BY <2>1, <3>2 DEF Begun
        <4>2. Moves(s)'
          BY <1>1, <1>3, <2>1, <3>2, <4>1 DEF Begun, Moves
        <4> QED
          BY <4>2 DEF Phase
      <3>3. CASE Over(s)
        <4>1. doing \in Moving
          BY <2>1, <3>3 DEF Over
        <4>2. Answered(s)'
          BY <1>1, <1>3, <2>1, <3>3, <4>1 DEF Answered, Over
        <4> QED
          BY <4>2 DEF Phase
      <3> QED
        BY <2>6, <3>1, <3>2, <3>3
    <2>8. Lockstep(s)'
      BY <1>2, <1>3, <2>5, <2>7 DEF Lockstep
    <2> QED
      BY <2>3, <2>4, <2>8 DEF Kept
  <1> QED
    BY <1>4, <1>5

LEMMA Sent ==
  ASSUME DInv, NEW s \in Sessions, NEW name, NEW arg,
         [name |-> name, arg |-> arg] \in Commands,
         ftp_send_command(s, name, arg)
  PROVE  /\ \A t \in Sessions \ {s} : commands'[t] = commands[t]
         /\ ServerGone(s) => commands' = commands
         /\ ~ServerGone(s) /\ commands[s] = <<>> =>
              /\ Len(commands'[s]) = 1 /\ commands'[s] # <<>>
              /\ Head(commands'[s]).name = name
  <1> DEFINE cmd == [name |-> name, arg |-> arg]
  <1>1. commands \in [Sessions -> Seq(Commands)]
    BY DEF DInv, DTypeOK
  <1>2. CASE ServerGone(s)
    BY <1>2 DEF ftp_send_command
  <1>3. CASE ~ServerGone(s)
    <2>1. commands' = [commands EXCEPT ![s] = Append(@, cmd)]
      BY <1>3 DEF ftp_send_command
    <2>2. /\ Append(commands[s], cmd) # <<>>
          /\ Len(Append(commands[s], cmd)) = Len(commands[s]) + 1
          /\ commands[s] = <<>> => Head(Append(commands[s], cmd)) = cmd
      BY <1>1, AppendOne
    <2>3. commands[s] = <<>> => Len(commands[s]) + 1 = 1
      BY <1>1, LenZero
    <2> QED
      BY <1>1, <1>3, <2>1, <2>2, <2>3
  <1> QED
    BY <1>2, <1>3

\* After a command is sent to a server that rests, the exchange has begun.
LEMMA AsksNow ==
  ASSUME DInv, LockInv, NEW s \in Sessions, ~ServerGone(s),
         at[s] = "loop", ctrl[s] = "open", commands[s] = <<>>,
         UNCHANGED <<process, at, ctrl>>, replies'[s] = <<>>,
         NEW name, NEW arg, [name |-> name, arg |-> arg] \in Commands,
         ftp_send_command(s, name, arg),
         client'[s] \in FirstReply,
         name \in {"LIST", "RETR", "STOR"} => client'[s] \in Opening
  PROVE  Lockstep(s)' /\ Joined(s)' /\ Asked(s)'
  <1>1. /\ Len(commands'[s]) = 1 /\ commands'[s] # <<>>
        /\ Head(commands'[s]).name = name
    BY Sent
  <1>2. Asks(s)'
    BY <1>1 DEF Asks
  <1>3. Joined(s)' /\ client'[s] # <<"new", "">> /\ client'[s] # Off
    BY DoingsJoined DEF Joined
  <1>4. Lockstep(s)'
    BY <1>2, <1>3 DEF Lockstep, Phase
  <1> QED
    BY <1>1, <1>3, <1>4 DEF Asked

\* The client asks from where it rests.
LEMMA SendsStep ==
  ASSUME DInv, LockInv, NEW s \in Sessions, client[s] \in Idling,
         UNCHANGED <<process, at, ctrl, replies>>,
         NEW name, NEW arg, [name |-> name, arg |-> arg] \in Commands,
         ftp_send_command(s, name, arg),
         NEW doing \in FirstReply, client' = [client EXCEPT ![s] = doing],
         name \in {"LIST", "RETR", "STOR"} => doing \in Opening
  PROVE  Kept(s)
  <1>1. client'[s] = doing /\ \A t \in Sessions \ {s} : client'[t] = client[t]
    BY DEF DInv, DTypeOK
  <1>2. Joined(s)
    <2>1. client[s] \in Idling \cup FirstReply \cup Moving
      OBVIOUS
    <2> QED
      BY <2>1, DoingsJoined DEF Joined
  <1>3. CASE ServerGone(s)
    <2>1. commands' = commands
      BY <1>3, Sent
    <2>2. doing \in Idling \cup FirstReply \cup Moving
      OBVIOUS
    <2> QED
      BY <1>2, <1>3, <2>1, <2>2, GoneStep
  <1>4. CASE ~ServerGone(s)
    <2>1. ctrl[s] = "open" /\ Phase(s)
      BY <1>2, <1>4 DEF LockInv, Lockstep
    <2>2. Rests(s)
      <3>1. client[s] \notin FirstReply \cup Opening \cup Moving
        BY IdlingApart
      <3> QED
        BY <2>1, <3>1, Disjoint
        DEF Phase, Greets, Asks, Answered, Opens, Begun, Over, Moves
    <2>3. Lockstep(s)' /\ Joined(s)' /\ Asked(s)'
      BY <1>1, <1>4, <2>1, <2>2, AsksNow DEF Rests
    <2>4. ~Asked(s)
      BY <2>2 DEF Asked, Rests, Accepting, Transferring
    <2>5. Exchanges(s)
      BY <1>2, <2>2, <2>3, <2>4 DEF Exchanges, Rests
    <2>6. Alone(s)
      BY <1>1, Sent DEF Alone
    <2> QED
      BY <2>3, <2>5, <2>6 DEF Kept
  <1> QED
    BY <1>3, <1>4

\* ftp_login takes a reply and sends at once.
LEMMA TakesAndSendsStep ==
  ASSUME ~Coalesces, DInv, LockInv, NEW s \in Sessions,
         ftp_recv_response(s), UNCHANGED vars,
         client[s] \in FirstReply \ Opening,
         NEW name \in {"USER", "PASS"}, NEW arg,
         [name |-> name, arg |-> arg] \in Commands,
         ftp_send_command(s, name, arg),
         NEW doing \in FirstReply, client' = [client EXCEPT ![s] = doing]
  PROVE  Kept(s)
  <1>1. client'[s] = doing /\ \A t \in Sessions \ {s} : client'[t] = client[t]
    BY DEF DInv, DTypeOK
  <1>2. Joined(s)
    <2>1. client[s] \in Idling \cup FirstReply \cup Moving
      OBVIOUS
    <2> QED
      BY <2>1, DoingsJoined DEF Joined
  <1>3. UNCHANGED <<process, at, ctrl>>
    BY DEF vars
  <1>4. CASE ServerGone(s)
    <2>1. commands' = commands
      BY <1>4, Sent
    <2>2. doing \in Idling \cup FirstReply \cup Moving
      OBVIOUS
    <2>3. /\ \A t \in Sessions \ {s} : replies'[t] = replies[t]
          /\ \/ replies'[s] = replies[s]
             \/ replies[s] # <<>> /\ replies'[s] = Drop(replies[s], 1)
      BY Received
    <2> QED
      BY <1>2, <1>3, <1>4, <2>1, <2>2, <2>3, GoneStep
  <1>5. CASE ~ServerGone(s)
    <2>1. ctrl[s] = "open" /\ Phase(s)
      BY <1>2, <1>5 DEF LockInv, Lockstep
    <2>2. /\ replies[s] # <<>> /\ replies'[s] = Drop(replies[s], 1)
          /\ Len(replies[s]) = 1 => replies'[s] = <<>>
      BY <1>5, Received
    <2>3. Answered(s)
      BY <2>1, <2>2 DEF Phase, Rests, Greets, Asks, Opens, Begun, Over, Moves
    <2>4. Lockstep(s)' /\ Joined(s)' /\ Asked(s)'
      <3>1. name \notin {"LIST", "RETR", "STOR"}
        OBVIOUS
      <3> QED
        BY <1>1, <1>3, <1>5, <2>1, <2>2, <2>3, <3>1, AsksNow DEF Answered
    <2>5. ~Asked(s)
      BY <2>3 DEF Asked, Answered, Accepting, Transferring
    <2>6. Exchanges(s)
      BY <1>2, <2>2, <2>3, <2>4, <2>5 DEF Exchanges, Reads, Answered
    <2>7. Alone(s)
      BY <1>1, <1>3, Sent, Received DEF Alone
    <2> QED
      BY <2>4, <2>6, <2>7 DEF Kept
  <1> QED
    BY <1>4, <1>5

\* The client connects, fails to, or ends its data connection: nothing is asked.
LEMMA MovesStep ==
  ASSUME DInv, LockInv, NEW s \in Sessions, UNCHANGED <<vars, commands, replies>>,
         NEW task \in Transfers, NEW doing,
         client' = [client EXCEPT ![s] = doing],
         \/ client[s] = <<task, "connect">> /\ doing = Prompt
         \/ client[s] = <<task, "data">> /\ doing = <<task, "end">>
  PROVE  Kept(s)
  <1>1. client'[s] = doing /\ \A t \in Sessions \ {s} : client'[t] = client[t]
    BY DEF DInv, DTypeOK
  <1>2. /\ client[s] \in Idling \cup FirstReply \cup Moving
        /\ doing \in Idling \cup FirstReply \cup Moving
    BY Disjoint
  <1>3. /\ Joined(s) /\ Joined(s)'
        /\ client'[s] # <<"new", "">> /\ client'[s] # Off
    BY <1>1, <1>2, DoingsJoined DEF Joined
  <1>4. UNCHANGED <<process, at, ctrl>> /\ ServerGone(s)' = ServerGone(s)
    BY DEF vars, ServerGone
  <1>5. Asked(s)' = Asked(s)
    BY <1>3, <1>4 DEF Asked
  <1>6. Alone(s)
    BY <1>1, <1>4 DEF Alone
  <1>7. Exchanges(s)
    BY <1>3, <1>5 DEF Exchanges
  <1>8. ASSUME ~ServerGone(s)
        PROVE  ctrl[s] = "open" /\ Phase(s)'
    <2>1. ctrl[s] = "open" /\ Phase(s)
      BY <1>3, <1>8 DEF LockInv, Lockstep
    <2>2. CASE client[s] = <<task, "connect">> /\ doing = Prompt
      <3>1. Rests(s)
        BY <2>1, <2>2, Disjoint
        DEF Phase, Greets, Asks, Answered, Opens, Begun, Over, Moves
      <3>2. Rests(s)'
        BY <1>1, <1>4, <2>2, <3>1, Disjoint DEF Rests
      <3> QED
        BY <2>1, <3>2 DEF Phase
    <2>3. CASE client[s] = <<task, "data">> /\ doing = <<task, "end">>
      <3>1. client[s] \notin Idling \cup FirstReply \cup Opening /\ doing \in Moving
        BY <2>3, Disjoint
      <3>2. Answered(s) \/ Moves(s)
        BY <2>1, <3>1, Disjoint DEF Phase, Rests, Greets, Asks, Opens, Begun, Over
      <3>3. Answered(s)' \/ Moves(s)'
        BY <1>1, <1>4, <3>1, <3>2 DEF Answered, Moves
      <3> QED
        BY <2>1, <3>3 DEF Phase
    <2> QED
      BY <2>2, <2>3
  <1>9. Lockstep(s)'
    BY <1>3, <1>4, <1>8 DEF Lockstep
  <1> QED
    BY <1>6, <1>7, <1>9 DEF Kept

\* The client hangs up.
LEMMA HangsUpStep ==
  ASSUME DInv, NEW s \in Sessions, Joined(s), ftp_disconnect(s),
         UNCHANGED commands
  PROVE  Kept(s) /\ process' = process
  <1>1. /\ client'[s] = Off /\ \A t \in Sessions \ {s} : client'[t] = client[t]
        /\ replies'[s] = <<>> /\ \A t \in Sessions \ {s} : replies'[t] = replies[t]
    BY DEF DInv, DTypeOK, ftp_disconnect
  <1>2. /\ process' = process /\ at' = at
        /\ \A t \in Sessions \ {s} : ctrl'[t] = ctrl[t]
    BY DEF ftp_disconnect, ClientCloses, vars, DInv, SessionInv, TypeOK
  <1>3. ~Joined(s)' /\ client'[s] # <<"new", "">>
    BY <1>1, DoingsJoined DEF Joined
  <1> QED
    BY <1>1, <1>2, <1>3 DEF Kept, Alone, Lockstep, Exchanges

LEMMA ConnectsStep ==
  ASSUME DInv, LockInv, NEW s \in Sessions, ftp_connect(s)
  PROVE  Kept(s) /\ process' = process
  <1>1. /\ client[s] = <<"new", "">> /\ client'[s] = <<"login", "greeting">>
        /\ \A t \in Sessions \ {s} : client'[t] = client[t]
        /\ UNCHANGED <<commands, replies>>
    BY DEF DInv, DTypeOK, ftp_connect, Does
  <1>2. /\ at[s] = "none" /\ process' = process
        /\ \A t \in Sessions \ {s} : at'[t] = at[t] /\ ctrl'[t] = ctrl[t]
        /\ \/ at'[s] = "starting" /\ ctrl'[s] = "open"
           \/ at'[s] = "done"
    <2>1. MainAccepts(s)
      BY DEF ftp_connect
    <2>2. at \in [Sessions -> Steps] /\ DOMAIN ctrl = Sessions
      BY DEF DInv, SessionInv, TypeOK
    <2> QED
      BY <2>1, <2>2 DEF MainAccepts, Go
  <1>3. commands[s] = <<>> /\ replies[s] = <<>>
    BY <1>1 DEF LockInv, Lockstep
  <1>4. ~Joined(s) /\ Joined(s)' /\ client'[s] # <<"new", "">> /\ client'[s] # Off
    <2>1. <<"login", "greeting">> \in Idling \cup FirstReply \cup Moving
      BY Disjoint
    <2> QED
      BY <1>1, <2>1, DoingsJoined DEF Joined
  <1>5. ASSUME ~ServerGone(s)'
        PROVE  ctrl'[s] = "open" /\ Phase(s)'
    <2>1. at'[s] = "starting" /\ ctrl'[s] = "open"
      BY <1>2, <1>5 DEF ServerGone
    <2> QED
      BY <1>1, <1>3, <2>1 DEF Phase, Greets
  <1>6. Lockstep(s)'
    BY <1>4, <1>5 DEF Lockstep
  <1> QED
    BY <1>1, <1>2, <1>4, <1>6 DEF Kept, Alone, Exchanges

-----------------------------------------------------------------------------
\* The server's steps, as far as the alternation sees them.  A send to a client
\* that is there leaves the connection open.
LEMMA SendResponse ==
  ASSUME DInv, NEW s \in Sessions, send_response(s)
  PROVE  /\ \A t \in Sessions \ {s} : ctrl'[t] = ctrl[t]
         /\ ctrl[s] = "open" => ctrl'[s] = "open"
  BY DEF send_response, AfterSend, DInv, SessionInv, TypeOK

LEMMA GoStep ==
  ASSUME DInv, NEW s \in Sessions, NEW step, Go(s, step)
  PROVE  at'[s] = step /\ \A t \in Sessions \ {s} : at'[t] = at[t]
  BY DEF Go, DInv, SessionInv, TypeOK

Final == Codes \ {150}

\* A command that is not the start of a transfer is answered once; a transfer
\* goes on to accept, without a reply yet.
LEMMA HandlesEffect ==
  ASSUME DInv, NEW s \in Sessions, NEW r \in Replies, NEW cmd,
         Handles(s, cmd, r)
  PROVE  /\ process = "running" /\ process' = process /\ at[s] = "loop"
         /\ \A t \in Sessions \ {s} : at'[t] = at[t] /\ ctrl'[t] = ctrl[t]
         /\ \/ /\ r = <<>> /\ at'[s] \in Accepting /\ ctrl' = ctrl
               /\ cmd.name \in {"LIST", "RETR", "STOR"}
            \/ /\ \E code \in Final : r = <<code>>
               /\ \/ at'[s] = "done"
                  \/ at'[s] = "loop" /\ (ctrl[s] = "open" => ctrl'[s] = "open")
  <1>1. CASE \/ handle_USER(s, cmd.arg, r) \/ handle_PASS(s, cmd.arg, r)
             \/ handle_PWD(s, r) \/ handle_CWD(s, cmd.arg, r)
    <2>1. /\ process = "running" /\ process' = process /\ at[s] = "loop"
          /\ at' = at /\ send_response(s)
      BY <1>1 DEF handle_USER, handle_PASS, handle_PWD, handle_CWD, Receives
    <2>2. r \in {<<331>>, <<230>>, <<530>>, <<257>>, <<250>>, <<550>>}
      BY <1>1 DEF handle_USER, handle_PASS, handle_PWD, handle_CWD
    <2>3. \E code \in Final : r = <<code>>
      BY <2>2 DEF Final, Codes
    <2> QED
      BY <2>1, <2>3, SendResponse
  <1>2. CASE handle_PASV(s, r)
    <2>1. /\ process = "running" /\ process' = process /\ at[s] = "loop"
          /\ at' = at /\ send_response(s)
      BY <1>2 DEF handle_PASV, Receives
    <2>2. r \in {<<530>>, <<425>>, <<227>>}
      BY <1>2 DEF handle_PASV
    <2>3. \E code \in Final : r = <<code>>
      BY <2>2 DEF Final, Codes
    <2> QED
      BY <2>1, <2>3, SendResponse
  <1>3. CASE /\ cmd.name \in {"LIST", "RETR", "STOR"}
             /\ handle_LIST(s, r) \/ handle_RETR(s, r) \/ handle_STOR(s, r)
    <2>1. CASE \E step \in Accepting : BeginsTransfer(s, step, r)
      <3>1. PICK step \in Accepting : BeginsTransfer(s, step, r)
        BY <2>1
      <3>2. /\ process = "running" /\ process' = process /\ at[s] = "loop"
            /\ r = <<>> /\ Go(s, step) /\ ctrl' = ctrl
        BY <3>1 DEF BeginsTransfer, Receives
      <3> QED
        BY <1>3, <3>2, GoStep
    <2>2. CASE ~\E step \in Accepting : BeginsTransfer(s, step, r)
      <3>1. \/ RefusesTransfer(s, r)
            \/ /\ Receives(s) /\ r = <<550>> /\ send_response(s)
               /\ process' = process /\ at' = at
        BY <1>3, <2>2 DEF handle_LIST, handle_RETR, handle_STOR, Accepting
      <3>2. /\ process = "running" /\ process' = process /\ at[s] = "loop"
            /\ at' = at /\ send_response(s)
        BY <3>1 DEF RefusesTransfer, Receives
      <3>3. r \in {<<530>>, <<425>>, <<550>>}
        BY <3>1 DEF RefusesTransfer
      <3>4. \E code \in Final : r = <<code>>
        BY <3>3 DEF Final, Codes
      <3> QED
        BY <3>2, <3>4, SendResponse
    <2> QED
      BY <2>1, <2>2
  <1>4. CASE handle_QUIT(s, r)
    <2>1. /\ process = "running" /\ process' = process /\ at[s] = "loop"
          /\ r = <<221>> /\ Go(s, "done")
          /\ ctrl' = [ctrl EXCEPT ![s] = "closed"]
      BY <1>4 DEF handle_QUIT, Receives, CleansUp
    <2>2. \A t \in Sessions \ {s} : ctrl'[t] = ctrl[t]
      BY <2>1 DEF DInv, SessionInv, TypeOK
    <2>3. \E code \in Final : r = <<code>>
      BY <2>1 DEF Final, Codes
    <2> QED
      BY <2>1, <2>2, <2>3, GoStep
  <1> QED
    BY <1>1, <1>2, <1>3, <1>4 DEF Handles

\* What the thread does by itself.
LEMMA ProceedsEffect ==
  ASSUME DInv, NEW s \in Sessions, NEW r \in Replies,
         Proceeds(s, r) \/ AcceptFails(s, r)
  PROVE  /\ process = "running" /\ process' = process
         /\ \A t \in Sessions \ {s} : at'[t] = at[t] /\ ctrl'[t] = ctrl[t]
         /\ \/ at[s] = "loop" /\ ctrl[s] # "open" /\ at'[s] = "done" /\ r = <<>>
            \/ /\ at[s] \in Accepting /\ at'[s] \in Transferring /\ r = <<150>>
               /\ ctrl[s] = "open" => ctrl'[s] = "open"
            \/ /\ at[s] \in Transferring /\ r = <<>>
               /\ at' = at /\ ctrl' = ctrl
            \/ /\ at[s] \in {"starting"} \cup Accepting \cup Transferring
               /\ at'[s] = "loop"
               /\ \E code \in Final : r = <<code>>
               /\ ctrl[s] = "open" => ctrl'[s] = "open"
  <1>1. CASE ThreadStarts(s, r)
    <2>1. /\ process = "running" /\ process' = process /\ at[s] = "starting"
          /\ r = <<220>> /\ Go(s, "loop") /\ send_response(s)
      BY <1>1 DEF ThreadStarts
    <2>2. 220 \in Final
      BY DEF Final, Codes
    <2> QED
      BY <2>1, <2>2, GoStep, SendResponse
  <1>2. CASE AcceptLIST(s, r) \/ AcceptRETR(s, r)
    <2>1. /\ process = "running" /\ process' = process /\ at[s] \in Accepting
          /\ r = <<150>> /\ send_response(s)
          /\ Go(s, "LIST_send") \/ Go(s, "RETR_send")
      BY <1>2 DEF AcceptLIST, AcceptRETR, Accepting
    <2>2. at'[s] \in Transferring /\ \A t \in Sessions \ {s} : at'[t] = at[t]
      BY <2>1, GoStep DEF Transferring
    <2> QED
      BY <2>1, <2>2, SendResponse
  <1>3. CASE AcceptSTOR(s, r)
    <2>1. /\ process = "running" /\ process' = process /\ at[s] \in Accepting
          /\ send_response(s)
          /\ \/ Go(s, "STOR_recv") /\ r = <<150>>
             \/ Go(s, "loop") /\ r = <<550>>
      BY <1>3 DEF AcceptSTOR, Accepting
    <2>2. 550 \in Final /\ "STOR_recv" \in Transferring
      BY DEF Final, Codes, Transferring
    <2> QED
      BY <2>1, <2>2, GoStep, SendResponse
  <1>4. CASE SendRETR(s) /\ r = <<>>
    <2>1. at[s] = "RETR_send" /\ "RETR_send" \in Transferring
      BY <1>4 DEF SendRETR, Transferring
    <2> QED
      BY <1>4, <2>1 DEF SendRETR
  <1>5. CASE ListFails(s, r) \/ SendLIST(s, r) \/ FinishRETR(s, r) \/ FinishSTOR(s, r)
    <2>1. /\ process = "running" /\ process' = process
          /\ r \in {<<550>>, <<226>>} /\ send_response(s) /\ Go(s, "loop")
          /\ at[s] \in Transferring
      BY <1>5 DEF ListFails, SendLIST, FinishRETR, FinishSTOR, ClosesData, Transferring
    <2>2. \E code \in Final : r = <<code>>
      BY <2>1 DEF Final, Codes
    <2> QED
      BY <2>1, <2>2, GoStep, SendResponse
  <1>6. CASE Disconnect(s) /\ r = <<>>
    <2>1. /\ process = "running" /\ process' = process /\ at[s] = "loop"
          /\ ctrl[s] # "open" /\ Go(s, "done")
          /\ ctrl' = [ctrl EXCEPT ![s] = "closed"]
      BY <1>6 DEF Disconnect, CleansUp
    <2>2. \A t \in Sessions \ {s} : ctrl'[t] = ctrl[t]
      BY <2>1 DEF DInv, SessionInv, TypeOK
    <2> QED
      BY <1>6, <2>1, <2>2, GoStep
  <1>7. CASE AcceptFails(s, r)
    <2>1. /\ process = "running" /\ process' = process /\ at[s] \in Accepting
          /\ r = <<425>> /\ send_response(s) /\ Go(s, "loop")
      BY <1>7 DEF AcceptFails
    <2>2. 425 \in Final
      BY DEF Final, Codes
    <2> QED
      BY <2>1, <2>2, GoStep, SendResponse
  <1> QED
    BY <1>1, <1>2, <1>3, <1>4, <1>5, <1>6, <1>7 DEF Proceeds

\* A reply joins what the client has to read.
LEMMA Answering ==
  ASSUME DInv, DInv', NEW s \in Sessions, NEW r \in Replies, Answers(s, r)
  PROVE  /\ \A t \in Sessions \ {s} : replies'[t] = replies[t]
         /\ r = <<>> \/ client[s] = Off => replies'[s] = replies[s]
         /\ \A code \in Codes : r = <<code>> /\ client[s] # Off =>
              /\ \E m \in Messages(s)' :
                   replies'[s] = Append(replies[s], m) /\ m.code = code
              /\ replies[s] = <<>> =>
                   Len(replies'[s]) = 1 /\ replies'[s][1].code = code
              /\ Len(replies[s]) = 1 =>
                   /\ Len(replies'[s]) = 2
                   /\ replies'[s][1] = replies[s][1] /\ replies'[s][2].code = code
  <1>1. /\ replies[s] \in Seq(Messages(s)) /\ replies'[s] \in Seq(Messages(s)')
        /\ DOMAIN replies = Sessions
    BY DEF DInv, DTypeOK
  <1>2. CASE r = <<>> \/ client[s] = Off
    <2>1. replies' = replies
      BY <1>2 DEF Answers
    <2>2. \A code \in Codes : r = <<code>> => client[s] = Off
      BY <1>2
    <2> QED
      BY <2>1, <2>2
  <1>3. CASE ~(r = <<>> \/ client[s] = Off)
    <2> SUFFICES ASSUME NEW code \in Codes, r = <<code>>
                 PROVE  /\ \A t \in Sessions \ {s} : replies'[t] = replies[t]
                        /\ \E m \in Messages(s)' :
                             replies'[s] = Append(replies[s], m) /\ m.code = code
                        /\ replies[s] = <<>> =>
                             Len(replies'[s]) = 1 /\ replies'[s][1].code = code
                        /\ Len(replies[s]) = 1 =>
                             /\ Len(replies'[s]) = 2
                             /\ replies'[s][1] = replies[s][1]
                             /\ replies'[s][2].code = code
      BY <1>3 DEF Replies
    <2> DEFINE m == Reply(s, code)
               n == Len(replies[s])
    <2>1. replies' = [replies EXCEPT ![s] = Append(@, m)]
      BY <1>3 DEF Answers
    <2>2. /\ replies'[s] = Append(replies[s], m)
          /\ \A t \in Sessions \ {s} : replies'[t] = replies[t]
      BY <1>1, <2>1
    <2>3. replies[s] \in Seq(Messages(s) \cup {m})
      BY <1>1, SeqMonotonic
    <2>4. /\ Append(replies[s], m) # <<>> /\ Len(Append(replies[s], m)) = n + 1
          /\ \A i \in 1..n : Append(replies[s], m)[i] = replies[s][i]
          /\ Append(replies[s], m)[n + 1] = m
      BY <2>3, AppendOne
    <2>5. m.code = code
      BY DEF Reply
    <2>6. n \in Nat /\ (replies[s] = <<>> => n = 0)
      BY <1>1, LenZero
    <2>7. m \in Messages(s)'
      <3>1. DOMAIN replies'[s] = 1..Len(replies'[s]) /\ Len(replies'[s]) = n + 1
        BY <1>1, <2>2, <2>4, LenProperties
      <3>2. \A i \in 1..Len(replies'[s]) : replies'[s][i] \in Messages(s)'
        BY <1>1
      <3> QED
        BY <2>2, <2>4, <2>6, <3>1, <3>2
    <2>8. replies[s] = <<>> => Len(replies'[s]) = 1 /\ replies'[s][1].code = code
      BY <2>2, <2>4, <2>5, <2>6
    <2>9. n = 1 => /\ Len(replies'[s]) = 2
                   /\ replies'[s][1] = replies[s][1] /\ replies'[s][2].code = code
      BY <2>2, <2>4, <2>5, <2>6
    <2> QED
      BY <2>2, <2>5, <2>7, <2>8, <2>9
  <1> QED
    BY <1>2, <1>3

\* A step of the server for a client that has gone concerns nobody.
LEMMA UnheardStep ==
  ASSUME NEW s \in Sessions, LockInv, client[s] = Off, client' = client, Alone(s),
         replies'[s] = replies[s]
  PROVE  Kept(s)
  <1>1. /\ Joined(s) = FALSE /\ Joined(s)' = FALSE
        /\ Asked(s) = FALSE /\ Asked(s)' = FALSE
    BY DEF Joined, Asked
  <1>2. replies[s] = <<>> /\ client[s] # <<"new", "">>
    BY DoingsJoined DEF LockInv, Lockstep
  <1>3. Lockstep(s)'
    BY <1>1, <1>2 DEF Lockstep
  <1> QED
    BY <1>1, <1>3 DEF Kept, Exchanges

LEMMA ReadsKeeps ==
  ASSUME ~Coalesces, DInv, DInv', LockInv, NEW s \in Sessions, NEW r \in Replies,
         ServerReads(s, r)
  PROVE  Kept(s) /\ process' = process
  <1> DEFINE cmd == Head(commands[s])
  <1>1. /\ process = "running" /\ process' = process /\ at[s] = "loop"
        /\ \A t \in Sessions \ {s} : at'[t] = at[t] /\ ctrl'[t] = ctrl[t]
        /\ \/ /\ r = <<>> /\ at'[s] \in Accepting /\ ctrl' = ctrl
              /\ cmd.name \in {"LIST", "RETR", "STOR"}
           \/ /\ \E code \in Final : r = <<code>>
              /\ \/ at'[s] = "done"
                 \/ at'[s] = "loop" /\ (ctrl[s] = "open" => ctrl'[s] = "open")
    BY HandlesEffect DEF ServerReads
  <1>2. /\ commands[s] # <<>> /\ client' = client /\ Answers(s, r)
        /\ commands' = [commands EXCEPT ![s] = Drop(@, 1)]
    BY DEF ServerReads, Taken
  <1>3. \A t \in Sessions \ {s} : commands'[t] = commands[t]
    BY <1>2 DEF DInv, DTypeOK
  <1>4. Len(commands[s]) = 1 => commands'[s] = <<>>
    <2>1. commands[s] \in Seq(Commands) /\ commands'[s] = Drop(commands[s], 1)
      BY <1>2 DEF DInv, DTypeOK
    <2>2. /\ Drop(commands[s], 1) \in Seq(Commands)
          /\ Len(Drop(commands[s], 1)) = Len(commands[s]) - 1
      BY <1>2, <2>1, DropOne
    <2> QED
      BY <2>1, <2>2, LenZero
  <1>5. Alone(s)
    BY <1>1, <1>2, <1>3, Answering DEF Alone
  <1>6. client[s] # <<"new", "">>
    BY <1>2 DEF LockInv, Lockstep
  <1>7. CASE client[s] = Off
    BY <1>1, <1>2, <1>5, <1>7, Answering, UnheardStep
  <1>8. CASE client[s] # Off
    <2>1. Joined(s) /\ Joined(s)'
      BY <1>2, <1>6, <1>8 DEF Joined
    <2>2. ~ServerGone(s)
      BY <1>1 DEF ServerGone
    <2>3. ctrl[s] = "open" /\ Phase(s)
      BY <2>1, <2>2 DEF LockInv, Lockstep
    <2>4. Asks(s)
      BY <1>2, <2>3 DEF Phase, Rests, Greets, Answered, Opens, Begun, Over, Moves
    <2>5. commands'[s] = <<>> /\ replies[s] = <<>> /\ Asked(s)
      BY <1>2, <1>4, <2>1, <2>4 DEF Asks, Asked
    <2>6. CASE r = <<>>
      <3>1. /\ at'[s] \in Accepting /\ ctrl' = ctrl
            /\ cmd.name \in {"LIST", "RETR", "STOR"}
        BY <1>1, <2>6
      <3>2. replies'[s] = replies[s]
        BY <1>2, <2>6, Answering
      <3>3. Opens(s)'
        BY <1>2, <2>4, <2>5, <3>1, <3>2 DEF Asks, Opens
      <3>4. Asked(s)'
        BY <2>1, <3>1 DEF Asked
      <3>5. Exchanges(s)
        BY <2>1, <2>5, <3>2, <3>4 DEF Exchanges
      <3>6. Lockstep(s)'
        BY <1>2, <1>6, <1>8, <2>3, <3>1, <3>3 DEF Lockstep, Phase
      <3> QED
        BY <1>1, <1>5, <3>5, <3>6 DEF Kept
    <2>7. CASE r # <<>>
      <3>1. PICK code \in Final : r = <<code>>
        BY <1>1, <2>7
      <3>2. code \in Codes /\ code # 150
        BY DEF Final
      <3>3. /\ \E m \in Messages(s)' :
                 replies'[s] = Append(replies[s], m) /\ m.code = code
            /\ Len(replies'[s]) = 1 /\ replies'[s][1].code = code
        BY <1>2, <1>8, <2>5, <3>1, <3>2, Answering
      <3>4. /\ at'[s] \in {"loop", "done"}
            /\ at'[s] = "loop" => ctrl'[s] = "open"
        BY <1>1, <2>3, <2>7
      <3>5. Asked(s)' = FALSE
        BY <2>5, <3>4 DEF Asked, Accepting, Transferring
      <3>6. Exchanges(s)
        BY <2>1, <2>5, <3>2, <3>3, <3>5 DEF Exchanges, Sends
      <3>7. ~ServerGone(s)' => ctrl'[s] = "open" /\ Answered(s)'
        BY <1>2, <2>4, <2>5, <3>2, <3>3, <3>4 DEF ServerGone, Answered, Asks
      <3>8. Lockstep(s)'
        BY <1>2, <1>6, <1>8, <3>7 DEF Lockstep, Phase
      <3> QED
        BY <1>1, <1>5, <3>6, <3>8 DEF Kept
    <2> QED
      BY <2>6, <2>7
  <1> QED
    BY <1>7, <1>8

LEMMA ProceedsKeeps ==
  ASSUME DInv, DInv', LockInv, NEW s \in Sessions, NEW r \in Replies,
         ServerProceeds(s, r) \/ ServerAcceptFails(s, r)
  PROVE  Kept(s) /\ process' = process
  <1>1. /\ Proceeds(s, r) \/ AcceptFails(s, r)
        /\ client' = client /\ commands' = commands /\ Answers(s, r)
    BY DEF ServerProceeds, ServerAcceptFails
  <1>2. /\ process = "running" /\ process' = process
        /\ \A t \in Sessions \ {s} : at'[t] = at[t] /\ ctrl'[t] = ctrl[t]
    BY <1>1, ProceedsEffect
  <1>3. Alone(s)
    BY <1>1, <1>2, Answering DEF Alone
  <1>4. at[s] # "none" /\ at[s] # "done"
    BY <1>1, ProceedsEffect DEF Accepting, Transferring
  <1>5. client[s] # <<"new", "">>
    BY <1>4 DEF LockInv, Lockstep
  <1>6. CASE client[s] = Off
    BY <1>1, <1>2, <1>3, <1>6, Answering, UnheardStep
  <1>7. CASE client[s] # Off
    <2>1. Joined(s) /\ Joined(s)'
      BY <1>1, <1>5, <1>7 DEF Joined
    <2>2. ~ServerGone(s)
      BY <1>2, <1>4 DEF ServerGone
    <2>3. ctrl[s] = "open" /\ Phase(s)
      BY <2>1, <2>2 DEF LockInv, Lockstep
    <2>4. CASE at[s] \in Accepting /\ at'[s] \in Transferring /\ r = <<150>>
      <3>1. ctrl'[s] = "open"
        BY <1>1, <2>3, <2>4, ProceedsEffect DEF Accepting, Transferring
      <3>2. Opens(s)
        BY <2>3, <2>4
        DEF Phase, Rests, Greets, Asks, Answered, Begun, Over, Moves, Accepting, Transferring
      <3>3. 150 \in Codes
        BY DEF Codes
      <3>4. /\ \E m \in Messages(s)' :
                 replies'[s] = Append(replies[s], m) /\ m.code = 150
            /\ Len(replies'[s]) = 1 /\ replies'[s][1].code = 150
        BY <1>1, <1>7, <2>4, <3>2, <3>3, Answering DEF Opens
      <3>5. Asked(s) = TRUE /\ Asked(s)' = TRUE
        BY <2>1, <2>4 DEF Asked
      <3>6. Exchanges(s)
        BY <2>1, <3>2, <3>4, <3>5 DEF Exchanges, Sends, Opens
      <3>7. Begun(s)'
        BY <1>1, <2>4, <3>2, <3>4 DEF Begun, Opens
      <3>8. Lockstep(s)'
        BY <1>1, <1>5, <1>7, <3>1, <3>7 DEF Lockstep, Phase
      <3> QED
        BY <1>2, <1>3, <3>6, <3>8 DEF Kept
    <2>5. CASE at[s] \in Transferring /\ r = <<>> /\ at' = at /\ ctrl' = ctrl
      <3>1. replies'[s] = replies[s]
        BY <1>1, <2>5, Answering
      <3>2. Phase(s)' = Phase(s)
        BY <1>1, <2>5, <3>1
        DEF Phase, Rests, Greets, Asks, Answered, Opens, Begun, Over, Moves
      <3>3. Asked(s)' = Asked(s) /\ Joined(s)' = Joined(s)
        BY <1>1, <2>5 DEF Asked, Joined
      <3>4. Lockstep(s)'
        BY <1>1, <1>5, <1>7, <2>3, <2>5, <3>2 DEF Lockstep
      <3>5. Exchanges(s)
        BY <3>1, <3>3 DEF Exchanges
      <3> QED
        BY <1>2, <1>3, <3>4, <3>5 DEF Kept
    <2>6. CASE /\ at[s] \in {"starting"} \cup Accepting \cup Transferring
               /\ at'[s] = "loop"
               /\ \E code \in Final : r = <<code>>
      <3>1. ctrl'[s] = "open"
        BY <1>1, <2>3, <2>6, ProceedsEffect DEF Accepting, Transferring
      <3>2. PICK code \in Final : r = <<code>>
        BY <2>6
      <3>3. code \in Codes /\ code # 150
        BY DEF Final
      <3>4. at[s] # "loop"
        BY <2>6 DEF Accepting, Transferring
      <3>5. Greets(s) \/ Opens(s) \/ Begun(s) \/ Moves(s)
        BY <2>3, <3>4 DEF Phase, Rests, Asks, Answered, Over
      <3>6. \E m \in Messages(s)' :
              replies'[s] = Append(replies[s], m) /\ m.code = code
        BY <1>1, <1>7, <3>2, <3>3, Answering
      <3>7. Asked(s) = TRUE /\ Asked(s)' = FALSE
        <4>1. commands[s] = <<>>
          BY <3>5 DEF Greets, Opens, Begun, Moves
        <4> QED
          BY <1>1, <2>1, <2>6, <4>1 DEF Asked, Accepting, Transferring
      <3>8. Exchanges(s)
        BY <2>1, <3>3, <3>6, <3>7 DEF Exchanges, Sends
      <3>9. Answered(s)' \/ Over(s)'
        <4>1. CASE Begun(s)
          <5>1. /\ Len(replies'[s]) = 2
                /\ replies'[s][1] = replies[s][1] /\ replies'[s][2].code = code
            BY <1>1, <1>7, <3>2, <3>3, <4>1, Answering DEF Begun
          <5> QED
            BY <1>1, <2>6, <3>3, <4>1, <5>1 DEF Begun, Over
        <4>2. CASE Greets(s) \/ Opens(s) \/ Moves(s)
          <5>1. /\ client[s] \in FirstReply \cup Moving
                /\ commands[s] = <<>> /\ replies[s] = <<>>
            BY <4>2, Disjoint DEF Greets, Opens, Moves, Opening, FirstReply
          <5>2. Len(replies'[s]) = 1 /\ replies'[s][1].code = code
            BY <1>1, <1>7, <3>2, <3>3, <5>1, Answering
          <5> QED
            BY <1>1, <2>6, <3>3, <5>1, <5>2 DEF Answered
        <4> QED
          BY <3>5, <4>1, <4>2
      <3>10. Lockstep(s)'
        BY <1>1, <1>5, <1>7, <3>1, <3>9 DEF Lockstep, Phase
      <3> QED
        BY <1>2, <1>3, <3>8, <3>10 DEF Kept
    <2> QED
      BY <1>1, <2>3, <2>4, <2>5, <2>6, ProceedsEffect
  <1> QED
    BY <1>6, <1>7

\* The client's program, action by action.
LEMMA ClientKeeps ==
  ASSUME ~Coalesces, ~LocalFails, DInv, LockInv, NEW s \in Sessions,
         \/ ClientProcess(s) \/ UserTypes(s) \/ UserLeaves(s) \/ ClientKilled(s)
  PROVE  Kept(s) /\ process' = process
  <1>1. CASE ftp_login_USER(s)
    <2>1. PICK user \in Usernames : ftp_send_command(s, "USER", user)
      BY <1>1 DEF ftp_login_USER
    <2>2. /\ client[s] = <<"login", "greeting">> /\ ftp_recv_response(s)
          /\ client' = [client EXCEPT ![s] = <<"login", "USER">>]
          /\ UNCHANGED vars
      BY <1>1 DEF ftp_login_USER, Does
    <2>3. Kept(s)
      BY <2>1, <2>2, CommandNames, Disjoint, TakesAndSendsStep
    <2> QED
      BY <2>2, <2>3 DEF vars
  <1>2. CASE ftp_login_PASS(s)
    <2>1. PICK password \in Passwords : ftp_send_command(s, "PASS", password)
      BY <1>2 DEF ftp_login_PASS
    <2>2. /\ client[s] = <<"login", "USER">> /\ ftp_recv_response(s)
          /\ client' = [client EXCEPT ![s] = <<"login", "PASS">>]
          /\ UNCHANGED vars
      BY <1>2 DEF ftp_login_PASS, Does
    <2>3. Kept(s)
      BY <2>1, <2>2, CommandNames, Disjoint, TakesAndSendsStep
    <2> QED
      BY <2>2, <2>3 DEF vars
  <1>3. CASE ftp_login_done(s)
    <2>1. /\ client[s] \in FirstReply /\ client[s] \notin Opening
          /\ Prompt \in Idling /\ Prompt \notin Moving
      <3>1. CASE client[s] = <<"login", "USER">>
        BY <3>1, Disjoint
      <3>2. CASE client[s] = <<"login", "PASS">>
        BY <3>2, Disjoint
      <3> QED
        BY <1>3, <3>1, <3>2 DEF ftp_login_done
    <2>2. Kept(s)
      BY <1>3, <2>1, TakesStep DEF ftp_login_done
    <2> QED
      BY <1>3, <2>2 DEF ftp_login_done, vars
  <1>4. CASE TakesLastReply(s)
    <2>1. /\ client[s] \in FirstReply \cup Moving /\ client[s] \notin Opening
          /\ Prompt \in Idling /\ Prompt \notin Moving
      <3>1. CASE client[s] \in Transfers \X {"end"}
        <4>1. PICK task \in Transfers : client[s] = <<task, "end">>
          BY <3>1
        <4> QED
          BY <4>1, Disjoint
      <3>2. CASE client[s] \in {<<"pwd", "reply">>, <<"cd", "reply">>}
        BY <3>2, Disjoint
      <3> QED
        BY <1>4, <3>1, <3>2 DEF TakesLastReply
    <2>2. Kept(s)
      BY <1>4, <2>1, TakesStep DEF TakesLastReply
    <2> QED
      BY <1>4, <2>2 DEF TakesLastReply, vars
  <1>5. CASE \E task \in Transfers : ftp_pasv(s, task)
    <2>1. PICK task \in Transfers : ftp_pasv(s, task)
      BY <1>5
    <2>2. PICK doing \in {Prompt, <<task, "connect">>} :
            client' = [client EXCEPT ![s] = doing]
      BY <2>1 DEF ftp_pasv, Does
    <2>3. /\ client[s] \in FirstReply /\ client[s] \notin Opening
          /\ doing \in Idling /\ doing \notin Moving
      <3>1. client[s] = <<task, "pasv">>
        BY <2>1 DEF ftp_pasv
      <3>2. client[s] \in FirstReply /\ client[s] \notin Opening
        BY <3>1, Disjoint
      <3>3. doing \in Idling
        BY <2>2, Disjoint
      <3>4. doing \notin Moving
        BY <3>3, IdlingApart
      <3> QED
        BY <3>2, <3>3, <3>4
    <2>4. Kept(s)
      BY <2>1, <2>2, <2>3, TakesStep DEF ftp_pasv
    <2> QED
      BY <2>1, <2>4 DEF ftp_pasv, vars
  <1>6. CASE \E task \in Transfers : ConnectsData(s, task)
    <2>1. PICK task \in Transfers : ConnectsData(s, task)
      BY <1>6
    <2>2. /\ client[s] = <<task, "connect">> /\ ftp_send_command(s, Verb(task), "")
          /\ client' = [client EXCEPT ![s] = <<task, "reply">>]
          /\ UNCHANGED <<process, at, ctrl, replies>>
      BY <2>1 DEF ConnectsData, Does
    <2>3. [name |-> Verb(task), arg |-> ""] \in Commands
      BY CommandNames DEF Verb
    <2>4. Kept(s)
      BY <2>2, <2>3, Disjoint, SendsStep
    <2> QED
      BY <2>2, <2>4
  <1>7. CASE \E task \in Transfers : ConnectFails(s, task) \/ FinishesData(s, task)
    <2>1. PICK task \in Transfers : ConnectFails(s, task) \/ FinishesData(s, task)
      BY <1>7
    <2>2. /\ UNCHANGED <<vars, commands, replies>>
          /\ \/ /\ client[s] = <<task, "connect">>
                /\ client' = [client EXCEPT ![s] = Prompt]
             \/ /\ client[s] = <<task, "data">>
                /\ client' = [client EXCEPT ![s] = <<task, "end">>]
      BY <2>1 DEF ConnectFails, FinishesData, Does
    <2>3. Kept(s)
      BY <2>2, MovesStep
    <2> QED
      BY <2>2, <2>3 DEF vars
  <1>8. CASE \E task \in Transfers : BeginsData(s, task)
    <2>1. PICK task \in Transfers : BeginsData(s, task)
      BY <1>8
    <2>2. /\ client[s] = <<task, "reply">> /\ ftp_recv_response(s)
          /\ UNCHANGED <<vars, commands>>
          /\ \/ /\ Response(s).code = 150
                /\ client' = [client EXCEPT ![s] = <<task, "data">>]
             \/ /\ Response(s).code # 150
                /\ client' = [client EXCEPT ![s] = Prompt]
      BY <2>1 DEF BeginsData, Does
    <2>3. CASE /\ Response(s).code = 150
               /\ client' = [client EXCEPT ![s] = <<task, "data">>]
      <3>1. client[s] \in FirstReply /\ client[s] \in Opening
        BY ZenonT(30), <2>2, Disjoint
      <3>2. <<task, "data">> \in Moving /\ <<task, "data">> \notin Idling
        BY Disjoint
      <3>3. Kept(s)
        BY <2>2, <2>3, <3>1, <3>2, TakesStep
      <3> QED
        BY <2>2, <3>3 DEF vars
    <2>4. CASE /\ Response(s).code # 150
               /\ client' = [client EXCEPT ![s] = Prompt]
      <3>1. /\ client[s] \in FirstReply
            /\ Prompt \in Idling /\ Prompt \notin Moving
        BY <2>2, Disjoint
      <3>2. Kept(s)
        BY <2>2, <2>4, <3>1, TakesStep
      <3> QED
        BY <2>2, <3>2 DEF vars
    <2> QED
      BY <2>2, <2>3, <2>4
  <1>9. CASE \/ ftp_login_fails(s) \/ ftp_quit(s) \/ UserLeaves(s) \/ ClientKilled(s)
    <2>1. ftp_disconnect(s) /\ UNCHANGED commands
      BY <1>9 DEF ftp_login_fails, ftp_quit, UserLeaves, ClientKilled
    <2>2. Joined(s)
      <3>1. \/ client[s] \notin {<<"new", "">>, Off}
            \/ client[s] \in {<<"login", "USER">>, <<"login", "PASS">>,
                              <<"quit", "reply">>, Prompt}
        BY <1>9 DEF ftp_login_fails, ftp_quit, UserLeaves, ClientKilled
      <3>2. \/ client[s] \notin {<<"new", "">>, Off}
            \/ client[s] \in Idling \cup FirstReply \cup Moving
        BY <3>1, Disjoint
      <3> QED
        BY <3>2, DoingsJoined DEF Joined
    <2> QED
      BY <2>1, <2>2, HangsUpStep
  <1>10. CASE UserTypes(s)
    <2>1. client[s] = Prompt /\ UNCHANGED <<vars, replies>>
      BY <1>10 DEF UserTypes
    <2>2. UNCHANGED <<process, at, ctrl>> /\ client[s] \in Idling
      BY <2>1, Disjoint DEF vars
    <2>3. CASE \E arg \in CwdArgs : ftp_send_command(s, "CWD", arg) /\ Does(s, "cd", "reply")
      <3>1. PICK arg \in CwdArgs : ftp_send_command(s, "CWD", arg)
        BY <2>3
      <3>2. client' = [client EXCEPT ![s] = <<"cd", "reply">>]
        BY <2>3 DEF Does
      <3>3. /\ [name |-> "CWD", arg |-> arg] \in Commands
            /\ <<"cd", "reply">> \in FirstReply
            /\ "CWD" \notin {"LIST", "RETR", "STOR"}
        BY CommandNames, Disjoint
      <3>4. Kept(s)
        BY <2>2, <2>1, <3>1, <3>2, <3>3, SendsStep
      <3> QED
        BY <2>2, <3>4
    <2>4. CASE \E name \in {"PWD", "PASV", "QUIT"}, doing \in FirstReply :
                 /\ ftp_send_command(s, name, "")
                 /\ client' = [client EXCEPT ![s] = doing]
      <3>1. PICK name \in {"PWD", "PASV", "QUIT"}, doing \in FirstReply :
              /\ ftp_send_command(s, name, "")
              /\ client' = [client EXCEPT ![s] = doing]
        BY <2>4
      <3>2. [name |-> name, arg |-> ""] \in Commands /\ name \notin {"LIST", "RETR", "STOR"}
        BY CommandNames
      <3> QED
        BY <2>1, <2>2, <3>1, <3>2, SendsStep
    <2>5. \/ \E arg \in CwdArgs : ftp_send_command(s, "CWD", arg) /\ Does(s, "cd", "reply")
          \/ \E name \in {"PWD", "PASV", "QUIT"}, doing \in FirstReply :
               /\ ftp_send_command(s, name, "")
               /\ client' = [client EXCEPT ![s] = doing]
      <3>1. CASE ftp_send_command(s, "PWD", "") /\ Does(s, "pwd", "reply")
        BY <3>1, Disjoint DEF Does
      <3>2. CASE ftp_send_command(s, "QUIT", "") /\ Does(s, "quit", "reply")
        BY <3>2, Disjoint DEF Does
      <3>3. CASE /\ ftp_send_command(s, "PASV", "")
                 /\ \E task \in Transfers : Does(s, task, "pasv")
        BY <3>3, Disjoint DEF Does
      <3> QED
        BY <1>10, <3>1, <3>2, <3>3 DEF UserTypes
    <2> QED
      BY <2>3, <2>4, <2>5
  <1> QED
    BY <1>1, <1>2, <1>3, <1>4, <1>5, <1>6, <1>7, <1>8, <1>9, <1>10
    DEF ClientProcess

\* The end of the process or of a data connection is no step of the alternation.
LEMMA ElsewhereStep ==
  ASSUME LockInv, UNCHANGED <<client, commands, replies, at, ctrl>>,
         process = "running" \/ process' = process
  PROVE  LockInv' /\ UNCHANGED (Exchange!evars)
  <1>1. ASSUME NEW s \in Sessions
        PROVE  Lockstep(s)'
    <2>1. Phase(s)' = Phase(s) /\ Joined(s)' = Joined(s)
      BY DEF Phase, Rests, Greets, Asks, Answered, Opens, Begun, Over, Moves, Joined
    <2>2. ServerGone(s) => ServerGone(s)'
      BY DEF ServerGone
    <2> QED
      BY <2>1, <2>2 DEF LockInv, Lockstep
  <1>2. joinedBar' = joinedBar /\ askedBar' = askedBar /\ unreadBar' = unreadBar
    BY DEF joinedBar, askedBar, unreadBar, Joined, Asked
  <1> QED
    BY <1>1, <1>2
    DEF LockInv, Exchange!evars, joinedBar, askedBar, unreadBar, ClassesOf

LEMMA LockNext ==
  ASSUME ~Coalesces, ~LocalFails, DInv, LockInv, [DNext]_dvars
  PROVE  LockInv' /\ [Exchange!ENext]_(Exchange!evars)
  <1>1. DInv'
    BY DialogueStep
  <1>2. ASSUME NEW s \in Sessions, Kept(s), process' = process
        PROVE  LockInv' /\ [Exchange!ENext]_(Exchange!evars)
    <2>1. (Asked(s) => Joined(s)) /\ (Asked(s)' => Joined(s)')
      BY DEF Asked
    <2>2. Alone(s) /\ Lockstep(s)' /\ Exchanges(s)
      BY <1>2 DEF Kept
    <2>3. LockInv'
      BY <1>2, <2>2, LockOthers
    <2>4. [Exchange!ENext]_(Exchange!evars)
      BY <1>1, <2>1, <2>2, ExchangeStep
    <2> QED
      BY <2>3, <2>4
  <1>3. CASE UNCHANGED dvars \/ ServerDies \/ \E s \in Sessions : DataEndArrives(s)
    <2>1. UNCHANGED <<client, commands, replies, at, ctrl>>
      BY <1>3
      DEF dvars, vars, wire, ServerDies, Sigint, SigPipe, OverrunsPath, OverrunsListing,
          Killed, DataEndArrives, ClientEndsData
    <2>2. process = "running" \/ process' = process
      BY <1>3
      DEF dvars, vars, ServerDies, Sigint, SigPipe, OverrunsPath, OverrunsListing, Killed,
          DataEndArrives, ClientEndsData
    <2> QED
      BY <2>1, <2>2, ElsewhereStep
  <1>4. CASE \E s \in Sessions :
               ClientProcess(s) \/ UserTypes(s) \/ UserLeaves(s) \/ ClientKilled(s)
    BY <1>2, <1>4, ClientKeeps
  <1>5. CASE \E s \in Sessions : ftp_connect(s)
    BY <1>2, <1>5, ConnectsStep
  <1>6. CASE \E s \in Sessions, r \in Replies : ServerReads(s, r)
    BY <1>1, <1>2, <1>6, ReadsKeeps
  <1>7. CASE \E s \in Sessions, r \in Replies :
               ServerProceeds(s, r) \/ ServerAcceptFails(s, r)
    BY <1>1, <1>2, <1>7, ProceedsKeeps
  <1> QED
    BY <1>3, <1>4, <1>5, <1>6, <1>7 DEF DNext, ServerThread

LEMMA LockQuiet == DInv /\ LockInv => PromptIsQuiet
  <1> SUFFICES ASSUME LockInv, NEW s \in Sessions, client[s] = Prompt, ~ServerGone(s)
               PROVE  at[s] = "loop" /\ commands[s] = <<>> /\ replies[s] = <<>>
    BY DEF PromptIsQuiet
  <1>1. client[s] \in Idling
    BY Disjoint
  <1>2. Joined(s)
    BY <1>1, DoingsJoined DEF Joined
  <1>3. Phase(s)
    BY <1>2 DEF LockInv, Lockstep
  <1>4. Rests(s)
    BY <1>1, <1>3, IdlingApart, Disjoint
    DEF Phase, Greets, Asks, Answered, Opens, Begun, Over, Moves
  <1> QED
    BY <1>4 DEF Rests

\* For any number of clients: at the prompt everything is answered and read, so
\* that the next reply is that to the next command (ftp_client.c:99), as long as
\* a recv returns one reply and local files open.
THEOREM QuietTheorem ==
  ASSUME ~Coalesces, ~LocalFails
  PROVE  DSpec => []PromptIsQuiet
  <1>1. DInit => DInv /\ LockInv
    BY InitDialogue, InitLock
  <1>2. DInv /\ LockInv /\ [DNext]_dvars => (DInv /\ LockInv)'
    BY DialogueStep, LockNext
  <1> QED
    BY <1>1, <1>2, LockQuiet, PTL DEF DSpec

\* Under the same assumption client and server alternate strictly: the protocol
\* they carry out step by step implements FtpExchange.
THEOREM ExchangeTheorem ==
  ASSUME ~Coalesces, ~LocalFails
  PROVE  DSpec => ExchangeSpec
  <1>1. DInit => DInv /\ LockInv /\ Exchange!EInit
    BY InitDialogue, InitLock, InitExchange
  <1>2. DInv /\ LockInv /\ [DNext]_dvars =>
          (DInv /\ LockInv)' /\ [Exchange!ENext]_(Exchange!evars)
    BY DialogueStep, LockNext
  <1> QED
    BY <1>1, <1>2, PTL DEF DSpec, ExchangeSpec, Exchange!ESpec
-----------------------------------------------------------------------------
(***************************************************************************)
(* Nobody waits for the other: the one wait the phases leave open is that  *)
(* of a server in accept, and a client that has asked for a transfer made  *)
(* its connection, to its own session's listener, before it asked.         *)
(***************************************************************************)
Waiting(s) == client[s] \in Opening /\ replies[s] = <<>> /\ ~ServerGone(s)

ConnectedInv == \A s \in Sessions : Waiting(s) => backlog[s] # <<>>

\* Connections wait at a listener until its own session's thread takes or drops
\* them; the start of a transfer does neither.
LEMMA HandlesBacklog ==
  ASSUME DInv, NEW s \in Sessions, NEW r \in Replies, NEW cmd, Handles(s, cmd, r)
  PROVE  /\ \A t \in Sessions \ {s} : backlog'[t] = backlog[t]
         /\ r = <<>> => backlog' = backlog
  <1>1. backlog' = backlog \/ (backlog' = [backlog EXCEPT ![s] = <<>>] /\ r # <<>>)
    <2>1. CASE \/ handle_USER(s, cmd.arg, r) \/ handle_PASS(s, cmd.arg, r)
               \/ handle_PWD(s, r) \/ handle_CWD(s, cmd.arg, r)
      BY <2>1 DEF handle_USER, handle_PASS, handle_PWD, handle_CWD, passive
    <2>2. CASE handle_PASV(s, r)
      <3>1. CASE UNCHANGED passive
        BY <3>1 DEF passive
      <3>2. CASE (ClosesListener(s) /\ r = <<425>>) \/ (OpensListener(s) /\ r = <<227>>)
        <4>1. backlog' = [backlog EXCEPT ![s] = <<>>]
          BY <3>2 DEF ClosesListener, OpensListener
        <4>2. r # <<>>
          BY <3>2
        <4> QED
          BY <4>1, <4>2
      <3> QED
        BY <2>2, <3>1, <3>2 DEF handle_PASV
    <2>3. CASE handle_LIST(s, r) \/ handle_RETR(s, r) \/ handle_STOR(s, r)
      <3>1. CASE RefusesTransfer(s, r)
        BY <3>1 DEF RefusesTransfer, passive
      <3>2. CASE \E step : BeginsTransfer(s, step, r)
        BY <3>2 DEF BeginsTransfer, passive
      <3>3. CASE UNCHANGED passive
        BY <3>3 DEF passive
      <3> QED
        BY <2>3, <3>1, <3>2, <3>3 DEF handle_LIST, handle_RETR, handle_STOR
    <2>4. CASE handle_QUIT(s, r)
      BY <2>4 DEF handle_QUIT, CleansUp
    <2> QED
      BY <2>1, <2>2, <2>3, <2>4 DEF Handles
  <1> QED
    BY <1>1 DEF DInv, SessionInv, TypeOK

LEMMA ProceedsBacklog ==
  ASSUME DInv, NEW s \in Sessions, NEW r \in Replies,
         Proceeds(s, r) \/ AcceptFails(s, r)
  PROVE  /\ \A t \in Sessions \ {s} : backlog'[t] = backlog[t]
         /\ r = <<>> => backlog' = backlog \/ at'[s] = "done"
  <1>1. CASE Disconnect(s) /\ r = <<>>
    <2>1. Go(s, "done") /\ backlog' = [backlog EXCEPT ![s] = <<>>]
      BY <1>1 DEF Disconnect, CleansUp
    <2>2. at'[s] = "done"
      BY <2>1, GoStep
    <2> QED
      BY <2>1, <2>2 DEF DInv, SessionInv, TypeOK
  <1>2. CASE ~(Disconnect(s) /\ r = <<>>)
    <2>1. backlog' = backlog \/ (backlog' = [backlog EXCEPT ![s] = <<>>] /\ r # <<>>)
      <3>1. CASE ThreadStarts(s, r)
        BY <3>1 DEF ThreadStarts
      <3>2. CASE AcceptLIST(s, r) \/ AcceptRETR(s, r)
        <4>1. r = <<150>> /\ backlog' = [backlog EXCEPT ![s] = <<>>]
          BY <3>2 DEF AcceptLIST, AcceptRETR, AcceptsData, ClosesListener
        <4>2. r # <<>>
          BY <4>1
        <4> QED
          BY <4>1, <4>2
      <3>3. CASE AcceptSTOR(s, r)
        <4>1. r \in {<<150>>, <<550>>} /\ backlog' = [backlog EXCEPT ![s] = <<>>]
          BY <3>3 DEF AcceptSTOR, AcceptsData, ClosesListener
        <4>2. r # <<>>
          BY <4>1
        <4> QED
          BY <4>1, <4>2
      <3>4. CASE AcceptFails(s, r)
        <4>1. r = <<425>> /\ backlog' = [backlog EXCEPT ![s] = <<>>]
          BY <3>4 DEF AcceptFails, ClosesListener
        <4>2. r # <<>>
          BY <4>1
        <4> QED
          BY <4>1, <4>2
      <3>5. CASE \/ ListFails(s, r) \/ SendLIST(s, r) \/ SendRETR(s)
                 \/ FinishRETR(s, r) \/ FinishSTOR(s, r)
        BY <3>5 DEF ListFails, SendLIST, SendRETR, FinishRETR, FinishSTOR, passive
      <3> QED
        BY <1>2, <3>1, <3>2, <3>3, <3>4, <3>5 DEF Proceeds
    <2> QED
      BY <2>1 DEF DInv, SessionInv, TypeOK
  <1> QED
    BY <1>1, <1>2 DEF Proceeds

\* A step of one session, its client's or its thread's, is judged there.
LEMMA ConnectedOthers ==
  ASSUME ConnectedInv, NEW s \in Sessions, Alone(s), process' = process,
         \A t \in Sessions \ {s} : backlog[t] # <<>> => backlog'[t] # <<>>,
         Waiting(s)' => backlog'[s] # <<>>
  PROVE  ConnectedInv'
  <1>1. ASSUME NEW t \in Sessions \ {s}, Waiting(t)'
        PROVE  Waiting(t)
    BY <1>1 DEF Alone, Waiting, ServerGone
  <1> QED
    BY <1>1 DEF ConnectedInv

\* A reply under way, or a client that has left, waits for nothing.
LEMMA AnsweredIsNotWaiting ==
  ASSUME DInv, DInv', NEW s \in Sessions, NEW code \in Codes,
         Answers(s, <<code>>), client' = client
  PROVE  ~Waiting(s)'
  <1>1. CASE client[s] = Off
    <2>1. client[s] \notin Opening
      BY <1>1, DoingsJoined DEF FirstReply, Opening
    <2> QED
      BY <2>1 DEF Waiting
  <1>2. CASE client[s] # Off
    <2>1. PICK m \in Messages(s)' : replies'[s] = Append(replies[s], m)
      BY <1>2, Answering DEF Replies
    <2>2. replies[s] \in Seq(Messages(s)) /\ replies[s] \in Seq(Messages(s) \cup {m})
      BY SeqMonotonic DEF DInv, DTypeOK
    <2>3. replies'[s] # <<>>
      <3>1. m \in Messages(s) \cup {m}
        OBVIOUS
      <3>2. Append(replies[s], m) # <<>>
        BY <2>2, <3>1, AppendOne
      <3> QED
        BY <2>1, <3>2
    <2> QED
      BY <2>3 DEF Waiting
  <1> QED
    BY <1>1, <1>2

\* Only connecting leads to a client that waits for the reply to a transfer.
LEMMA ConnectedClient ==
  ASSUME ~Coalesces, ~LocalFails, DInv, LockInv, ConnectedInv, NEW s \in Sessions,
         \/ ClientProcess(s) \/ UserTypes(s) \/ UserLeaves(s) \/ ClientKilled(s),
         ~\E task \in Transfers : ConnectsData(s, task)
  PROVE  ConnectedInv'
  <1>1. Kept(s) /\ process' = process
    BY ClientKeeps
  <1>2. backlog' = backlog
    <2>1. CASE UNCHANGED vars
      BY <2>1 DEF vars, passive
    <2>2. CASE ftp_disconnect(s)
      BY <2>2 DEF ftp_disconnect, ClientCloses, vars, passive
    <2> QED
      BY <2>1, <2>2
      DEF ClientProcess, UserTypes, UserLeaves, ClientKilled, ftp_login_USER,
          ftp_login_PASS, ftp_login_done, ftp_login_fails, TakesLastReply, ftp_quit,
          ftp_pasv, ConnectFails, BeginsData, FinishesData
  <1>3. client'[s] \notin Opening
    <2>1. \E doing \in Doings \ Opening : client' = [client EXCEPT ![s] = doing]
      <3>1. CASE ftp_login_USER(s) \/ ftp_login_PASS(s) \/ ftp_login_done(s) \/ TakesLastReply(s)
        BY <3>1, Disjoint, DoingsNamed
        DEF ftp_login_USER, ftp_login_PASS, ftp_login_done, TakesLastReply, Does
      <3>2. CASE ftp_login_fails(s) \/ ftp_quit(s) \/ UserLeaves(s) \/ ClientKilled(s)
        <4>1. Off \notin Opening
          BY DoingsJoined DEF FirstReply, Opening
        <4> QED
          BY <3>2, <4>1, DoingsNamed
          DEF ftp_login_fails, ftp_quit, UserLeaves, ClientKilled, ftp_disconnect
      <3>3. CASE UserTypes(s)
        BY <3>3, Disjoint, DoingsNamed DEF UserTypes, Does
      <3>4. CASE \E task \in Transfers :
                   \/ ftp_pasv(s, task) \/ ConnectFails(s, task)
                   \/ BeginsData(s, task) \/ FinishesData(s, task)
        BY <3>4, Disjoint, DoingsNamed
        DEF ftp_pasv, ConnectFails, BeginsData, FinishesData, Does
      <3> QED
        BY <3>1, <3>2, <3>3, <3>4 DEF ClientProcess
    <2> QED
      BY <2>1 DEF DInv, DTypeOK
  <1>4. ~Waiting(s)'
    BY <1>3 DEF Waiting
  <1> QED
    BY <1>1, <1>2, <1>4, ConnectedOthers DEF Kept

\* The port of the 227 is one of the session's own, and so is its listener.
LEMMA ConnectedConnects ==
  ASSUME EnoughPorts, ~Coalesces, ~LocalFails, DInv, PortInv, LockInv, ConnectedInv,
         NEW s \in Sessions, NEW task \in Transfers, ConnectsData(s, task)
  PROVE  ConnectedInv'
  <1>1. Kept(s) /\ process' = process
    BY ClientKeeps DEF ClientProcess
  <1>2. PICK t \in Sessions :
          /\ pasv_listen_socket[t] = data_port[s]
          /\ backlog' = [backlog EXCEPT ![t] = Append(@, s)]
    BY DEF ConnectsData
  <1>3. data_port[s] # NoPort
    <2>1. pasv_listen_socket[t] \in Ports \cup {NoSocket}
      BY DEF DInv, SessionInv, TypeOK
    <2>2. NoPort \notin Ports \cup {NoSocket}
      BY PortAssumption DEF NoPort, NoSocket, Ports
    <2> QED
      BY <1>2, <2>1, <2>2
  <1>4. pasv_listen_socket[t] \in announced[s]
    BY <1>2, <1>3 DEF DInv, DTypeOK
  <1>5. t = s
    BY <1>4, ConnectsToOwn DEF DInv
  <1>6. backlog[s] \in Seq(Sessions) /\ DOMAIN backlog = Sessions
    BY DEF DInv, SessionInv, TypeOK
  <1>7. backlog'[s] # <<>> /\ \A u \in Sessions \ {s} : backlog'[u] = backlog[u]
    <2>1. Append(backlog[s], s) # <<>>
      BY <1>6, AppendOne
    <2> QED
      BY <1>2, <1>5, <1>6, <2>1
  <1> QED
    BY <1>1, <1>7, ConnectedOthers DEF Kept

LEMMA ConnectedServer ==
  ASSUME ~Coalesces, ~LocalFails, DInv, DInv', LockInv, ConnectedInv,
         NEW s \in Sessions, NEW r \in Replies,
         ServerReads(s, r) \/ ServerProceeds(s, r) \/ ServerAcceptFails(s, r)
  PROVE  ConnectedInv'
  <1>1. Kept(s) /\ process' = process
    BY ReadsKeeps, ProceedsKeeps
  <1>2. Answers(s, r) /\ client' = client
    BY DEF ServerReads, ServerProceeds, ServerAcceptFails
  <1>3. process = "running" /\ at[s] # "done"
    BY HandlesEffect, ProceedsEffect
    DEF ServerReads, ServerProceeds, ServerAcceptFails, Accepting, Transferring
  <1>4. /\ \A t \in Sessions \ {s} : backlog'[t] = backlog[t]
        /\ r = <<>> => backlog' = backlog \/ at'[s] = "done"
    BY HandlesBacklog, ProceedsBacklog
    DEF ServerReads, ServerProceeds, ServerAcceptFails
  <1>5. ASSUME Waiting(s)'
        PROVE  backlog'[s] # <<>>
    <2>1. r = <<>>
      BY <1>2, <1>5, AnsweredIsNotWaiting DEF Replies
    <2>2. replies' = replies /\ at'[s] # "done"
      BY <1>2, <1>5, <2>1 DEF Answers, Waiting, ServerGone
    <2>3. Waiting(s)
      BY <1>2, <1>3, <1>5, <2>2 DEF Waiting, ServerGone
    <2> QED
      BY <1>4, <2>1, <2>2, <2>3 DEF ConnectedInv
  <1> QED
    BY <1>1, <1>4, <1>5, ConnectedOthers DEF Kept

LEMMA ConnectedNext ==
  ASSUME EnoughPorts, ~Coalesces, ~LocalFails,
         DInv, PortInv, LockInv, ConnectedInv, [DNext]_dvars
  PROVE  ConnectedInv'
  <1>1. DInv'
    BY DialogueStep
  <1>2. CASE UNCHANGED dvars \/ ServerDies \/ \E s \in Sessions : DataEndArrives(s)
    <2>1. UNCHANGED <<client, replies, at, backlog>>
      BY <1>2
      DEF dvars, vars, passive, wire, ServerDies, Sigint, SigPipe, OverrunsPath,
          OverrunsListing, Killed, DataEndArrives, ClientEndsData
    <2>2. process = "running" \/ process' = process
      BY <1>2
      DEF dvars, vars, ServerDies, Sigint, SigPipe, OverrunsPath, OverrunsListing, Killed,
          DataEndArrives, ClientEndsData
    <2> QED
      BY <2>1, <2>2 DEF ConnectedInv, Waiting, ServerGone
  <1>3. CASE \E s \in Sessions :
               ClientProcess(s) \/ UserTypes(s) \/ UserLeaves(s) \/ ClientKilled(s)
    BY <1>3, ConnectedClient, ConnectedConnects
  <1>4. ASSUME NEW s \in Sessions, ftp_connect(s)
        PROVE  ConnectedInv'
    <2>1. Kept(s) /\ process' = process
      BY <1>4, ConnectsStep
    <2>2. client'[s] = <<"login", "greeting">> /\ backlog' = backlog
      BY <1>4 DEF DInv, DTypeOK, ftp_connect, Does, MainAccepts, passive
    <2>3. ~Waiting(s)'
      BY <2>2, Disjoint DEF Waiting
    <2> QED
      BY <2>1, <2>2, <2>3, ConnectedOthers DEF Kept
  <1>5. CASE \E s \in Sessions, r \in Replies :
               ServerReads(s, r) \/ ServerProceeds(s, r) \/ ServerAcceptFails(s, r)
    BY <1>1, <1>5, ConnectedServer
  <1> QED
    BY <1>2, <1>3, <1>4, <1>5 DEF DNext, ServerThread

LEMMA ConnectedInit == DInit => ConnectedInv
  <1> SUFFICES ASSUME DInit, NEW s \in Sessions PROVE ~Waiting(s)
    BY DEF ConnectedInv
  <1>1. client[s] = <<"new", "">>
    BY DEF DInit
  <1> QED
    BY <1>1, DoingsJoined DEF Waiting, FirstReply, Opening

LEMMA NobodyWaits ==
  DInv /\ LockInv /\ ConnectedInv => NoMutualWait
  <1> SUFFICES ASSUME DInv, LockInv, ConnectedInv, NEW s \in Sessions,
                      process = "running", ClientWaits(s), ServerWaits(s)
               PROVE  FALSE
    BY DEF NoMutualWait
  <1>1. at[s] = "loop" \/ at[s] \in Accepting
    BY DEF ServerWaits
  <1>2. ~ServerGone(s)
    BY <1>1 DEF ServerGone, Accepting
  <1>3. client[s] \notin Idling /\ Joined(s) /\ replies[s] = <<>>
    <2>1. client[s][2] \notin {"", "connect"} /\ replies[s] = <<>>
      BY DEF ClientWaits
    <2>2. \A doing \in Idling \cup {<<"new", "">>, Off} : doing[2] \in {"", "connect"}
      <3>1. /\ Prompt[2] = "" /\ Off[2] = "" /\ <<"new", "">>[2] = ""
            /\ \A doing \in Transfers \X {"connect"} : doing[2] = "connect"
        BY DEF Prompt, Off
      <3> QED
        BY <3>1 DEF Idling
    <2> QED
      BY <2>1, <2>2 DEF Joined
  <1>4. Phase(s)
    BY <1>2, <1>3 DEF LockInv, Lockstep
  <1>5. ~Rests(s) /\ ~Greets(s) /\ ~Answered(s) /\ ~Begun(s) /\ ~Over(s) /\ ~Moves(s)
    BY <1>1, <1>3, LenZero
    DEF Rests, Greets, Answered, Begun, Over, Moves, Accepting, Transferring
  <1>6. ~Asks(s)
    BY <1>1, LenZero DEF Asks, ServerWaits, Accepting, DInv, DTypeOK
  <1>7. Opens(s)
    BY <1>4, <1>5, <1>6 DEF Phase
  <1>8. backlog[s] # <<>>
    BY <1>2, <1>7 DEF Opens, ConnectedInv, Waiting
  <1> QED
    BY <1>7, <1>8 DEF Opens, ServerWaits, Accepting

\* For any number of clients: the client never waits for a reply while its
\* server thread waits for a command or for its data connection (ftp_client.c:308),
\* as long as a recv returns one reply, local files open and there are ports enough.
THEOREM NoMutualWaitTheorem ==
  ASSUME EnoughPorts, ~Coalesces, ~LocalFails
  PROVE  DSpec => []NoMutualWait
  <1>1. DInit => DInv /\ LockInv /\ ConnectedInv
    BY InitDialogue, InitLock, ConnectedInit
  <1>2. DInv /\ PortInv /\ LockInv /\ ConnectedInv /\ [DNext]_dvars =>
          (DInv /\ LockInv /\ ConnectedInv)'
    BY DialogueStep, LockNext, ConnectedNext
  <1>3. DSpec => []PortInv
    BY ImplementsServer, PortTheorem, PTL DEF ServerSpec
  <1> QED
    BY <1>1, <1>2, <1>3, NobodyWaits, PTL DEF DSpec
=============================================================================
