-------------------------- MODULE FtpServer_proofs --------------------------
(***************************************************************************)
(* Theorems about FtpServer, for every set of sessions, account table,     *)
(* file system and range of ports; and about FtpPorts, as long as there *)
(* are enough ports (EnoughPorts).                                         *)
(***************************************************************************)
EXTENDS FtpPorts, FiniteSetTheorems, SequenceTheorems, TLAPS

\* What a client computes from the two bytes of a 227 reply is the port.
LEMMA AnnouncedIsPort ==
  ASSUME NEW port \in Nat, port < 65536
  PROVE  Announced(port) = port
  <1>1. port = 256 * (port \div 256) + (port % 256)
    BY SMT
  <1>2. port \div 256 >= 0
    BY SMT
  <1>3. port \div 256 <= 255
    BY SMT
  <1>4. ASSUME NEW high \in Int, high >= 0, high <= 255
        PROVE  high % 256 = high
    BY <1>4, SMT
  <1>5. (port \div 256) % 256 = port \div 256
    BY <1>2, <1>3, <1>4
  <1> QED
    BY <1>1, <1>5 DEF Announced, P1, P2

LEMMA NextCounterRange ==
  \A start \in PortLo..CounterHi : NextCounter(start) \in PortLo..CounterHi
  BY PortAssumption DEF NextCounter

LEMMA NextPortRange == \A port \in Ports : NextPort(port) \in Ports
  BY PortAssumption DEF NextPort, Ports

LEMMA StepNames ==
  /\ {"none", "starting", "loop", "done"} \subseteq Steps
  /\ Accepting \subseteq Steps
  /\ Transferring \subseteq Steps
  BY DEF Steps

\* The root is a directory, and so is what is left of a path to a directory when
\* its last name is cut.
LEMMA RootIsDirectory ==
  ASSUME NEW root \in Directories
  PROVE  IsDirectory(root, <<>>)
  <1> DEFINE walk == [i \in 0..0 |-> root]
  <1>1. walk \in [0..Len(<<>>) -> Directories] /\ walk[0] = root /\ 1..Len(<<>>) = {}
    OBVIOUS
  <1> QED
    BY <1>1 DEF IsDirectory

LEMMA ParentPath ==
  <<>> \in Paths /\ \A path \in Paths : Parent(path) \in Paths
  <1>1. <<>> \in Paths
    BY BoundAssumption, EmptySeq DEF Paths, Fits
  <1>2. ASSUME NEW path \in Paths, path # <<>>
        PROVE  Parent(path) \in Paths
    <2> DEFINE n == Len(path) - 1
    <2>1. path \in Seq(STRING) /\ n \in Nat /\ Len(path) = n + 1 /\ n + 1 <= MaxNames
      BY <1>2 DEF Paths, Fits
    <2>2. Parent(path) = SubSeq(path, 1, n)
      BY <1>2 DEF Parent
    <2> HIDE DEF n
    <2>3. \A i \in 1..n : path[i] \in STRING
      BY <2>1, ElementOfSeq
    <2>4. SubSeq(path, 1, n) \in Seq(STRING) /\ Len(SubSeq(path, 1, n)) = n
      BY <2>1, <2>3, SubSeqProperties
    <2> QED
      BY <2>1, <2>2, <2>4, BoundAssumption DEF Paths, Fits
  <1> QED
    BY <1>1, <1>2 DEF Parent

LEMMA ParentIsDirectory ==
  ASSUME NEW root \in Directories, NEW path \in Paths, IsDirectory(root, path)
  PROVE  IsDirectory(root, Parent(path))
  <1>1. CASE path = <<>>
    BY <1>1 DEF Parent
  <1>2. CASE path # <<>>
    <2> DEFINE n == Len(path) - 1
               up == Parent(path)
    <2>1. path \in Seq(STRING) /\ n \in Nat /\ Len(path) = n + 1
      BY <1>2 DEF Paths
    <2>2. up = SubSeq(path, 1, n) /\ Len(up) = n /\ \A i \in 1..n : up[i] = path[i]
      BY <1>2, <2>1 DEF Parent
    <2>3. PICK walk \in [0..Len(path) -> Directories] :
            /\ walk[0] = root
            /\ \A i \in 1..Len(path) :
                 /\ path[i] \in DOMAIN Entries[walk[i - 1]]
                 /\ walk[i] = Entries[walk[i - 1]][path[i]]
      BY DEF IsDirectory
    <2> HIDE DEF n, up
    <2> DEFINE short == [i \in 0..n |-> walk[i]]
    <2>4. short \in [0..Len(up) -> Directories] /\ short[0] = root
      BY <2>1, <2>2, <2>3
    <2>5. ASSUME NEW i \in 1..Len(up)
          PROVE  /\ up[i] \in DOMAIN Entries[short[i - 1]]
                 /\ short[i] = Entries[short[i - 1]][up[i]]
      <3>1. i \in 1..n /\ i \in 1..Len(path) /\ i - 1 \in 0..n /\ i \in 0..n
        BY <2>1, <2>2
      <3> QED
        BY <2>2, <2>3, <3>1
    <2> HIDE DEF short
    <2>6. IsDirectory(root, up)
      BY <2>4, <2>5 DEF IsDirectory
    <2> QED
      BY <2>6 DEF up
  <1> QED
    BY <1>1, <1>2

LEMMA NewPathIsPath ==
  ASSUME TypeOK, NEW s \in Sessions, NEW arg \in CwdArgs, Fits(NewPath(s, arg))
  PROVE  NewPath(s, arg) \in Paths
  <1>1. current_dir[s] \in Seq(STRING) /\ arg.path \in Seq(STRING)
    BY ArgAssumption DEF TypeOK, Paths
  <1>2. current_dir[s] \o arg.path \in Seq(STRING)
    BY <1>1, ConcatProperties
  <1> QED
    BY <1>1, <1>2 DEF NewPath, Paths

LEMMA AfterSendType ==
  ASSUME NEW conn, NEW next \in AfterSend(conn)
  PROVE  conn \in Connection /\ next \in Connection
  BY DEF AfterSend, Connection

LEMMA PortsAreNumbers ==
  ASSUME NEW port \in Ports
  PROVE  port \in Nat /\ port < 65536 /\ port # 0 /\ port # NoSocket
  BY PortAssumption DEF Ports, NoSocket

LEMMA ClosesListenerType ==
  ASSUME TypeOK, NEW s \in Sessions, ClosesListener(s)
  PROVE  /\ pasv_listen_socket' \in [Sessions -> Ports \cup {NoSocket}]
         /\ backlog' \in [Sessions -> Seq(Sessions)]
         /\ pasv_listen_socket'[s] = NoSocket /\ backlog'[s] = <<>>
         /\ \A t \in Sessions \ {s} :
              /\ pasv_listen_socket'[t] = pasv_listen_socket[t]
              /\ backlog'[t] = backlog[t]
  BY DEF TypeOK, ClosesListener

LEMMA GoType ==
  ASSUME TypeOK, NEW s \in Sessions, NEW step \in Steps, Go(s, step)
  PROVE  /\ at' \in [Sessions -> Steps]
         /\ at'[s] = step
         /\ \A t \in Sessions \ {s} : at'[t] = at[t]
  BY DEF TypeOK, Go

LEMMA StepsDiffer ==
  /\ \A step \in {"none", "starting", "loop", "done"} :
       step \notin Accepting /\ step \notin Transferring
  /\ \A step \in Accepting :
       step \notin Transferring /\ step \notin {"none", "starting", "loop", "done"}
  /\ \A step \in Transferring :
       step \notin Accepting /\ step \notin {"none", "starting", "loop", "done"}
  BY DEF Accepting, Transferring

LEMMA SendType ==
  ASSUME TypeOK, NEW s \in Sessions, send_response(s)
  PROVE  ctrl' \in [Sessions -> Connection \cup {"none", "closed"}]
  BY AfterSendType DEF TypeOK, send_response

\* The invariant of one session: its types, who it is and what it holds.  The
\* step of its thread is needed for what accept and close find.
HasRange ==
  \A s \in Sessions :
    /\ at[s] \in {"none", "starting"} => pasv_port[s] = 0
    /\ at[s] \in {"loop"} \cup Accepting \cup Transferring => pasv_port[s] # 0

SessionInv ==
  TypeOK /\ SessionIdentity /\ DescriptorsReleased /\ HasRange

LEMMA InitSession == Init => SessionInv
  <1> SUFFICES ASSUME Init PROVE SessionInv
    OBVIOUS
  <1>1. TypeOK
    BY PortAssumption, BoundAssumption, ParentPath DEF Init, TypeOK, Steps, Connection, Ports
  <1>2. SessionIdentity
    BY DEF Init, SessionIdentity, Accepting, Transferring
  <1>3. DescriptorsReleased /\ HasRange
    BY DEF Init, DescriptorsReleased, HasRange, Accepting, Transferring
  <1> QED
    BY <1>1, <1>2, <1>3 DEF SessionInv

LEMMA UserStep ==
  ASSUME SessionInv, NEW s \in Sessions, NEW user \in Usernames, NEW r,
         handle_USER(s, user, r)
  PROVE  SessionInv'
  <1>1. TypeOK'
    BY SendType DEF SessionInv, handle_USER, Receives, TypeOK, passive, transfer
  <1>2. SessionIdentity'
    BY DEF SessionInv, handle_USER, Receives, TypeOK, SessionIdentity,
           Accepting, Transferring
  <1>3. DescriptorsReleased' /\ HasRange'
    BY DEF SessionInv, handle_USER, DescriptorsReleased, HasRange, passive, transfer
  <1> QED
    BY <1>1, <1>2, <1>3 DEF SessionInv

LEMMA PassStep ==
  ASSUME SessionInv, NEW s \in Sessions, NEW password \in Passwords, NEW r,
         handle_PASS(s, password, r)
  PROVE  SessionInv'
  <1> USE DEF SessionInv
  <1>1. CASE ~LoginCorrect(s, password)
    <2>1. UNCHANGED <<process, g_pasv_port_counter, at, auth, passive, transfer>>
      BY <1>1 DEF handle_PASS, auth
    <2>2. TypeOK'
      BY <2>1, SendType
      DEF handle_PASS, Receives, TypeOK, auth, passive, transfer
    <2>3. SessionIdentity' /\ DescriptorsReleased' /\ HasRange'
      BY <2>1
      DEF SessionIdentity, DescriptorsReleased, HasRange, auth, passive, transfer
    <2> QED
      BY <2>2, <2>3
  <1>2. CASE LoginCorrect(s, password)
    <2> DEFINE root == get_user_root_dir(g_accounts, username[s], DefaultRoot)
    <2>1. root \in Directories /\ IsDirectory(root, <<>>)
      BY DirAssumption, RootIsDirectory DEF TypeOK
    <2>2. WithUsername(g_accounts, username[s]) # {}
      BY <1>2 DEF LoginCorrect, validate_login, WithLogin
    <2> HIDE DEF root
    <2>3. /\ logged_in' = [logged_in EXCEPT ![s] = TRUE]
          /\ root_dir' = [root_dir EXCEPT ![s] = root]
          /\ current_dir' = [current_dir EXCEPT ![s] = <<>>]
      BY <1>2 DEF handle_PASS, root
    <2>4. TypeOK'
      BY <2>1, <2>3, SendType, ParentPath
      DEF handle_PASS, Receives, TypeOK, passive, transfer
    <2>5. SessionIdentity'
      BY <2>1, <2>2, <2>3 DEF handle_PASS, TypeOK, SessionIdentity, root
    <2>6. DescriptorsReleased' /\ HasRange'
      BY DEF handle_PASS, DescriptorsReleased, HasRange, passive, transfer
    <2> QED
      BY <2>4, <2>5, <2>6
  <1> QED
    BY <1>1, <1>2

LEMMA PwdAndOtherStep ==
  ASSUME SessionInv, NEW s \in Sessions, NEW r,
         handle_PWD(s, r) \/ handle_other(s, r)
  PROVE  SessionInv'
  <1>1. TypeOK'
    BY SendType DEF SessionInv, handle_PWD, handle_other, Receives, TypeOK,
                    auth, passive, transfer
  <1>2. SessionIdentity'
    BY DEF SessionInv, handle_PWD, handle_other, SessionIdentity, auth
  <1>3. DescriptorsReleased' /\ HasRange'
    BY DEF SessionInv, handle_PWD, handle_other, DescriptorsReleased, HasRange, passive,
           transfer
  <1> QED
    BY <1>1, <1>2, <1>3 DEF SessionInv

LEMMA CwdStep ==
  ASSUME SessionInv, NEW s \in Sessions, NEW arg \in CwdArgs, NEW r,
         handle_CWD(s, arg, r)
  PROVE  SessionInv'
  <1>1. Fits(NewPath(s, arg)) => NewPath(s, arg) \in Paths
    BY NewPathIsPath DEF SessionInv
  <1>2. /\ UNCHANGED <<process, g_pasv_port_counter, at, logged_in, username, root_dir>>
        /\ UNCHANGED <<passive, transfer>>
        /\ \/ UNCHANGED current_dir
           \/ /\ current_dir' = [current_dir EXCEPT ![s] = NewPath(s, arg)]
              /\ NewPath(s, arg) \in Paths /\ IsDirectory(root_dir[s], NewPath(s, arg))
    BY <1>1, Zenon DEF handle_CWD
  <1>3. TypeOK'
    <2>1. current_dir' \in [Sessions -> Paths]
      BY <1>2 DEF SessionInv, TypeOK
    <2>2. pending' \in [Sessions -> BOOLEAN]
      BY DEF SessionInv, handle_CWD, Receives, TypeOK
    <2>3. ctrl' \in [Sessions -> Connection \cup {"none", "closed"}]
      BY SendType DEF SessionInv, handle_CWD
    <2> QED
      BY <1>2, <2>1, <2>2, <2>3 DEF SessionInv, TypeOK, passive, transfer
  <1>4. SessionIdentity'
    <2>1. \A t \in Sessions :
            \/ current_dir'[t] = current_dir[t]
            \/ IsDirectory(root_dir[t], current_dir'[t])
      BY <1>2 DEF SessionInv, TypeOK
    <2> QED
      BY <1>2, <2>1 DEF SessionInv, SessionIdentity
  <1>5. DescriptorsReleased' /\ HasRange'
    BY DEF SessionInv, handle_CWD, DescriptorsReleased, HasRange, passive, transfer
  <1> QED
    BY <1>3, <1>4, <1>5 DEF SessionInv

LEMMA CdupStep ==
  ASSUME SessionInv, NEW s \in Sessions, NEW r, handle_CDUP(s, r)
  PROVE  SessionInv'
  <1>1. /\ Parent(current_dir[s]) \in Paths
        /\ logged_in[s] => IsDirectory(root_dir[s], Parent(current_dir[s]))
    <2>1. logged_in[s] => root_dir[s] \in Directories
      BY DirAssumption DEF SessionInv, SessionIdentity, TypeOK
    <2> QED
      BY <2>1, ParentPath, ParentIsDirectory DEF SessionInv, SessionIdentity, TypeOK
  <1>2. TypeOK'
    <2>1. current_dir' \in [Sessions -> Paths]
      BY <1>1 DEF SessionInv, handle_CDUP, TypeOK
    <2> QED
      BY <2>1, SendType
      DEF SessionInv, handle_CDUP, Receives, TypeOK, passive, transfer
  <1>3. SessionIdentity'
    BY ZenonT(30), <1>1
    DEF SessionInv, handle_CDUP, Receives, TypeOK, SessionIdentity
  <1>4. DescriptorsReleased' /\ HasRange'
    BY DEF SessionInv, handle_CDUP, DescriptorsReleased, HasRange, passive, transfer
  <1> QED
    BY <1>2, <1>3, <1>4 DEF SessionInv

LEMMA CleanUpStep ==
  ASSUME SessionInv, NEW s \in Sessions, NEW r,
         handle_QUIT(s, r) \/ Disconnect(s)
  PROVE  SessionInv'
  <1> USE DEF SessionInv
  <1>1. CleansUp(s)
    BY DEF handle_QUIT, Disconnect
  <1>2. logged_in' \in [Sessions -> BOOLEAN] /\ pending' \in [Sessions -> BOOLEAN]
    BY DEF handle_QUIT, Disconnect, Receives, TypeOK, auth
  <1>3. UNCHANGED <<process, g_pasv_port_counter, username, root_dir,
                    current_dir, pasv_port, pasv_count, announced, data_peer,
                    chunks_left>>
    BY DEF handle_QUIT, Disconnect, auth
  <1>4. \A t \in Sessions : logged_in'[t] => logged_in[t] /\ (t = s => at'[t] = "done")
    BY <1>1 DEF handle_QUIT, Disconnect, auth, TypeOK, CleansUp, Go
  <1>5. TypeOK'
    <2>1. /\ at' \in [Sessions -> Steps]
          /\ ctrl' \in [Sessions -> Connection \cup {"none", "closed"}]
      BY <1>1, StepNames DEF CleansUp, Go, TypeOK
    <2>2. /\ data_socket' \in [Sessions -> Sessions \cup {NoSocket}]
          /\ pasv_listen_socket' \in [Sessions -> Ports \cup {NoSocket}]
          /\ backlog' \in [Sessions -> Seq(Sessions)]
      BY <1>1 DEF CleansUp, TypeOK
    <2> QED
      BY <1>2, <1>3, <2>1, <2>2 DEF TypeOK
  <1>6. SessionIdentity'
    <2>1. \A t \in Sessions \ {s} : logged_in'[t] = logged_in[t]
      BY DEF handle_QUIT, Disconnect, auth, TypeOK
    <2> QED
      BY <1>1, <1>3, <1>4, <2>1
      DEF CleansUp, Go, TypeOK, SessionIdentity, Accepting, Transferring
  <1>7. DescriptorsReleased' /\ HasRange'
    <2>1. /\ at'[s] = "done" /\ data_socket'[s] = NoSocket
          /\ pasv_listen_socket'[s] = NoSocket /\ backlog'[s] = <<>>
          /\ \A t \in Sessions \ {s} :
               /\ at'[t] = at[t] /\ data_socket'[t] = data_socket[t]
               /\ pasv_listen_socket'[t] = pasv_listen_socket[t]
               /\ backlog'[t] = backlog[t]
      BY <1>1 DEF CleansUp, Go, TypeOK
    <2> QED
      BY <1>3, <2>1, StepsDiffer DEF DescriptorsReleased, HasRange
  <1> QED
    BY <1>5, <1>6, <1>7

LEMMA StartStep ==
  ASSUME SessionInv, NEW s \in Sessions, NEW r,
         MainAccepts(s) \/ ThreadStarts(s, r)
  PROVE  SessionInv'
  <1>1. g_pasv_port_counter \in Ports
    BY PortAssumption DEF SessionInv, TypeOK, Ports
  <1>2. TypeOK'
    <2>1. CASE MainAccepts(s)
      BY <2>1 DEF SessionInv, MainAccepts, Go, TypeOK, Steps, Connection,
                  auth, passive, transfer
    <2>2. CASE ThreadStarts(s, r)
      BY <1>1, <2>2, SendType, NextCounterRange
      DEF SessionInv, ThreadStarts, Go, TypeOK, Steps, auth, transfer
    <2> QED
      BY <2>1, <2>2
  <1>3. SessionIdentity'
    BY DEF SessionInv, MainAccepts, ThreadStarts, Go, TypeOK, SessionIdentity,
           auth, Accepting, Transferring
  <1>4. DescriptorsReleased' /\ HasRange'
    <2>1. CASE MainAccepts(s)
      <3>1. /\ at[s] = "none" /\ at'[s] \in {"starting", "done"}
            /\ \A t \in Sessions \ {s} : at'[t] = at[t]
        BY <2>1 DEF SessionInv, MainAccepts, Go, TypeOK
      <3>2. UNCHANGED <<pasv_port, pasv_listen_socket, backlog, data_socket>>
        BY <2>1 DEF MainAccepts, passive, transfer
      <3>3. DescriptorsReleased'
        BY <3>1, <3>2, StepsDiffer DEF SessionInv, DescriptorsReleased
      <3>4. HasRange'
        BY <3>1, <3>2, StepsDiffer DEF SessionInv, HasRange
      <3> QED
        BY <3>3, <3>4
    <2>2. CASE ThreadStarts(s, r)
      <3>1. /\ at[s] = "starting" /\ at'[s] = "loop" /\ pasv_port'[s] # 0
            /\ \A t \in Sessions \ {s} :
                 at'[t] = at[t] /\ pasv_port'[t] = pasv_port[t]
        BY <1>1, <2>2, PortsAreNumbers DEF SessionInv, ThreadStarts, Go, TypeOK
      <3>2. UNCHANGED <<pasv_listen_socket, backlog, data_socket>>
        BY <2>2 DEF ThreadStarts, transfer
      <3> QED
        BY <3>1, <3>2, StepsDiffer DEF SessionInv, DescriptorsReleased, HasRange
    <2> QED
      BY <2>1, <2>2
  <1> QED
    BY <1>2, <1>3, <1>4 DEF SessionInv

LEMMA PasvStep ==
  ASSUME SessionInv, NEW s \in Sessions, NEW r, handle_PASV(s, r)
  PROVE  SessionInv'
  <1>1. TypeOK /\ at[s] = "loop"
    BY DEF SessionInv, handle_PASV, Receives
  <1>2. UNCHANGED <<process, g_pasv_port_counter, at, auth, transfer>>
    BY DEF handle_PASV
  <1>3. /\ ctrl' \in [Sessions -> Connection \cup {"none", "closed"}]
        /\ pending' \in [Sessions -> BOOLEAN]
    BY <1>1, SendType DEF handle_PASV, Receives, TypeOK
  <1>4. SessionIdentity'
    BY <1>2 DEF SessionInv, SessionIdentity, auth
  <1>5. CASE UNCHANGED passive
    <2>1. TypeOK'
      BY <1>1, <1>2, <1>3, <1>5 DEF TypeOK, auth, passive, transfer
    <2>2. DescriptorsReleased' /\ HasRange'
      BY <1>2, <1>5
      DEF SessionInv, DescriptorsReleased, HasRange, passive, transfer
    <2> QED
      BY <1>4, <2>1, <2>2 DEF SessionInv
  <1>6. CASE ClosesListener(s) /\ UNCHANGED <<pasv_port, pasv_count, announced>>
    <2>1. TypeOK'
      BY <1>1, <1>2, <1>3, <1>6, ClosesListenerType DEF TypeOK, auth, transfer
    <2>2. DescriptorsReleased' /\ HasRange'
      BY <1>1, <1>2, <1>6, ClosesListenerType, StepsDiffer
      DEF SessionInv, DescriptorsReleased, HasRange, transfer
    <2> QED
      BY <1>4, <2>1, <2>2 DEF SessionInv
  <1>7. CASE OpensListener(s)
    <2>1. pasv_port[s] \in Ports
      BY <1>1 DEF SessionInv, HasRange, TypeOK
    <2>2. /\ NextPort(pasv_port[s]) \in Ports
          /\ Announced(pasv_port[s]) \in Ports
      BY <2>1, NextPortRange, PortsAreNumbers, AnnouncedIsPort
    <2>3. /\ pasv_port' \in [Sessions -> Ports \cup {0}]
          /\ announced' \in [Sessions -> SUBSET Ports]
          /\ pasv_listen_socket' \in [Sessions -> Ports \cup {NoSocket}]
      BY <1>1, <1>7, <2>1, <2>2 DEF OpensListener, TypeOK
    <2>4. pasv_count' \in [Sessions -> 0..MaxPasv]
      BY <1>1, <1>7, BoundAssumption DEF OpensListener, TypeOK
    <2>5. backlog' \in [Sessions -> Seq(Sessions)]
      BY <1>1, <1>7 DEF OpensListener, TypeOK
    <2>6. TypeOK'
      BY <1>1, <1>2, <1>3, <2>3, <2>4, <2>5 DEF TypeOK, auth, transfer
    <2>7. /\ pasv_port'[s] # 0 /\ pasv_listen_socket'[s] # NoSocket
          /\ \A t \in Sessions \ {s} :
               /\ pasv_port'[t] = pasv_port[t]
               /\ pasv_listen_socket'[t] = pasv_listen_socket[t]
               /\ backlog'[t] = backlog[t]
      BY <1>1, <1>7, <2>1, <2>2, PortsAreNumbers DEF OpensListener, TypeOK
    <2>8. DescriptorsReleased' /\ HasRange'
      BY <1>1, <1>2, <2>7, StepsDiffer
      DEF SessionInv, DescriptorsReleased, HasRange, transfer
    <2> QED
      BY <1>4, <2>6, <2>8 DEF SessionInv
  <1> QED
    BY <1>5, <1>6, <1>7 DEF handle_PASV

\* LIST, RETR and STOR up to accept.
LEMMA TransferCommandStep ==
  ASSUME SessionInv, NEW s \in Sessions, NEW r,
         handle_LIST(s, r) \/ handle_RETR(s, r) \/ handle_STOR(s, r)
  PROVE  SessionInv'
  <1>1. CASE at' = at
    <2>1. /\ UNCHANGED <<process, g_pasv_port_counter, at, auth, passive, transfer>>
          /\ pending' \in [Sessions -> BOOLEAN]
          /\ ctrl' = ctrl \/ send_response(s)
      BY <1>1 DEF handle_LIST, handle_RETR, handle_STOR, RefusesTransfer,
                  BeginsTransfer, Receives, SessionInv, TypeOK
    <2>2. TypeOK'
      BY <2>1, SendType DEF SessionInv, TypeOK, auth, passive, transfer
    <2>3. SessionIdentity' /\ DescriptorsReleased' /\ HasRange'
      BY <2>1 DEF SessionInv, SessionIdentity, DescriptorsReleased, HasRange,
                  auth, passive, transfer
    <2> QED
      BY <2>2, <2>3 DEF SessionInv
  <1>2. CASE \E step \in Accepting : BeginsTransfer(s, step, r)
    <2> PICK step \in Accepting : BeginsTransfer(s, step, r)
      BY <1>2
    <2>1. TypeOK'
      BY StepNames DEF SessionInv, BeginsTransfer, Receives, Go, TypeOK, auth,
                       passive, transfer
    <2>2. SessionIdentity'
      BY DEF SessionInv, BeginsTransfer, Go, TypeOK, SessionIdentity, auth
    <2>3. pasv_listen_socket[s] # NoSocket /\ at[s] = "loop"
      BY DEF BeginsTransfer, Receives, NoSocket
    <2>4. DescriptorsReleased' /\ HasRange'
      BY <2>3
      DEF SessionInv, BeginsTransfer, Go, TypeOK, DescriptorsReleased,
          HasRange, passive, transfer, Accepting, Transferring
    <2> QED
      BY <2>1, <2>2, <2>4 DEF SessionInv
  <1>3. {"LIST_accept", "RETR_accept", "STOR_accept"} = Accepting
    BY DEF Accepting
  <1> QED
    BY <1>1, <1>2, <1>3
    DEF handle_LIST, handle_RETR, handle_STOR, RefusesTransfer

\* accept: what the three transfers have in common once it returned.
LEMMA AcceptedStep ==
  ASSUME SessionInv, NEW s \in Sessions, at[s] \in Accepting,
         AcceptsData(s), send_response(s),
         NEW step \in Transferring, Go(s, step),
         chunks_left' \in [Sessions -> 0..MaxChunks],
         UNCHANGED <<process, g_pasv_port_counter, auth, pasv_port, pasv_count,
                     announced, data_peer, pending>>
  PROVE  SessionInv'
  <1>1. TypeOK /\ step \in Steps
    BY StepNames DEF SessionInv
  <1>2. /\ data_socket' \in [Sessions -> Sessions \cup {NoSocket}]
        /\ data_socket'[s] # NoSocket
        /\ \A t \in Sessions \ {s} : data_socket'[t] = data_socket[t]
    <2>1. Head(backlog[s]) \in Sessions
      BY <1>1 DEF AcceptsData, TypeOK
    <2> QED
      BY <1>1, <2>1, SessionAssumption DEF AcceptsData, TypeOK
  <1>3. ClosesListener(s)
    BY DEF AcceptsData
  <1>4. TypeOK'
    BY <1>1, <1>2, <1>3, GoType, SendType, ClosesListenerType DEF TypeOK, auth
  <1>5. SessionIdentity'
    BY <1>1, GoType DEF SessionInv, SessionIdentity, auth
  <1>6. DescriptorsReleased' /\ HasRange'
    <2>1. /\ at'[s] \in Transferring /\ pasv_listen_socket'[s] = NoSocket
          /\ backlog'[s] = <<>> /\ pasv_port[s] # 0
          /\ \A t \in Sessions \ {s} :
               /\ at'[t] = at[t]
               /\ pasv_listen_socket'[t] = pasv_listen_socket[t]
               /\ backlog'[t] = backlog[t]
      BY <1>1, <1>3, GoType, ClosesListenerType DEF SessionInv, HasRange
    <2>2. DescriptorsReleased'
      BY <1>2, <2>1, StepsDiffer DEF SessionInv, DescriptorsReleased
    <2>3. HasRange'
      BY <2>1, StepsDiffer DEF SessionInv, HasRange
    <2> QED
      BY <2>2, <2>3
  <1> QED
    BY <1>4, <1>5, <1>6 DEF SessionInv

LEMMA AcceptStep ==
  ASSUME SessionInv, NEW s \in Sessions, NEW r,
         \/ AcceptLIST(s, r) \/ AcceptRETR(s, r)
         \/ AcceptSTOR(s, r) /\ AcceptsData(s) /\ Go(s, "STOR_recv")
  PROVE  SessionInv'
  <1>1. /\ {"LIST_accept", "RETR_accept", "STOR_accept"} \subseteq Accepting
        /\ {"LIST_send", "RETR_send", "STOR_recv"} \subseteq Transferring
    BY DEF Accepting, Transferring
  <1>2. chunks_left' \in [Sessions -> 0..MaxChunks]
    BY DEF AcceptLIST, AcceptRETR, AcceptSTOR, SessionInv, TypeOK
  <1>3. CASE AcceptLIST(s, r)
    BY <1>1, <1>2, <1>3, AcceptedStep DEF AcceptLIST
  <1>4. CASE AcceptRETR(s, r)
    BY <1>1, <1>2, <1>4, AcceptedStep DEF AcceptRETR
  <1>5. CASE AcceptSTOR(s, r) /\ AcceptsData(s) /\ Go(s, "STOR_recv")
    BY <1>1, <1>2, <1>5, AcceptedStep DEF AcceptSTOR
  <1> QED
    BY <1>3, <1>4, <1>5

\* Back to the loop without a data connection: accept failed, or STOR could
\* not open its file.
LEMMA NotAcceptedStep ==
  ASSUME SessionInv, NEW s \in Sessions, at[s] \in Accepting,
         ClosesListener(s), send_response(s), Go(s, "loop"),
         UNCHANGED <<process, g_pasv_port_counter, auth, pasv_port, pasv_count,
                     announced, transfer, pending>>
  PROVE  SessionInv'
  <1>1. TypeOK /\ "loop" \in Steps
    BY StepNames DEF SessionInv
  <1>2. TypeOK'
    BY <1>1, GoType, SendType, ClosesListenerType DEF TypeOK, auth, transfer
  <1>3. SessionIdentity'
    BY <1>1, GoType, StepsDiffer DEF SessionInv, SessionIdentity, auth
  <1>4. DescriptorsReleased' /\ HasRange'
    <2>1. /\ at'[s] = "loop" /\ pasv_listen_socket'[s] = NoSocket
          /\ backlog'[s] = <<>> /\ pasv_port[s] # 0
          /\ \A t \in Sessions \ {s} :
               /\ at'[t] = at[t]
               /\ pasv_listen_socket'[t] = pasv_listen_socket[t]
               /\ backlog'[t] = backlog[t]
      BY <1>1, GoType, ClosesListenerType DEF SessionInv, HasRange
    <2>2. DescriptorsReleased'
      BY <2>1, StepsDiffer DEF SessionInv, DescriptorsReleased, transfer
    <2>3. HasRange'
      BY <2>1, StepsDiffer DEF SessionInv, HasRange
    <2> QED
      BY <2>2, <2>3
  <1> QED
    BY <1>2, <1>3, <1>4 DEF SessionInv

\* Back to the loop at the end of a transfer.
LEMMA TransferEndsStep ==
  ASSUME SessionInv, NEW s \in Sessions, at[s] \in Transferring,
         ClosesData(s), send_response(s),
         UNCHANGED <<process, g_pasv_port_counter, auth, passive, chunks_left,
                     pending>>
  PROVE  SessionInv'
  <1>1. TypeOK /\ "loop" \in Steps /\ Go(s, "loop")
    BY StepNames DEF SessionInv, ClosesData
  <1>2. /\ data_socket' \in [Sessions -> Sessions \cup {NoSocket}]
        /\ data_peer' \in [Sessions -> Connection]
        /\ data_socket'[s] = NoSocket
        /\ \A t \in Sessions \ {s} : data_socket'[t] = data_socket[t]
    BY <1>1 DEF ClosesData, TypeOK, Connection
  <1>3. TypeOK'
    BY <1>1, <1>2, GoType, SendType DEF TypeOK, auth, passive
  <1>4. SessionIdentity'
    BY <1>1, GoType, StepsDiffer DEF SessionInv, SessionIdentity, auth
  <1>5. DescriptorsReleased' /\ HasRange'
    BY <1>1, <1>2, GoType, StepsDiffer
    DEF SessionInv, DescriptorsReleased, HasRange, passive
  <1> QED
    BY <1>3, <1>4, <1>5 DEF SessionInv

LEMMA ReturnStep ==
  ASSUME SessionInv, NEW s \in Sessions, NEW r,
         \/ AcceptFails(s, r)
         \/ AcceptSTOR(s, r) /\ Go(s, "loop") /\ UNCHANGED data_socket
              /\ ClosesListener(s)
         \/ ListFails(s, r) \/ SendLIST(s, r)
         \/ FinishRETR(s, r) \/ FinishSTOR(s, r)
  PROVE  SessionInv'
  <1>1. CASE AcceptFails(s, r)
    BY <1>1, NotAcceptedStep DEF AcceptFails
  <1>2. CASE AcceptSTOR(s, r) /\ Go(s, "loop") /\ UNCHANGED data_socket
               /\ ClosesListener(s)
    <2>1. at[s] \in Accepting
      BY <1>2 DEF AcceptSTOR, Accepting
    <2>2. UNCHANGED transfer
      BY <1>2 DEF AcceptSTOR, transfer
    <2> QED
      BY <1>2, <2>1, <2>2, NotAcceptedStep DEF AcceptSTOR
  <1>3. CASE \/ ListFails(s, r) \/ SendLIST(s, r)
             \/ FinishRETR(s, r) \/ FinishSTOR(s, r)
    <2>1. at[s] \in Transferring
      BY <1>3 DEF ListFails, SendLIST, FinishRETR, FinishSTOR, Transferring
    <2> QED
      BY <1>3, <2>1, TransferEndsStep
      DEF ListFails, SendLIST, FinishRETR, FinishSTOR
  <1> QED
    BY <1>1, <1>2, <1>3

LEMMA SendStep ==
  ASSUME SessionInv, NEW s \in Sessions, SendRETR(s)
  PROVE  SessionInv'
  <1>1. data_peer' \in [Sessions -> Connection]
    BY AfterSendType DEF SessionInv, SendRETR, TypeOK
  <1>2. chunks_left' \in [Sessions -> 0..MaxChunks]
    BY BoundAssumption DEF SessionInv, SendRETR, TypeOK
  <1>3. TypeOK'
    BY <1>1, <1>2 DEF SessionInv, SendRETR, TypeOK, auth, passive
  <1>4. SessionIdentity' /\ DescriptorsReleased' /\ HasRange'
    BY DEF SessionInv, SendRETR, SessionIdentity, DescriptorsReleased,
           HasRange, auth, passive
  <1> QED
    BY <1>3, <1>4 DEF SessionInv

LEMMA ClientStep ==
  ASSUME SessionInv, NEW s \in Sessions, Client(s)
  PROVE  SessionInv'
  <1>1. CASE ClientConnects(s)
    <2>1. PICK t \in Sessions :
            /\ pasv_listen_socket[t] \in announced[s]
            /\ backlog' = [backlog EXCEPT ![t] = Append(@, s)]
      BY <1>1 DEF ClientConnects
    <2>2. Append(backlog[t], s) \in Seq(Sessions)
      BY DEF SessionInv, TypeOK
    <2>3. TypeOK'
      BY <1>1, <2>1, <2>2
      DEF SessionInv, ClientConnects, TypeOK, auth, transfer
    <2>4. SessionIdentity' /\ HasRange'
      BY <1>1 DEF SessionInv, ClientConnects, SessionIdentity, HasRange, auth
    <2>5. pasv_listen_socket[t] # NoSocket
      BY <2>1, PortsAreNumbers DEF SessionInv, TypeOK, NoSocket
    <2>6. DescriptorsReleased'
      BY <1>1, <2>1, <2>5
      DEF SessionInv, ClientConnects, TypeOK, DescriptorsReleased, transfer
    <2> QED
      BY <2>3, <2>4, <2>6 DEF SessionInv
  <1>2. CASE ClientEndsData(s) \/ ClientCloses(s)
    <2>1. /\ data_peer' \in [Sessions -> Connection]
          /\ ctrl' \in [Sessions -> Connection \cup {"none", "closed"}]
          /\ pending' \in [Sessions -> BOOLEAN]
      <3>1. CASE ClientEndsData(s)
        BY <3>1 DEF SessionInv, ClientEndsData, TypeOK, Connection
      <3>2. CASE ClientCloses(s)
        BY <3>2 DEF SessionInv, ClientCloses, TypeOK, Connection, transfer
      <3> QED
        BY <1>2, <3>1, <3>2
    <2>2. UNCHANGED <<process, g_pasv_port_counter, at, auth, passive,
                      data_socket, chunks_left>>
      BY <1>2 DEF ClientEndsData, ClientCloses, transfer
    <2>3. TypeOK'
      BY <2>1, <2>2 DEF SessionInv, TypeOK, auth, passive
    <2>4. SessionIdentity' /\ DescriptorsReleased' /\ HasRange'
      BY <2>2 DEF SessionInv, SessionIdentity, DescriptorsReleased, HasRange,
                  auth, passive
    <2> QED
      BY <2>3, <2>4 DEF SessionInv
  <1> QED
    BY <1>1, <1>2 DEF Client

LEMMA ProcessEndsStep ==
  ASSUME SessionInv, Sigint \/ Killed
  PROVE  SessionInv'
  <1>1. TypeOK'
    BY DEF SessionInv, Sigint, Killed, TypeOK, auth, passive, transfer
  <1>2. SessionIdentity' /\ DescriptorsReleased' /\ HasRange'
    BY DEF SessionInv, Sigint, Killed, SessionIdentity, DescriptorsReleased,
           HasRange, auth, passive, transfer
  <1> QED
    BY <1>1, <1>2 DEF SessionInv

LEMMA StutterStep == ASSUME SessionInv, UNCHANGED vars PROVE SessionInv'
  BY DEF SessionInv, vars, TypeOK, SessionIdentity, DescriptorsReleased,
         HasRange, auth, passive, transfer

LEMMA SessionNext == SessionInv /\ [Next]_vars => SessionInv'
  <1> SUFFICES ASSUME SessionInv, Next
               PROVE  SessionInv'
    BY StutterStep
  <1>1. ASSUME NEW s \in Sessions, NEW r, Command(s, r)
        PROVE  SessionInv'
    BY <1>1, UserStep, PassStep, CwdStep, PwdAndOtherStep, CdupStep, PasvStep,
       TransferCommandStep, CleanUpStep
    DEF Command
  <1>2. ASSUME NEW s \in Sessions, NEW r, Proceeds(s, r) \/ AcceptFails(s, r)
        PROVE  SessionInv'
    <2>1. AcceptSTOR(s, r) =>
            \/ AcceptsData(s) /\ Go(s, "STOR_recv")
            \/ Go(s, "loop") /\ UNCHANGED data_socket /\ ClosesListener(s)
      BY DEF AcceptSTOR
    <2> QED
      BY <1>2, <2>1, StartStep, AcceptStep, ReturnStep, SendStep, CleanUpStep
      DEF Proceeds
  <1>3. ASSUME NEW s \in Sessions,
               \/ MainAccepts(s) \/ Client(s) \/ SigPipe(s) \/ Sigint
               \/ OverrunsListing(s) \/ \E arg \in CwdArgs : OverrunsPath(s, arg)
        PROVE  SessionInv'
    BY <1>3, StartStep, ClientStep, ProcessEndsStep
    DEF SigPipe, OverrunsListing, OverrunsPath
  <1> QED
    BY <1>1, <1>2, <1>3, ProcessEndsStep DEF Next

\* Every session is well typed, is who it says and holds what its step needs,
\* in every behaviour of the server.
THEOREM SessionTheorem == Spec => []SessionInv
  BY InitSession, SessionNext, PTL DEF Spec

\* The structs, counters and connections keep their types, ports included.
THEOREM TypeTheorem == Spec => []TypeOK
  <1>1. SessionInv => TypeOK
    BY DEF SessionInv
  <1> QED
    BY <1>1, SessionTheorem, PTL

\* A logged-in session is the user it names, and its current directory, spelled
\* from that user's root, is one that exists, in any file system and whatever
\* names (".." included) its client sent with CWD.
THEOREM IdentityTheorem == Spec => []SessionIdentity
  <1>1. SessionInv => SessionIdentity
    BY DEF SessionInv
  <1> QED
    BY <1>1, SessionTheorem, PTL

\* No error path leaks a listener or a data connection.
THEOREM ReleasedTheorem == Spec => []DescriptorsReleased
  <1>1. SessionInv => DescriptorsReleased
    BY DEF SessionInv
  <1> QED
    BY <1>1, SessionTheorem, PTL

-----------------------------------------------------------------------------
(***************************************************************************)
(* The passive ports keep the sessions apart, for every number of sessions *)
(* and every range, as long as there are enough ports.                     *)
(***************************************************************************)
LEMMA StartedType ==
  ASSUME EnoughPorts, TypeOK
  PROVE  /\ Started \subseteq Sessions
         /\ IsFiniteSet(Started) /\ Cardinality(Started) \in Nat
         /\ Cardinality(Sessions) \in Nat
         /\ Cardinality(Started) <= Cardinality(Sessions)
         /\ NextBase \in Int
         /\ \A s \in Sessions : /\ pasv_port[s] \in Nat /\ pasv_count[s] \in Nat
                                /\ Base(s) \in Int
  <1>1. Started \subseteq Sessions
    BY DEF Started
  <1>2. /\ IsFiniteSet(Started) /\ Cardinality(Started) \in Nat
        /\ Cardinality(Sessions) \in Nat
        /\ Cardinality(Started) <= Cardinality(Sessions)
    BY <1>1, FS_Subset, FS_CardinalityType DEF EnoughPorts
  <1>3. NextBase \in Int
    BY <1>2, PortAssumption DEF NextBase
  <1>4. \A s \in Sessions : pasv_port[s] \in Nat /\ pasv_count[s] \in Nat
    BY PortsAreNumbers, BoundAssumption DEF TypeOK
  <1> QED
    BY <1>1, <1>2, <1>3, <1>4 DEF Base

\* A session that has not started yet finds the counter where the next range
\* starts: the counter wraps only after the last session.
LEMMA RoomForOneMore ==
  ASSUME EnoughPorts, TypeOK, NEW s \in Sessions \ Started
  PROVE  /\ NextBase <= CounterHi
         /\ Cardinality(Started \cup {s}) = Cardinality(Started) + 1
  <1> DEFINE n == Cardinality(Started)
             m == Cardinality(Sessions)
  <1>1. n \in Nat /\ m \in Nat /\ IsFiniteSet(Started)
    BY StartedType
  <1>2. Cardinality(Started \cup {s}) = n + 1
    BY <1>1, FS_AddElement
  <1>3. Started \cup {s} \subseteq Sessions
    BY StartedType
  <1>4. n + 1 <= m
    BY <1>2, <1>3, FS_Subset DEF EnoughPorts
  <1>5. n * Stride <= (m - 1) * Stride
    <2> HIDE DEF n, m
    <2>1. m - 1 - n \in Nat
      BY <1>1, <1>4
    <2>2. PICK k \in Nat : m - 1 = n + k
      BY <1>1, <2>1
    <2>3. (n + k) * Stride = (n * Stride) + (k * Stride) /\ k * Stride \in Nat
      BY <1>1, <2>2, PortAssumption
    <2>4. n * Stride \in Nat
      BY <1>1, PortAssumption
    <2> QED
      BY <2>2, <2>3, <2>4
  <1>6. n * Stride \in Int /\ (m - 1) * Stride \in Int
    BY <1>1, PortAssumption
  <1>7. PortLo + ((m - 1) * Stride) <= CounterHi
    BY DEF EnoughPorts
  <1> HIDE DEF n, m
  <1>8. PortLo + (n * Stride) <= CounterHi
    BY <1>5, <1>6, <1>7, PortAssumption
  <1> QED
    BY <1>2, <1>8 DEF NextBase, n

LEMMA RangesKept ==
  ASSUME RangesInv, UNCHANGED <<g_pasv_port_counter, pasv_port, pasv_count>>
  PROVE  RangesInv'
  BY DEF RangesInv, NextBase, Started, Base

LEMMA RangesStart ==
  ASSUME EnoughPorts, SessionInv, RangesInv, NEW s \in Sessions, NEW r,
         ThreadStarts(s, r)
  PROVE  /\ RangesInv' /\ Started' = Started \cup {s}
         /\ \A t \in Started : t # s /\ Base(t)' = Base(t)
  <1>1. TypeOK /\ pasv_port[s] = 0 /\ s \notin Started
    BY DEF SessionInv, ThreadStarts, HasRange, Started
  <1>2. NextBase <= CounterHi /\ g_pasv_port_counter = NextBase
    BY <1>1, RoomForOneMore DEF RangesInv
  <1>3. /\ pasv_port' = [pasv_port EXCEPT ![s] = NextBase]
        /\ pasv_count' = pasv_count /\ pasv_count[s] = 0
    BY <1>1, <1>2 DEF ThreadStarts, RangesInv
  <1>4. NextBase \in Int /\ NextBase # 0 /\ PortLo <= NextBase
    BY <1>2, PortAssumption, StartedType, <1>1 DEF SessionInv, TypeOK
  <1>5. Started' = Started \cup {s}
    BY <1>1, <1>3, <1>4 DEF Started, TypeOK
  <1>6. NextBase' = NextBase + Stride
    <2>1. Cardinality(Started') = Cardinality(Started) + 1
      BY <1>1, <1>5, RoomForOneMore
    <2>2. Cardinality(Started) \in Nat
      BY <1>1, StartedType
    <2>3. (Cardinality(Started) + 1) * Stride =
            (Cardinality(Started) * Stride) + Stride
      BY <2>2, PortAssumption
    <2>4. Cardinality(Started) * Stride \in Nat
      BY <2>2, PortAssumption
    <2>5. NextBase' = PortLo + ((Cardinality(Started) + 1) * Stride)
      BY <2>1 DEF NextBase
    <2> QED
      BY <2>3, <2>4, <2>5, PortAssumption DEF NextBase
  <1>7. Base(s)' = NextBase /\ \A t \in Started : t # s /\ Base(t)' = Base(t)
    BY <1>1, <1>3, <1>4 DEF Base, TypeOK, Started
  <1>8. NextBase' <= CounterHi => g_pasv_port_counter' = NextBase'
    BY <1>2, <1>4, <1>6, PortAssumption DEF ThreadStarts, NextCounter
  <1>9. \A t \in Started :
          /\ PortLo <= Base(t) /\ Base(t) <= CounterHi
          /\ Base(t) + Stride <= NextBase /\ Base(t) \in Int
    BY <1>1, StartedType DEF RangesInv
  <1>10. RangesInv'
    <2>1. \A t \in Started' :
            /\ PortLo <= Base(t)' /\ Base(t)' <= CounterHi
            /\ Base(t)' + Stride <= NextBase'
      BY <1>2, <1>4, <1>5, <1>6, <1>7, <1>9, PortAssumption
    <2>2. \A t, u \in Started' :
            t # u => \/ Base(t)' + Stride <= Base(u)'
                     \/ Base(u)' + Stride <= Base(t)'
      BY <1>5, <1>7, <1>9 DEF RangesInv
    <2>3. \A t \in Sessions \ Started' : pasv_count'[t] = 0
      BY <1>3, <1>5 DEF RangesInv
    <2> QED
      BY <1>8, <2>1, <2>2, <2>3 DEF RangesInv
  <1> QED
    BY <1>5, <1>7, <1>10

\* PASV advances the port and the count together, and does not wrap.
LEMMA RangesOpen ==
  ASSUME EnoughPorts, SessionInv, PortInv, NEW s \in Sessions,
         at[s] = "loop", OpensListener(s), UNCHANGED g_pasv_port_counter
  PROVE  /\ RangesInv' /\ Started' = Started /\ s \in Started
         /\ \A t \in Sessions : Base(t)' = Base(t)
         /\ InRange(s, pasv_port[s]) /\ pasv_port[s] \in Ports
  <1>1. TypeOK /\ s \in Started
    BY DEF SessionInv, HasRange, Started
  <1>2. pasv_port[s] \in Ports /\ pasv_port[s] \in Nat /\ pasv_count[s] \in Nat
    BY <1>1, StartedType DEF TypeOK, Started
  <1>3. InRange(s, pasv_port[s])
    <2>1. pasv_count[s] < MaxPasv /\ MaxPasv <= Stride
      BY DEF OpensListener, EnoughPorts
    <2> QED
      BY <1>2, <2>1, PortAssumption, BoundAssumption DEF InRange, Base
  <1>4. pasv_port[s] + 1 <= PasvHi
    <2>1. Base(s) <= CounterHi /\ Base(s) \in Int
      BY <1>1, StartedType DEF PortInv, RangesInv
    <2>2. pasv_port[s] < Base(s) + Stride
      BY <1>3 DEF InRange
    <2>3. CounterHi + Stride <= PasvHi
      BY DEF EnoughPorts
    <2> QED
      BY <1>2, <2>1, <2>2, <2>3, PortAssumption
  <1>5. NextPort(pasv_port[s]) = pasv_port[s] + 1
    BY <1>2, <1>4, PortAssumption DEF NextPort
  <1>6. /\ pasv_port' = [pasv_port EXCEPT ![s] = pasv_port[s] + 1]
        /\ pasv_count' = [pasv_count EXCEPT ![s] = pasv_count[s] + 1]
    BY <1>5 DEF OpensListener
  <1>7. \A t \in Sessions : Base(t)' = Base(t)
    BY <1>1, <1>2, <1>6 DEF Base, TypeOK
  <1>8. Started' = Started
    BY <1>1, <1>2, <1>6 DEF Started, TypeOK
  <1>9. NextBase' = NextBase
    BY <1>8 DEF NextBase
  <1>10. RangesInv'
    <2>1. \A t \in Sessions \ Started : pasv_count'[t] = pasv_count[t]
      BY <1>1, <1>6 DEF TypeOK
    <2>2. \A t \in Started : t \in Sessions
      BY DEF Started
    <2> QED
      BY <1>7, <1>8, <1>9, <2>1, <2>2 DEF PortInv, RangesInv
  <1> QED
    BY <1>1, <1>2, <1>3, <1>7, <1>8, <1>10

\* A step that opens no listener and makes no connection only lets go of what
\* the sessions held, or moves a waiting connection to the data connection.
LEMMA UseShrinks ==
  ASSUME TypeOK, UseInv, Started \subseteq Started',
         \A t \in Started : Base(t)' = Base(t),
         announced' = announced,
         \A t \in Sessions :
           /\ pasv_listen_socket'[t] \in {pasv_listen_socket[t], NoSocket}
           /\ backlog'[t] \in {backlog[t], <<>>}
           /\ \/ data_socket'[t] \in {data_socket[t], NoSocket}
              \/ backlog[t] # <<>> /\ data_socket'[t] = Head(backlog[t])
  PROVE  UseInv'
  <1> SUFFICES ASSUME NEW t \in Sessions
               PROVE  /\ pasv_listen_socket'[t] # NoSocket =>
                           /\ t \in Started'
                           /\ InRange(t, pasv_listen_socket[t])'
                      /\ \A port \in announced'[t] :
                           t \in Started' /\ InRange(t, port)'
                      /\ backlog'[t] \in Seq({t})
                      /\ data_socket'[t] \in {NoSocket, t}
    BY DEF UseInv
  <1>1. pasv_listen_socket'[t] # NoSocket =>
          t \in Started' /\ InRange(t, pasv_listen_socket[t])'
    BY DEF UseInv, InRange
  <1>2. \A port \in announced'[t] : t \in Started' /\ InRange(t, port)'
    BY DEF UseInv, InRange
  <1>3. backlog'[t] \in Seq({t}) /\ (backlog[t] # <<>> => Head(backlog[t]) = t)
    <2>1. backlog[t] \in Seq({t}) /\ backlog'[t] \in {backlog[t], <<>>}
      BY DEF UseInv
    <2>2. <<>> \in Seq({t})
      OBVIOUS
    <2>3. backlog'[t] \in Seq({t})
      BY <2>1, <2>2
    <2>4. ASSUME backlog[t] # <<>> PROVE Head(backlog[t]) = t
      <3>1. 1 \in DOMAIN backlog[t] /\ backlog[t][1] \in {t}
        BY <2>1, <2>4
      <3> QED
        BY <3>1
    <2> QED
      BY <2>3, <2>4
  <1>4. data_socket'[t] \in {NoSocket, t}
    BY <1>3 DEF UseInv
  <1> QED
    BY <1>1, <1>2, <1>3, <1>4

LEMMA UseOpens ==
  ASSUME EnoughPorts, SessionInv, PortInv, NEW s \in Sessions,
         at[s] = "loop", OpensListener(s),
         UNCHANGED <<g_pasv_port_counter, data_socket>>
  PROVE  PortInv'
  <1>1. /\ RangesInv' /\ Started' = Started /\ s \in Started
        /\ \A t \in Sessions : Base(t)' = Base(t)
        /\ InRange(s, pasv_port[s]) /\ pasv_port[s] \in Ports
    BY RangesOpen
  <1>2. Announced(pasv_port[s]) = pasv_port[s]
    BY <1>1, PortsAreNumbers, AnnouncedIsPort
  <1>3. /\ pasv_listen_socket' = [pasv_listen_socket EXCEPT ![s] = pasv_port[s]]
        /\ announced' = [announced EXCEPT ![s] = @ \cup {pasv_port[s]}]
        /\ backlog' = [backlog EXCEPT ![s] = <<>>]
    BY <1>2 DEF OpensListener
  <1>4. /\ pasv_listen_socket'[s] = pasv_port[s]
        /\ announced'[s] = announced[s] \cup {pasv_port[s]}
        /\ backlog'[s] = <<>>
        /\ \A t \in Sessions \ {s} :
             /\ pasv_listen_socket'[t] = pasv_listen_socket[t]
             /\ announced'[t] = announced[t] /\ backlog'[t] = backlog[t]
    BY <1>3 DEF SessionInv, TypeOK
  <1>6. <<>> \in Seq({s})
    OBVIOUS
  <1>7. UseInv'
    <2> SUFFICES ASSUME NEW t \in Sessions
                 PROVE  /\ pasv_listen_socket'[t] # NoSocket =>
                             /\ t \in Started'
                             /\ InRange(t, pasv_listen_socket[t])'
                        /\ \A port \in announced'[t] :
                             t \in Started' /\ InRange(t, port)'
                        /\ backlog'[t] \in Seq({t})
                        /\ data_socket'[t] \in {NoSocket, t}
      BY DEF UseInv
    <2>1. data_socket'[t] \in {NoSocket, t}
      BY DEF PortInv, UseInv
    <2>2. CASE t = s
      <3>1. s \in Started'
        BY <1>1 DEF InRange
      <3>2. \A port \in announced'[s] : InRange(s, port)'
        BY <1>1, <1>4 DEF PortInv, UseInv, InRange
      <3>3. InRange(s, pasv_listen_socket[s])'
        BY <1>1, <1>4 DEF InRange
      <3> QED
        BY <1>4, <1>6, <2>1, <2>2, <3>1, <3>2, <3>3
    <2>3. CASE t # s
      BY <1>1, <1>4, <2>1, <2>3 DEF PortInv, UseInv, InRange
    <2> QED
      BY <2>2, <2>3
  <1> QED
    BY <1>1, <1>7 DEF PortInv

\* Two ranges never share a port, so the listener a client finds at the port it
\* was told is its own session's.
LEMMA ConnectsToOwn ==
  ASSUME EnoughPorts, SessionInv, PortInv, NEW s \in Sessions, NEW t \in Sessions,
         pasv_listen_socket[t] \in announced[s]
  PROVE  t = s
  <1>1. pasv_listen_socket[t] \in Int /\ pasv_listen_socket[t] # NoSocket
    BY PortsAreNumbers DEF SessionInv, TypeOK, NoSocket
  <1>2. Base(s) \in Int /\ Base(t) \in Int
    BY StartedType DEF SessionInv
  <1>3. /\ s \in Started /\ InRange(s, pasv_listen_socket[t])
        /\ t \in Started /\ InRange(t, pasv_listen_socket[t])
    BY <1>1 DEF PortInv, UseInv
  <1> QED
    BY <1>1, <1>2, <1>3, PortAssumption DEF PortInv, RangesInv, InRange

LEMMA UseConnects ==
  ASSUME EnoughPorts, SessionInv, PortInv, NEW s \in Sessions, ClientConnects(s)
  PROVE  PortInv'
  <1>1. PICK t \in Sessions :
          /\ pasv_listen_socket[t] \in announced[s]
          /\ backlog' = [backlog EXCEPT ![t] = Append(@, s)]
    BY DEF ClientConnects
  <1>2. t = s
    BY <1>1, ConnectsToOwn
  <1>3. Append(backlog[s], s) \in Seq({s})
    BY DEF PortInv, UseInv
  <1>4. UNCHANGED <<g_pasv_port_counter, pasv_port, pasv_count,
                    pasv_listen_socket, announced, data_socket>>
    BY DEF ClientConnects, transfer
  <1>5. UseInv'
    BY <1>1, <1>2, <1>3, <1>4
    DEF SessionInv, TypeOK, PortInv, UseInv, InRange, Base, Started
  <1> QED
    BY <1>4, <1>5, RangesKept DEF PortInv

\* Every step of the program but PASV opening a listener and a thread taking its
\* range leaves the ranges alone; all but a connecting client only let go.
LEMMA PortStep ==
  ASSUME EnoughPorts, SessionInv, PortInv, [Next]_vars
  PROVE  PortInv'
  <1> USE DEF PortInv
  <1>1. TypeOK
    BY DEF SessionInv
  <1> DEFINE Keeps == UNCHANGED <<g_pasv_port_counter, pasv_port, pasv_count,
                                  announced>>
             Shrinks == \A t \in Sessions :
               /\ pasv_listen_socket'[t] \in {pasv_listen_socket[t], NoSocket}
               /\ backlog'[t] \in {backlog[t], <<>>}
               /\ \/ data_socket'[t] \in {data_socket[t], NoSocket}
                  \/ backlog[t] # <<>> /\ data_socket'[t] = Head(backlog[t])
  <1>2. ASSUME Keeps, Shrinks
        PROVE  PortInv'
    <2>1. RangesInv' /\ Started' = Started
      BY <1>2, RangesKept DEF Started
    <2>2. \A t \in Sessions : Base(t)' = Base(t)
      BY <1>2 DEF Base
    <2> QED
      BY <1>1, <1>2, <2>1, <2>2, UseShrinks DEF Started
  <1>3. CASE UNCHANGED vars
    BY <1>2, <1>3 DEF vars, passive, transfer
  <1>4. ASSUME NEW s \in Sessions, NEW r, Command(s, r)
        PROVE  PortInv'
    <2>1. CASE UNCHANGED <<g_pasv_port_counter, passive, transfer>>
      BY <1>2, <2>1 DEF passive, transfer
    <2>2. CASE handle_QUIT(s, r)
      BY <1>1, <1>2, <2>2 DEF handle_QUIT, CleansUp, TypeOK
    <2>3. CASE handle_PASV(s, r)
      <3>1. at[s] = "loop" /\ UNCHANGED <<g_pasv_port_counter, data_socket>>
        BY <2>3 DEF handle_PASV, Receives, transfer
      <3>2. CASE UNCHANGED passive
        BY <1>2, <3>1, <3>2 DEF passive
      <3>3. CASE ClosesListener(s) /\ UNCHANGED <<pasv_port, pasv_count, announced>>
        BY <1>1, <1>2, <3>1, <3>3, ClosesListenerType
      <3>4. CASE OpensListener(s)
        BY <3>1, <3>4, UseOpens
      <3> QED
        BY <2>3, <3>2, <3>3, <3>4 DEF handle_PASV
    <2> QED
      BY <1>4, <2>1, <2>2, <2>3
      DEF Command, handle_USER, handle_PASS, handle_CWD, handle_PWD, handle_CDUP,
          handle_other, handle_LIST, handle_RETR, handle_STOR, RefusesTransfer,
          BeginsTransfer
  <1>5. ASSUME NEW s \in Sessions, NEW r, ThreadStarts(s, r)
        PROVE  PortInv'
    <2>1. /\ RangesInv' /\ Started' = Started \cup {s}
          /\ \A t \in Started : Base(t)' = Base(t)
      BY <1>5, RangesStart
    <2>2. UNCHANGED <<pasv_listen_socket, backlog, announced, data_socket>>
      BY <1>5 DEF ThreadStarts, transfer
    <2> QED
      BY <1>1, <2>1, <2>2, UseShrinks
  <1>6. ASSUME NEW s \in Sessions, NEW r,
               \/ AcceptLIST(s, r) \/ AcceptRETR(s, r) \/ AcceptSTOR(s, r)
               \/ AcceptFails(s, r)
        PROVE  PortInv'
    <2>1. Keeps /\ ClosesListener(s)
      BY <1>6 DEF AcceptLIST, AcceptRETR, AcceptSTOR, AcceptFails, AcceptsData,
                  transfer
    <2>2. \/ data_socket' = data_socket
          \/ /\ backlog[s] # <<>>
             /\ data_socket' = [data_socket EXCEPT ![s] = Head(backlog[s])]
      BY <1>6 DEF AcceptLIST, AcceptRETR, AcceptSTOR, AcceptFails, AcceptsData,
                  transfer
    <2>3. ASSUME NEW t \in Sessions
          PROVE  /\ pasv_listen_socket'[t] \in {pasv_listen_socket[t], NoSocket}
                 /\ backlog'[t] \in {backlog[t], <<>>}
      <3>1. CASE t = s
        BY <1>1, <2>1, <3>1, ClosesListenerType
      <3>2. CASE t # s
        BY <1>1, <2>1, <3>2, ClosesListenerType
      <3> QED
        BY <3>1, <3>2
    <2>4. ASSUME NEW t \in Sessions
          PROVE  \/ data_socket'[t] \in {data_socket[t], NoSocket}
                 \/ backlog[t] # <<>> /\ data_socket'[t] = Head(backlog[t])
      BY <1>1, <2>2 DEF TypeOK
    <2>5. Shrinks
      BY <2>3, <2>4
    <2> QED
      BY <1>2, <2>1, <2>5
  <1>7. ASSUME NEW s \in Sessions, NEW r,
               \/ ListFails(s, r) \/ SendLIST(s, r) \/ SendRETR(s)
               \/ FinishRETR(s, r) \/ FinishSTOR(s, r)
        PROVE  PortInv'
    <2>1. Keeps /\ UNCHANGED <<pasv_listen_socket, backlog>>
      BY <1>7 DEF ListFails, SendLIST, SendRETR, FinishRETR, FinishSTOR, passive
    <2>2. \/ data_socket' = data_socket
          \/ data_socket' = [data_socket EXCEPT ![s] = NoSocket]
      BY <1>7 DEF ListFails, SendLIST, SendRETR, FinishRETR, FinishSTOR,
                  ClosesData
    <2>3. Shrinks
      BY <1>1, <2>1, <2>2 DEF TypeOK
    <2> QED
      BY <1>2, <2>1, <2>3
  <1>8. ASSUME NEW s \in Sessions, Disconnect(s)
        PROVE  PortInv'
    BY <1>1, <1>2, <1>8 DEF Disconnect, CleansUp, TypeOK
  <1>9. ASSUME NEW s \in Sessions,
               \/ MainAccepts(s) \/ ClientEndsData(s) \/ ClientCloses(s)
               \/ SigPipe(s) \/ Sigint \/ OverrunsListing(s)
               \/ \E arg \in CwdArgs : OverrunsPath(s, arg)
        PROVE  PortInv'
    BY <1>2, <1>9 DEF MainAccepts, ClientEndsData, ClientCloses, SigPipe, Sigint,
                      OverrunsListing, OverrunsPath, Killed, passive, transfer
  <1>10. ASSUME Sigint PROVE PortInv'
    BY <1>2, <1>10 DEF Sigint, passive, transfer
  <1>11. ASSUME NEW s \in Sessions, ClientConnects(s) PROVE PortInv'
    BY <1>11, UseConnects
  <1> QED
    BY <1>3, <1>4, <1>5, <1>6, <1>7, <1>8, <1>9, <1>10, <1>11
    DEF Next, Proceeds, Client

LEMMA PortInit == ASSUME EnoughPorts, Init PROVE PortInv
  <1>1. Started = {}
    BY DEF Init, Started
  <1>2. NextBase = PortLo
    BY <1>1, FS_EmptySet, PortAssumption DEF NextBase
  <1>3. RangesInv
    BY <1>1, <1>2 DEF Init, RangesInv
  <1>4. UseInv
    BY <1>1 DEF Init, UseInv
  <1> QED
    BY <1>3, <1>4 DEF PortInv

\* With enough ports, every session keeps to its own range.
THEOREM PortTheorem == ASSUME EnoughPorts PROVE Spec => []PortInv
  BY PortInit, PortStep, SessionTheorem, PTL DEF Spec

\* With enough ports, no transfer ever serves another session's client.
THEOREM OwnDataTheorem == ASSUME EnoughPorts PROVE Spec => []OwnData
  <1>1. PortInv => OwnData
    BY DEF PortInv, UseInv, OwnData
  <1> QED
    BY <1>1, PortTheorem, PTL

\* With enough ports, the two comments on the ports hold: sessions start from
\* different ports, and a session listens in its own range only.
THEOREM ReservedTheorem ==
  ASSUME EnoughPorts PROVE Spec => [](StartPortsDiffer /\ ReservedPorts)
  <1>1. SessionInv /\ PortInv => StartPortsDiffer /\ ReservedPorts
    <2> SUFFICES ASSUME SessionInv, PortInv, NEW s \in Sessions, NEW t \in Sessions,
                        s # t, Live(s), Live(t), pasv_count[t] = 0
                 PROVE  /\ pasv_count[s] = 0 => pasv_port[s] # pasv_port[t]
                        /\ pasv_listen_socket[s] \notin
                             pasv_port[t]..(pasv_port[t] + Stride - 1)
      BY DEF StartPortsDiffer, ReservedPorts
    <2>1. s \in Started /\ t \in Started
      BY DEF SessionInv, TypeOK, HasRange, Live, Started, Steps
    <2>2. /\ Base(s) \in Int /\ Base(t) \in Int /\ pasv_port[s] \in Nat
          /\ pasv_port[t] \in Nat /\ Base(t) = pasv_port[t]
          /\ pasv_count[s] = 0 => Base(s) = pasv_port[s]
      BY StartedType DEF SessionInv, Base
    <2>3. Base(s) + Stride <= Base(t) \/ Base(t) + Stride <= Base(s)
      BY <2>1 DEF PortInv, RangesInv
    <2>4. pasv_listen_socket[s] = NoSocket \/ InRange(s, pasv_listen_socket[s])
      BY DEF PortInv, UseInv
    <2>5. pasv_listen_socket[s] \in Int /\ (pasv_listen_socket[s] = NoSocket =>
            pasv_listen_socket[s] < 0)
      BY PortsAreNumbers DEF SessionInv, TypeOK, NoSocket
    <2>6. pasv_count[s] = 0 => pasv_port[s] # pasv_port[t]
      BY <2>2, <2>3, PortAssumption
    <2>7. pasv_listen_socket[s] \notin pasv_port[t]..(pasv_port[t] + Stride - 1)
      BY <2>2, <2>3, <2>4, <2>5, PortAssumption DEF InRange
    <2> QED
      BY <2>6, <2>7
  <1> QED
    BY <1>1, PortTheorem, SessionTheorem, PTL

=============================================================================
