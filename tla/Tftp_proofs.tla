----------------------------- MODULE Tftp_proofs -----------------------------
(***************************************************************************)
(* Theorems about the TFTP programs, for files of any length, numbers of   *)
(* any width, and any number of packets lost, doubled, late or out of      *)
(* order.  That the copy is right takes a file whose block numbers do not  *)
(* come round again: one of less than 65536 blocks.                        *)
(***************************************************************************)
EXTENDS Tftp, SequenceTheorems, TLAPS

Acks == {p \in BagToSet(net) : p.op = "ACK"}

OneAck == \E a \in Acks : Acks = {a} /\ net[a] = 1

\* The file, what its sender is at, and who takes part.
FileInv ==
  /\ Len(file) >= 1 /\ Len(file) <= MaxFull + 1
  /\ \A i \in 1..Len(file) : file[i] = i
  /\ position <= Len(file)
  /\ mode = "wrq" \/ server \in {"main", "ack"} => number = Wire(position)

RoleInv ==
  /\ client = "data" => mode = "rrq"
  /\ client \in {"ack0", "ack"} => mode = "wrq"
  /\ server \in {"ack", "gone"} => mode = "rrq"
  /\ server = "taking" => mode = "wrq"

\* The packets under way: a block is one its sender has read.
Right(p) ==
  /\ p.op = "RRQ" => mode = "rrq"
  /\ p.op = "WRQ" => mode = "wrq"
  /\ p.op = "DATA" => p.pos <= position /\ p.block = Wire(p.pos)

NetInv == \A p \in BagToSet(net) : Right(p)

\* A download: what the client expects fits in a short.
DownloadInv ==
  mode = "rrq" =>
    /\ client \in {"start", "data"} => expected_block = Len(saved) + 1
    /\ Len(saved) <= MaxShort
    /\ client = "complete" => Len(file) <= MaxShort \/ (disturbed /\ Wraps)
    /\ server = "main" =>
         /\ saved = <<>> /\ position = 1 /\ Acks = {}
         /\ \A p \in BagToSet(net) : p.op # "DATA"

\* While nothing but blocks was lost: the server is at the block the client waits
\* for, or the client's ACK is on its way, once.
StepInv ==
  mode = "rrq" /\ ~disturbed =>
    /\ position <= Len(saved) + 1
    /\ server = "ack" =>
         \/ position = Len(saved) + 1 /\ Acks = {}
         \/ position = Len(saved) /\ OneAck

TftpInv == TypeOK /\ FileInv /\ RoleInv /\ NetInv /\ DownloadInv /\ StepInv

\* The copy.  In an upload, only blocks the peer has are acknowledged.
CopyInv ==
  /\ Len(saved) <= Len(file)
  /\ \A i \in 1..Len(saved) : saved[i] = i
  /\ client = "complete" => Len(saved) = Len(file)
  /\ mode = "wrq" =>
       /\ position <= Len(saved) + 1
       /\ \A p \in Acks : p.block <= Len(saved)

TransferInv == TftpInv /\ (~Wraps => CopyInv)
-----------------------------------------------------------------------------
(***************************************************************************)
(* Block numbers.                                                          *)
(***************************************************************************)
LEMMA Bounds ==
  /\ MaxShort \in Nat /\ MaxFull \in Nat /\ MaxFaults \in Nat
  /\ Modulus \in Nat \ {0} /\ Modulus > MaxShort
  BY TftpAssumption DEF Modulus

LEMMA WireNumber ==
  \A n \in Nat : Wire(n) \in Numbers /\ (n < Modulus => Wire(n) = n)
  BY TftpAssumption DEF Wire, Numbers, Modulus

\* The client reads the number a block has, if a short holds it, and otherwise
\* one that is negative.
LEMMA ShortNumber ==
  \A n \in Numbers :
    /\ Short(n) <= MaxShort
    /\ n <= MaxShort => Short(n) = n
    /\ n > MaxShort => Short(n) < 0
  BY TftpAssumption DEF Numbers, Modulus, Short

\* The block a client expects is the one of that position, if the server is at
\* most one further than the last it wrote.
LEMMA ExpectedIsNext ==
  ASSUME NEW pos \in Nat, NEW n \in Nat, pos >= 1, Short(Wire(pos)) = n + 1,
         n <= MaxShort, pos <= n + 1 \/ pos < Modulus
  PROVE  pos = n + 1 /\ n < MaxShort
  <1>1. Wire(pos) \in Numbers
    BY WireNumber
  <1>2. n + 1 <= MaxShort /\ Wire(pos) <= MaxShort
    BY <1>1, ShortNumber, Bounds DEF Numbers
  <1>3. pos < Modulus
    BY <1>2, Bounds
  <1>4. Wire(pos) = pos
    BY <1>3, WireNumber
  <1> QED
    BY <1>1, <1>2, <1>4, ShortNumber, Bounds
-----------------------------------------------------------------------------
(***************************************************************************)
(* The packets under way.                                                  *)
(***************************************************************************)
LEMMA BagSends ==
  ASSUME NEW b, IsABag(b), NEW q
  PROVE  /\ IsABag(b (+) SetToBag({q}))
         /\ BagToSet(b (+) SetToBag({q})) = BagToSet(b) \cup {q}
         /\ \A p \in BagToSet(b) \ {q} : (b (+) SetToBag({q}))[p] = b[p]
         /\ q \notin BagToSet(b) => (b (+) SetToBag({q}))[q] = 1
  BY DEF IsABag, BagToSet, SetToBag, (+)

LEMMA BagTakes ==
  ASSUME NEW b, IsABag(b), NEW p \in BagToSet(b)
  PROVE  /\ IsABag(b (-) SetToBag({p}))
         /\ BagToSet(b (-) SetToBag({p})) \subseteq BagToSet(b)
         /\ BagToSet(b) \ {p} \subseteq BagToSet(b (-) SetToBag({p}))
         /\ \A q \in BagToSet(b) \ {p} : (b (-) SetToBag({p}))[q] = b[q]
         /\ b[p] = 1 => p \notin BagToSet(b (-) SetToBag({p}))
  BY DEF IsABag, BagToSet, SetToBag, (-)

LEMMA SendsEffect ==
  ASSUME IsABag(net), NEW q, Sends(q)
  PROVE  /\ IsABag(net') /\ BagToSet(net') = BagToSet(net) \cup {q}
         /\ q.op # "ACK" => Acks' = Acks /\ (OneAck => OneAck')
  <1>1. /\ IsABag(net') /\ BagToSet(net') = BagToSet(net) \cup {q}
        /\ \A p \in BagToSet(net) \ {q} : net'[p] = net[p]
    BY BagSends DEF Sends
  <1> QED
    BY <1>1 DEF Acks, OneAck

LEMMA TakesEffect ==
  ASSUME IsABag(net), NEW p \in BagToSet(net), Takes(p)
  PROVE  /\ IsABag(net') /\ BagToSet(net') \subseteq BagToSet(net)
         /\ p.op # "ACK" => Acks' = Acks /\ (OneAck => OneAck')
         /\ p.op = "ACK" /\ OneAck => Acks' = {}
         /\ Acks' \subseteq Acks
  <1>1. /\ IsABag(net') /\ BagToSet(net') \subseteq BagToSet(net)
        /\ BagToSet(net) \ {p} \subseteq BagToSet(net')
        /\ \A q \in BagToSet(net) \ {p} : net'[q] = net[q]
        /\ net[p] = 1 => p \notin BagToSet(net')
    BY BagTakes DEF Takes
  <1> QED
    BY <1>1 DEF Acks, OneAck

LEMMA AnswersEffect ==
  ASSUME IsABag(net), NEW p \in BagToSet(net), NEW q, Answers(p, q)
  PROVE  /\ IsABag(net') /\ BagToSet(net') \subseteq BagToSet(net) \cup {q}
         /\ p.op # "ACK" /\ q.op # "ACK" => Acks' = Acks /\ (OneAck => OneAck')
         /\ p.op = "ACK" /\ q.op # "ACK" /\ OneAck => Acks' = {}
         /\ p.op # "ACK" /\ q.op = "ACK" /\ Acks = {} => OneAck'
         /\ Acks' \subseteq Acks \cup {q}
         /\ q.op # "ACK" => Acks' \subseteq Acks
  <1> DEFINE b == net (-) SetToBag({p})
  <1>1. /\ IsABag(b) /\ BagToSet(b) \subseteq BagToSet(net)
        /\ BagToSet(net) \ {p} \subseteq BagToSet(b)
        /\ \A r \in BagToSet(net) \ {p} : b[r] = net[r]
        /\ net[p] = 1 => p \notin BagToSet(b)
    BY BagTakes
  <1>2. net' = b (+) SetToBag({q})
    BY DEF Answers
  <1> HIDE DEF b
  <1>3. /\ IsABag(net') /\ BagToSet(net') = BagToSet(b) \cup {q}
        /\ \A r \in BagToSet(b) \ {q} : net'[r] = b[r]
        /\ q \notin BagToSet(b) => net'[q] = 1
    BY <1>1, <1>2, BagSends
  <1>4. \A r \in BagToSet(net) \ {p, q} : r \in BagToSet(net') /\ net'[r] = net[r]
    BY <1>1, <1>3
  <1>5. p.op # "ACK" /\ q.op # "ACK" => Acks' = Acks /\ (OneAck => OneAck')
    BY <1>1, <1>3, <1>4 DEF Acks, OneAck
  <1>6. p.op = "ACK" /\ q.op # "ACK" /\ OneAck => Acks' = {}
    BY <1>1, <1>3 DEF Acks, OneAck
  <1>7. p.op # "ACK" /\ q.op = "ACK" /\ Acks = {} => OneAck'
    BY <1>1, <1>3 DEF Acks, OneAck
  <1> QED
    BY <1>1, <1>3, <1>5, <1>6, <1>7 DEF Acks
-----------------------------------------------------------------------------
LEMMA PacketTypes ==
  /\ Asks("RRQ") \in Packets /\ Asks("WRQ") \in Packets /\ ERROR \in Packets
  /\ Asks("RRQ").op = "RRQ" /\ Asks("WRQ").op = "WRQ" /\ ERROR.op = "ERROR"
  /\ \A n \in Numbers : ACK(n) \in Packets /\ ACK(n).op = "ACK" /\ ACK(n).block = n
  /\ \A p \in Packets :
       /\ p.op \in Requests \cup {"ACK", "DATA"}
       /\ p.block \in Numbers
       /\ p.op = "DATA" => p.pos \in 1..(MaxFull + 1)
  <1>1. 0 \in Numbers
    BY Bounds DEF Numbers
  <1> QED
    BY <1>1 DEF Asks, ERROR, ACK, Packet, Packets, Requests

LEMMA DataPacket ==
  ASSUME number \in Numbers, position \in 1..(MaxFull + 1)
  PROVE  /\ DATA \in Packets /\ DATA.op = "DATA"
         /\ DATA.block = number /\ DATA.pos = position
  BY DEF DATA, Packet, Packets

\* The next block is one the file has.
LEMMA NextBlock ==
  ASSUME TypeOK, FileInv, ~IsShort(position)
  PROVE  /\ position + 1 \in 1..(MaxFull + 1) /\ position + 1 <= Len(file)
         /\ Wire(number + 1) \in Numbers
  <1>1. Len(file) \in Nat /\ position \in Nat /\ number + 1 \in Nat
    BY LenProperties, Bounds DEF TypeOK, Numbers
  <1> QED
    BY <1>1, Bounds, WireNumber DEF TypeOK, FileInv, IsShort

LEMMA NextNumber == \A n \in Nat : Wire(Wire(n) + 1) = Wire(n + 1)
  BY SMTT(20), TftpAssumption DEF Wire, Modulus

LEMMA InitTftp == Init => TransferInv
  <1> SUFFICES ASSUME Init PROVE TransferInv
    OBVIOUS
  <1>1. PICK full \in 0..MaxFull : file = [i \in 1..(full + 1) |-> i]
    BY DEF Init
  <1>2. full + 1 \in 1..(MaxFull + 1)
    BY Bounds
  <1>3. file \in Seq(1..(MaxFull + 1)) /\ Len(file) = full + 1
    <2>1. full + 1 \in Nat /\ \A i \in 1..(full + 1) : i \in 1..(MaxFull + 1)
      BY <1>2, Bounds
    <2>2. file \in [1..(full + 1) -> 1..(MaxFull + 1)]
      BY <1>1, <2>1
    <2>3. file \in Seq(1..(MaxFull + 1))
      BY <2>1, <2>2, SeqDef
    <2>4. Len(file) = full + 1
      BY <1>1, <2>1
    <2> QED
      BY <2>3, <2>4
  <1>4. saved = <<>> /\ Len(saved) = 0 /\ saved \in Seq(1..(MaxFull + 1))
    BY EmptySeq DEF Init
  <1>5. IsABag(net) /\ BagToSet(net) = {} /\ Acks = {}
    BY DEF Init, EmptyBag, SetToBag, IsABag, BagToSet, Acks
  <1>6. number \in Numbers /\ number = 1 /\ position = 1 /\ Wire(position) = 1
    BY WireNumber, TftpAssumption DEF Init, Numbers, Modulus
  <1>7. TypeOK
    <2>1. IsABag(net) /\ BagToSet(net) \subseteq Packets
      BY <1>5
    <2>2. position \in 1..(MaxFull + 1) /\ faults \in 0..MaxFaults
      BY <1>6, Bounds DEF Init
    <2>3. /\ mode \in {"rrq", "wrq"}
          /\ client \in {"start", "data", "ack0", "ack", "complete", "broke", "exit"}
          /\ expected_block \in Nat \ {0}
          /\ server \in {"main", "ack", "taking", "over", "gone"}
      BY DEF Init
    <2>4. exists \in BOOLEAN /\ disturbed \in BOOLEAN
      BY Zenon DEF Init
    <2> QED
      BY <1>3, <1>4, <1>6, <2>1, <2>2, <2>3, <2>4, Zenon DEF TypeOK
  <1>8. FileInv
    BY <1>1, <1>2, <1>3, <1>6, Bounds DEF FileInv
  <1>9. RoleInv /\ NetInv /\ DownloadInv /\ StepInv
    BY <1>4, <1>5, <1>6, Bounds DEF Init, RoleInv, NetInv, DownloadInv, StepInv
  <1>10. CopyInv
    BY <1>3, <1>4, <1>5, <1>6, <1>2 DEF Init, CopyInv
  <1> QED
    BY <1>7, <1>8, <1>9, <1>10 DEF TransferInv, TftpInv
-----------------------------------------------------------------------------
(***************************************************************************)
(* Steps that neither read nor write a block.                              *)
(***************************************************************************)
ClientSteps == {"start", "data", "ack0", "ack", "complete", "broke", "exit"}
ServerSteps == {"main", "ack", "taking", "over", "gone"}

LEMMA QuietStep ==
  ASSUME TransferInv, UNCHANGED <<request, expected_block, sender, saved>>,
         client' \in ClientSteps, server' \in ServerSteps, RoleInv',
         faults' \in 0..MaxFaults, disturbed' \in BOOLEAN, disturbed => disturbed',
         client' \in {"start", "data"} => client \in {"start", "data"},
         client' = "complete" => client = "complete",
         server' \in {"main", "ack"} => server \in {"main", "ack"},
         NEW q \in Packets, Right(q), IsABag(net'),
         BagToSet(net') \subseteq BagToSet(net) \cup {q},
         q.op = "ACK" => q \in Acks \/ q.block = 0,
         mode = "rrq" /\ server' = "main" =>
           server = "main" /\ q.op \notin {"ACK", "DATA"},
         mode = "rrq" /\ ~disturbed' /\ server' = "ack" =>
           Acks' = Acks /\ (OneAck => OneAck')
  PROVE  TransferInv'
  <1> USE DEF TransferInv, TftpInv, request, sender
  <1>1. TypeOK'
    <2>1. BagToSet(net') \subseteq Packets
      BY DEF TypeOK
    <2> QED
      BY <2>1 DEF TypeOK, ClientSteps, ServerSteps
  <1>2. FileInv'
    BY DEF FileInv
  <1>3. NetInv'
    BY DEF NetInv, Right
  <1>4. Len(saved) \in Nat /\ Len(file) \in Nat
    BY LenProperties DEF TypeOK
  <1>5. DownloadInv'
    <2>1. mode = "rrq" /\ server' = "main" =>
            Acks' = {} /\ \A p \in BagToSet(net') : p.op # "DATA"
      BY DEF DownloadInv, Acks
    <2> QED
      BY <2>1 DEF DownloadInv, Wraps
  <1>6. StepInv'
    <2> SUFFICES ASSUME mode = "rrq", ~disturbed'
                 PROVE  /\ position <= Len(saved) + 1
                        /\ server' = "ack" =>
                             \/ position = Len(saved) + 1 /\ Acks' = {}
                             \/ position = Len(saved) /\ OneAck'
      BY DEF StepInv
    <2>1. position <= Len(saved) + 1
      BY DEF StepInv
    <2>2. ASSUME server' = "ack"
          PROVE  \/ position = Len(saved) + 1 /\ Acks' = {}
                 \/ position = Len(saved) /\ OneAck'
      <3>1. CASE server = "ack"
        BY <2>2, <3>1 DEF StepInv
      <3>2. CASE server = "main"
        <4>1. Len(saved) = 0
          BY <3>2, EmptySeq DEF DownloadInv
        <4> QED
          BY <2>2, <3>2, <4>1 DEF DownloadInv
      <3> QED
        BY <2>2, <3>1, <3>2
    <2> QED
      BY <2>1, <2>2
  <1>7. ~Wraps' => CopyInv'
    <2>1. Acks' \subseteq Acks \cup {q} /\ \A p \in Acks' : p = q => q.op = "ACK"
      BY DEF Acks
    <2> QED
      BY <1>4, <2>1 DEF CopyInv, Wraps
  <1> QED
    BY <1>1, <1>2, <1>3, <1>5, <1>6, <1>7

\* A packet that arrives.
LEMMA Arrived ==
  ASSUME TransferInv, NEW p \in BagToSet(net)
  PROVE  p \in Packets /\ Right(p) /\ IsABag(net) /\ (p.op = "ACK" => p \in Acks)
  BY DEF TransferInv, TftpInv, TypeOK, NetInv, Acks

LEMMA RequestsStep ==
  ASSUME TransferInv, SendsRRQ \/ SendsWRQ
  PROVE  TransferInv'
  <1> USE DEF TransferInv, TftpInv
  <1>1. PICK q \in {Asks("RRQ"), Asks("WRQ")} :
          Sends(q) /\ (mode = "rrq" => q = Asks("RRQ")) /\ (mode = "wrq" => q = Asks("WRQ"))
    BY DEF SendsRRQ, SendsWRQ
  <1>2. q \in Packets /\ q.op \in {"RRQ", "WRQ"} /\ Right(q)
    BY <1>1, PacketTypes DEF TypeOK, Right
  <1>3. /\ IsABag(net') /\ BagToSet(net') \subseteq BagToSet(net) \cup {q}
        /\ Acks' = Acks /\ (OneAck => OneAck')
    BY <1>1, <1>2, SendsEffect DEF TypeOK
  <1>4. /\ client = "start"
        /\ client' \in IF mode = "rrq" THEN {"data", "exit"} ELSE {"ack0", "exit"}
        /\ UNCHANGED <<request, expected_block, server, sender, saved, network>>
    BY DEF SendsRRQ, SendsWRQ
  <1>5. RoleInv'
    BY <1>4 DEF RoleInv, request, TypeOK
  <1> QED
    BY <1>2, <1>3, <1>4, <1>5, QuietStep DEF TypeOK, network, ClientSteps, ServerSteps

\* The client takes a packet and does not answer: it ignores an old block, or ends.
LEMMA ClientTakesStep ==
  ASSUME TransferInv, NEW p \in BagToSet(net),
         IgnoresBlock(p) \/ TakesError(p) \/ TakesNoAck0(p) \/ TakesOther(p)
  PROVE  TransferInv'
  <1> USE DEF TransferInv, TftpInv
  <1>1. /\ Takes(p) /\ client' \in {client, "broke", "exit"}
        /\ client' = "data" => client = "data"
        /\ mode = "rrq" => p.op # "ACK"
        /\ UNCHANGED <<request, expected_block, server, sender, saved, network>>
    BY DEF IgnoresBlock, TakesError, TakesNoAck0, TakesOther, Arrives, RoleInv, TypeOK
  <1>2. /\ IsABag(net') /\ BagToSet(net') \subseteq BagToSet(net) \cup {p}
        /\ p.op # "ACK" => Acks' = Acks /\ (OneAck => OneAck')
    BY <1>1, Arrived, TakesEffect
  <1>3. RoleInv'
    BY <1>1 DEF RoleInv, request, TypeOK
  <1>4. mode = "rrq" /\ server' = "main" => server = "main" /\ p.op \notin {"ACK", "DATA"}
    BY <1>1 DEF DownloadInv
  <1> QED
    BY <1>1, <1>2, <1>3, <1>4, Arrived, QuietStep
    DEF TypeOK, network, ClientSteps, ServerSteps

\* The answer to a request: np18's first block or its ERROR, or the peer's ACK.
LEMMA TakesRRQStep ==
  ASSUME TransferInv, NEW p \in BagToSet(net), TakesRRQ(p)
  PROVE  TransferInv'
  <1> USE DEF TransferInv, TftpInv
  <1>1. /\ server = "main" /\ server' \in {"ack", "over"} /\ p.op = "RRQ"
        /\ UNCHANGED <<request, client, expected_block, sender, saved, network>>
    BY DEF TakesRRQ, Arrives
  <1>2. mode = "rrq"
    BY <1>1, Arrived DEF Right
  <1>3. PICK q \in {DATA, ERROR} : Answers(p, q)
    BY DEF TakesRRQ
  <1>4. q \in Packets /\ q.op \in {"DATA", "ERROR"} /\ Right(q)
    BY <1>1, <1>2, <1>3, PacketTypes, DataPacket DEF TypeOK, Right, FileInv
  <1>5. /\ IsABag(net') /\ BagToSet(net') \subseteq BagToSet(net) \cup {q}
        /\ Acks' = Acks /\ (OneAck => OneAck')
    BY <1>1, <1>3, <1>4, Arrived, AnswersEffect
  <1>6. RoleInv'
    BY <1>1, <1>2 DEF RoleInv, request
  <1> QED
    BY <1>1, <1>4, <1>5, <1>6, QuietStep DEF TypeOK, network, ClientSteps, ServerSteps

LEMMA PeerAnswersStep ==
  ASSUME TransferInv, NEW p \in BagToSet(net), PeerTakesWRQ(p) \/ PeerFails(p)
  PROVE  TransferInv'
  <1> USE DEF TransferInv, TftpInv
  <1>1. /\ server \in {"main", "taking"} /\ server' \in {"taking", "over"}
        /\ server = "main" => p.op = "WRQ"
        /\ UNCHANGED <<request, client, expected_block, sender, saved, network>>
    BY DEF PeerTakesWRQ, PeerFails, Arrives
  <1>2. mode = "wrq"
    BY <1>1, Arrived DEF Right, RoleInv
  <1>3. PICK q \in {ACK(0), ERROR} : Answers(p, q)
    BY DEF PeerTakesWRQ, PeerFails
  <1>4. 0 \in Numbers
    BY Bounds DEF Numbers
  <1>5. q \in Packets /\ q.op \in {"ACK", "ERROR"} /\ Right(q) /\ (q.op = "ACK" => q.block = 0)
    BY <1>3, <1>4, PacketTypes DEF Right
  <1>6. IsABag(net') /\ BagToSet(net') \subseteq BagToSet(net) \cup {q}
    BY <1>3, Arrived, AnswersEffect
  <1>7. RoleInv'
    BY <1>1, <1>2 DEF RoleInv, request
  <1> QED
    BY <1>1, <1>2, <1>5, <1>6, <1>7, QuietStep
    DEF TypeOK, network, request, ClientSteps, ServerSteps

LEMMA TakesAck0Step ==
  ASSUME TransferInv, NEW p \in BagToSet(net), TakesAck0(p)
  PROVE  TransferInv'
  <1> USE DEF TransferInv, TftpInv
  <1>1. /\ client = "ack0" /\ client' = "ack" /\ Answers(p, DATA)
        /\ UNCHANGED <<request, expected_block, server, sender, saved, network>>
    BY DEF TakesAck0
  <1>2. mode = "wrq"
    BY <1>1 DEF RoleInv
  <1>3. DATA \in Packets /\ DATA.op = "DATA" /\ Right(DATA)
    BY <1>2, DataPacket DEF TypeOK, Right, FileInv
  <1>4. IsABag(net') /\ BagToSet(net') \subseteq BagToSet(net) \cup {DATA}
    BY <1>1, Arrived, AnswersEffect
  <1>5. RoleInv'
    BY <1>1, <1>2 DEF RoleInv, request
  <1> QED
    BY <1>1, <1>2, <1>3, <1>4, <1>5, QuietStep
    DEF TypeOK, network, request, ClientSteps, ServerSteps

LEMMA TimesOutStep ==
  ASSUME TransferInv, TimesOut
  PROVE  TransferInv'
  <1> USE DEF TransferInv, TftpInv
  <1>1. /\ server = "ack" /\ mode = "rrq" /\ Sends(DATA)
        /\ UNCHANGED <<request, client, expected_block, server, sender, saved, network>>
    BY DEF TimesOut, SO_RCVTIMEO
  <1>2. DATA \in Packets /\ DATA.op = "DATA" /\ Right(DATA)
    BY <1>1, DataPacket DEF TypeOK, Right, FileInv
  <1>3. /\ IsABag(net') /\ BagToSet(net') \subseteq BagToSet(net) \cup {DATA}
        /\ Acks' = Acks /\ (OneAck => OneAck')
    BY <1>1, <1>2, SendsEffect DEF TypeOK
  <1>4. RoleInv'
    BY <1>1 DEF RoleInv, request
  <1> QED
    BY <1>1, <1>2, <1>3, <1>4, QuietStep
    DEF TypeOK, network, request, ClientSteps, ServerSteps

LEMMA KeyPressedStep ==
  ASSUME TransferInv, KeyPressed \/ UNCHANGED vars
  PROVE  TransferInv'
  <1> USE DEF TransferInv, TftpInv
  <1>1. /\ server' = server \/ (server' = "gone" /\ mode = "rrq")
        /\ UNCHANGED <<request, client, expected_block, sender, saved, net, network>>
    BY DEF KeyPressed, vars, request, sender, network
  <1>2. ERROR \in Packets /\ ERROR.op = "ERROR" /\ Right(ERROR)
    BY PacketTypes DEF Right
  <1>3. /\ IsABag(net') /\ BagToSet(net') \subseteq BagToSet(net) \cup {ERROR}
        /\ Acks' = Acks /\ (OneAck => OneAck')
    BY <1>1 DEF TypeOK, Acks, OneAck
  <1>4. RoleInv'
    BY <1>1 DEF RoleInv, request
  <1> QED
    BY <1>1, <1>2, <1>3, <1>4, QuietStep
    DEF TypeOK, network, request, ClientSteps, ServerSteps

\* What the network does, and a program that reads no more.
LEMMA NetworkStep ==
  ASSUME TransferInv, NEW p \in BagToSet(net), Loses(p) \/ Duplicates(p) \/ Discards(p)
  PROVE  TransferInv'
  <1> USE DEF TransferInv, TftpInv
  <1>1. /\ Takes(p) \/ Sends(p)
        /\ UNCHANGED <<request, client, expected_block, server, sender, saved>>
    BY DEF Loses, Duplicates, Discards
  <1>2. IsABag(net') /\ BagToSet(net') \subseteq BagToSet(net) \cup {p}
    BY <1>1, Arrived, TakesEffect, SendsEffect
  <1>3. p.op # "ACK" => Acks' = Acks /\ (OneAck => OneAck')
    BY <1>1, Arrived, TakesEffect, SendsEffect
  <1>4. faults' \in 0..MaxFaults
    BY Bounds DEF Loses, Duplicates, Discards, network, TypeOK
  <1>5. disturbed' \in BOOLEAN /\ (disturbed => disturbed')
    BY DEF Loses, Duplicates, Discards, network, TypeOK
  <1>6. mode = "rrq" /\ ~disturbed' /\ server = "ack" => p.op # "ACK"
    BY DEF Loses, Duplicates, Discards, Repeated, ToServer
  <1>7. mode = "rrq" /\ server = "main" => p.op \notin {"ACK", "DATA"}
    BY Arrived DEF DownloadInv
  <1>8. RoleInv'
    BY <1>1 DEF RoleInv, request
  <1> QED
    BY <1>1, <1>2, <1>3, <1>4, <1>5, <1>6, <1>7, <1>8, Arrived, QuietStep
    DEF TypeOK, request, ClientSteps, ServerSteps
-----------------------------------------------------------------------------
(***************************************************************************)
(* Steps that read or write a block.                                       *)
(***************************************************************************)
\* The client's: the copy grows by the block that comes next.
LEMMA TakesBlockStep ==
  ASSUME TransferInv, NEW p \in BagToSet(net), TakesBlock(p)
  PROVE  TransferInv'
  <1> USE DEF TransferInv, TftpInv
  <1>1. /\ client = "data" /\ mode = "rrq" /\ p.op = "DATA"
        /\ Short(p.block) = expected_block
        /\ saved' = Append(saved, p.pos) /\ Answers(p, ACK(p.block))
        /\ UNCHANGED <<request, server, sender, network>>
    BY DEF TakesBlock, Arrives, Expected, RoleInv
  <1>2. /\ client' \in {"data", "complete"}
        /\ client' = "complete" => p.pos = Len(file) /\ expected_block' = expected_block
        /\ client' = "data" => expected_block' = expected_block + 1
    BY <1>1 DEF TakesBlock, IsShort
  <1>3. /\ p.pos \in 1..(MaxFull + 1) /\ p.pos <= position /\ p.block = Wire(p.pos)
        /\ p.block \in Numbers
    BY <1>1, Arrived, PacketTypes DEF Right
  <1>4. /\ Len(saved) \in Nat /\ Len(file) \in Nat /\ saved' \in Seq(1..(MaxFull + 1))
        /\ Len(saved') = Len(saved) + 1
        /\ \A i \in 1..Len(saved) : saved'[i] = saved[i]
        /\ saved'[Len(saved) + 1] = p.pos
    BY <1>1, <1>3, LenProperties, AppendProperties DEF TypeOK
  <1>5. expected_block = Len(saved) + 1 /\ Len(saved) <= MaxShort
    BY <1>1 DEF DownloadInv
  <1>6. ~disturbed \/ ~Wraps => p.pos = Len(saved) + 1
    <2>1. ~disturbed => p.pos <= Len(saved) + 1
      BY <1>1, <1>3, <1>4 DEF StepInv, TypeOK
    <2>2. ~Wraps => p.pos < Modulus
      BY <1>3, <1>4, Bounds DEF Wraps, FileInv, TypeOK
    <2> QED
      BY <1>1, <1>3, <1>4, <1>5, <2>1, <2>2, ExpectedIsNext
  <1>7. Len(saved) + 1 <= MaxShort
    BY <1>1, <1>3, <1>5, ShortNumber
  <1>8. server # "main"
    BY <1>1 DEF DownloadInv
  <1>9. ACK(p.block) \in Packets /\ ACK(p.block).op = "ACK"
    BY <1>3, PacketTypes
  <1>10. /\ IsABag(net') /\ BagToSet(net') \subseteq BagToSet(net) \cup {ACK(p.block)}
         /\ Acks = {} => OneAck'
    BY <1>1, <1>9, Arrived, AnswersEffect
  <1>11. TypeOK'
    <2>1. BagToSet(net') \subseteq Packets
      BY <1>9, <1>10 DEF TypeOK
    <2>2. expected_block' \in Nat \ {0}
      BY <1>2 DEF TypeOK
    <2> QED
      BY <1>1, <1>2, <1>4, <1>10, <2>1, <2>2 DEF TypeOK, request, sender, network
  <1>12. FileInv' /\ RoleInv'
    BY <1>1, <1>2 DEF FileInv, RoleInv, request, sender
  <1>13. NetInv'
    BY <1>1, <1>9, <1>10 DEF NetInv, Right, request, sender
  <1>14. DownloadInv'
    <2>1. client' = "complete" => Len(file) <= MaxShort \/ (disturbed /\ Wraps)
      BY <1>2, <1>6, <1>7
    <2> QED
      BY <1>1, <1>2, <1>4, <1>5, <1>7, <1>8, <2>1
      DEF DownloadInv, Wraps, request, network
  <1>15. StepInv'
    <2> SUFFICES ASSUME ~disturbed
                 PROVE  /\ position <= Len(saved') + 1
                        /\ server = "ack" => position = Len(saved') /\ OneAck'
      BY <1>1 DEF StepInv, request, sender, network
    <2>1. position <= Len(saved) + 1 /\ position >= Len(saved) + 1
      BY <1>1, <1>3, <1>4, <1>6 DEF StepInv, TypeOK
    <2>2. position = Len(saved) + 1
      BY <1>4, <2>1 DEF TypeOK
    <2>3. server = "ack" => Acks = {}
      BY <1>1, <1>4, <2>2 DEF StepInv
    <2> QED
      BY <1>4, <1>10, <2>2, <2>3
  <1>16. ~Wraps' => CopyInv'
    <2> SUFFICES ASSUME ~Wraps PROVE CopyInv'
      BY <1>1 DEF Wraps, request
    <2>1. p.pos = Len(saved) + 1 /\ p.pos <= Len(file)
      BY <1>3, <1>4, <1>6 DEF FileInv, TypeOK
    <2>2. \A i \in 1..Len(saved') : saved'[i] = i
      BY <1>4, <2>1 DEF CopyInv
    <2> QED
      BY <1>1, <1>2, <1>4, <2>1, <2>2 DEF CopyInv, request
  <1> QED
    BY <1>11, <1>12, <1>13, <1>14, <1>15, <1>16

\* The sender's: the next block is read and sent.
LEMMA SendsNextBlock ==
  ASSUME TransferInv, NEW p \in BagToSet(net), ~IsShort(position),
         position' = position + 1, number' = Wire(number + 1), Answers(p, DATA'),
         UNCHANGED <<request, expected_block, server, client, saved, network>>,
         mode = "wrq" \/ server = "ack"
  PROVE  /\ TypeOK' /\ FileInv' /\ RoleInv' /\ NetInv'
         /\ DATA'.op = "DATA"
  <1> USE DEF TransferInv, TftpInv
  <1>1. /\ position' \in 1..(MaxFull + 1) /\ position' <= Len(file) /\ number' \in Numbers
        /\ position \in Nat /\ Len(file) \in Nat
    BY NextBlock, LenProperties DEF TypeOK
  <1>2. number' = Wire(position')
    BY <1>1, NextNumber DEF FileInv, TypeOK
  <1>3. /\ DATA' \in Packets /\ DATA'.op = "DATA"
        /\ DATA'.block = number' /\ DATA'.pos = position'
    BY <1>1 DEF DATA, Packet, Packets
  <1>4. PICK q : q = DATA'
    OBVIOUS
  <1>5. IsABag(net') /\ BagToSet(net') \subseteq BagToSet(net) \cup {q}
    BY <1>4, Arrived, AnswersEffect
  <1>6. TypeOK'
    <2>1. BagToSet(net') \subseteq Packets
      BY <1>3, <1>4, <1>5 DEF TypeOK
    <2> QED
      BY <1>1, <1>5, <2>1 DEF TypeOK, request, network
  <1>7. FileInv' /\ RoleInv'
    BY <1>1, <1>2 DEF FileInv, RoleInv, request
  <1>8. NetInv'
    <2> SUFFICES ASSUME NEW r \in BagToSet(net') PROVE Right(r)'
      BY DEF NetInv
    <2>1. CASE r = q
      BY <1>1, <1>2, <1>3, <1>4, <2>1 DEF Right
    <2>2. CASE r \in BagToSet(net)
      <3>1. Right(r) /\ r \in Packets
        BY <2>2, Arrived
      <3>2. r.op = "DATA" => r.pos \in Nat
        BY <3>1, PacketTypes, Bounds
      <3> QED
        BY <1>1, <3>1, <3>2 DEF Right, request
    <2> QED
      BY <1>5, <2>1, <2>2
  <1> QED
    BY <1>3, <1>6, <1>7, <1>8

LEMMA TakesAckStep ==
  ASSUME TransferInv, NEW p \in BagToSet(net), TakesAck(p)
  PROVE  TransferInv'
  <1> USE DEF TransferInv, TftpInv
  <1>1. /\ client = "ack" /\ p.op = "ACK" /\ p.block = number
        /\ UNCHANGED <<request, expected_block, server, saved, network>>
    BY DEF TakesAck, Arrives, Acknowledged
  <1>2. mode = "wrq" /\ number = Wire(position)
    BY <1>1 DEF RoleInv, FileInv
  <1>3. Len(saved) \in Nat /\ Len(file) \in Nat /\ position \in Nat
    BY LenProperties, Bounds DEF TypeOK
  <1>4. ~Wraps => position <= Len(saved)
    <2>1. ~Wraps => position < Modulus
      BY <1>3, Bounds DEF Wraps, FileInv
    <2> QED
      BY <1>1, <1>2, <1>3, <2>1, Arrived, WireNumber DEF CopyInv
  <1>5. CASE IsShort(position)
    <2>1. client' = "complete" /\ Takes(p) /\ UNCHANGED sender
      BY <1>5 DEF TakesAck
    <2>2. IsABag(net') /\ BagToSet(net') \subseteq BagToSet(net) /\ Acks' \subseteq Acks
      BY <2>1, Arrived, TakesEffect
    <2>3. TypeOK'
      <3>1. BagToSet(net') \subseteq Packets
        BY <2>2 DEF TypeOK
      <3> QED
        BY <1>1, <2>1, <2>2, <3>1 DEF TypeOK, request, sender, network
    <2>4. FileInv' /\ RoleInv' /\ NetInv'
      BY <1>1, <1>2, <2>1, <2>2 DEF FileInv, RoleInv, NetInv, Right, request, sender
    <2>5. ~Wraps' => CopyInv'
      BY <1>1, <1>2, <1>3, <1>4, <1>5, <2>1, <2>2
      DEF CopyInv, Wraps, IsShort, request, sender
    <2> QED
      BY <1>1, <1>2, <2>3, <2>4, <2>5 DEF DownloadInv, StepInv, request
  <1>6. CASE ~IsShort(position)
    <2>1. /\ position' = position + 1 /\ number' = Wire(number + 1)
          /\ Answers(p, DATA') /\ UNCHANGED client
      BY <1>6 DEF TakesAck
    <2>2. TypeOK' /\ FileInv' /\ RoleInv' /\ NetInv' /\ DATA'.op = "DATA"
      BY <1>1, <1>2, <1>6, <2>1, SendsNextBlock
    <2>3. PICK q : q = DATA'
      OBVIOUS
    <2>4. Acks' \subseteq Acks
      BY <2>1, <2>2, <2>3, Arrived, AnswersEffect
    <2>5. ~Wraps' => CopyInv'
      BY <1>1, <1>3, <1>4, <2>1, <2>4 DEF CopyInv, Wraps, request
    <2> QED
      BY <1>1, <1>2, <2>2, <2>5 DEF DownloadInv, StepInv, request
  <1> QED
    BY <1>5, <1>6

LEMMA TakesAnyAckStep ==
  ASSUME TransferInv, NEW p \in BagToSet(net), TakesAnyAck(p)
  PROVE  TransferInv'
  <1> USE DEF TransferInv, TftpInv
  <1>1. /\ server = "ack" /\ mode = "rrq" /\ p.op = "ACK" /\ number' = Wire(number + 1)
        /\ UNCHANGED <<request, client, expected_block, saved, network>>
    BY DEF TakesAnyAck, Arrives
  <1>2. Len(saved) \in Nat /\ Len(file) \in Nat /\ position \in Nat
    BY LenProperties, Bounds DEF TypeOK
  <1>3. ~disturbed => position = Len(saved) /\ OneAck
    BY <1>1, Arrived DEF StepInv
  <1>4. CASE IsShort(position)
    <2>1. server' = "over" /\ Takes(p) /\ UNCHANGED position
      BY <1>4 DEF TakesAnyAck
    <2>2. IsABag(net') /\ BagToSet(net') \subseteq BagToSet(net)
      BY <2>1, Arrived, TakesEffect
    <2>3. TypeOK'
      <3>1. BagToSet(net') \subseteq Packets
        BY <2>2 DEF TypeOK
      <3>2. number' \in Numbers
        BY <1>1, Bounds, WireNumber DEF TypeOK, Numbers
      <3> QED
        BY <1>1, <2>1, <2>2, <3>1, <3>2 DEF TypeOK, request, network
    <2>4. FileInv' /\ RoleInv' /\ NetInv'
      BY <1>1, <2>1, <2>2 DEF FileInv, RoleInv, NetInv, Right, request
    <2>5. DownloadInv' /\ StepInv'
      BY <1>1, <2>1 DEF DownloadInv, StepInv, Wraps, request, network
    <2>6. ~Wraps' => CopyInv'
      BY <1>1 DEF CopyInv, Wraps, request
    <2> QED
      BY <2>3, <2>4, <2>5, <2>6
  <1>5. CASE ~IsShort(position)
    <2>1. position' = position + 1 /\ Answers(p, DATA') /\ UNCHANGED server
      BY <1>5 DEF TakesAnyAck, Next512
    <2>2. TypeOK' /\ FileInv' /\ RoleInv' /\ NetInv' /\ DATA'.op = "DATA"
      BY <1>1, <1>5, <2>1, SendsNextBlock
    <2>3. PICK q : q = DATA'
      OBVIOUS
    <2>4. ~disturbed => position' = Len(saved) + 1 /\ Acks' = {}
      BY <1>1, <1>2, <1>3, <2>1, <2>2, <2>3, Arrived, AnswersEffect
    <2>5. DownloadInv'
      BY <1>1, <2>1 DEF DownloadInv, Wraps, request, network
    <2>6. StepInv'
      BY <1>1, <1>2, <2>1, <2>4 DEF StepInv, request, network
    <2>7. ~Wraps' => CopyInv'
      BY <1>1 DEF CopyInv, Wraps, request
    <2> QED
      BY <2>2, <2>5, <2>6, <2>7
  <1> QED
    BY <1>4, <1>5

\* The peer's, of an upload.
LEMMA PeerTakesDataStep ==
  ASSUME TransferInv, NEW p \in BagToSet(net), PeerTakesData(p)
  PROVE  TransferInv'
  <1> USE DEF TransferInv, TftpInv
  <1>1. /\ server = "taking" /\ p.op = "DATA" /\ Answers(p, ACK(p.block))
        /\ UNCHANGED <<request, client, expected_block, server, sender, network>>
    BY DEF PeerTakesData, Arrives
  <1>2. mode = "wrq"
    BY <1>1 DEF RoleInv
  <1>3. /\ p.pos \in 1..(MaxFull + 1) /\ p.pos <= position /\ p.block = Wire(p.pos)
        /\ p.block \in Numbers
    BY <1>1, Arrived, PacketTypes DEF Right
  <1>4. Len(saved) \in Nat /\ Len(file) \in Nat /\ position \in Nat /\ p.pos \in Nat
    BY <1>3, LenProperties, Bounds DEF TypeOK
  <1>5. /\ ACK(p.block) \in Packets /\ ACK(p.block).op = "ACK"
        /\ ACK(p.block).block = p.block
    BY <1>3, PacketTypes
  <1>6. /\ IsABag(net') /\ BagToSet(net') \subseteq BagToSet(net) \cup {ACK(p.block)}
        /\ Acks' \subseteq Acks \cup {ACK(p.block)}
    BY <1>1, Arrived, AnswersEffect
  <1>7. \/ saved' = saved /\ p.block # Wire(Len(saved) + 1)
        \/ /\ p.block = Wire(Len(saved) + 1) /\ Len(saved') = Len(saved) + 1
           /\ saved' = Append(saved, p.pos)
           /\ \A i \in 1..Len(saved) : saved'[i] = saved[i]
           /\ saved'[Len(saved) + 1] = p.pos
    BY <1>3, AppendProperties DEF PeerTakesData, TypeOK
  <1>8. saved' \in Seq(1..(MaxFull + 1))
    <2>1. saved \in Seq(1..(MaxFull + 1))
      BY DEF TypeOK
    <2>2. Append(saved, p.pos) \in Seq(1..(MaxFull + 1))
      BY <1>3, <2>1, AppendProperties
    <2> QED
      BY <1>7, <2>1, <2>2
  <1>9. TypeOK'
    <2>1. BagToSet(net') \subseteq Packets
      BY <1>5, <1>6 DEF TypeOK
    <2> QED
      BY <1>1, <1>6, <1>8, <2>1 DEF TypeOK, request, sender, network
  <1>10. FileInv' /\ RoleInv' /\ NetInv'
    BY <1>1, <1>2, <1>5, <1>6 DEF FileInv, RoleInv, NetInv, Right, request, sender
  <1>11. ~Wraps' => CopyInv'
    <2> SUFFICES ASSUME ~Wraps PROVE CopyInv'
      BY <1>1 DEF Wraps, request
    <2>1. /\ p.pos < Modulus /\ p.block = p.pos /\ p.pos <= Len(file)
          /\ p.pos <= Len(saved) + 1
      BY <1>2, <1>3, <1>4, Bounds, WireNumber DEF Wraps, FileInv, CopyInv
    <2>2. p.block = Wire(Len(saved) + 1) => p.pos = Len(saved) + 1
      <3>1. Len(saved) + 1 <= Modulus
        BY <1>4, Bounds DEF Wraps, CopyInv
      <3>2. Wire(Modulus) = 0
        BY TftpAssumption DEF Wire, Modulus
      <3>3. Len(saved) + 1 < Modulus => Wire(Len(saved) + 1) = Len(saved) + 1
        BY <1>4, WireNumber
      <3> QED
        BY <1>3, <1>4, <2>1, <3>1, <3>2, <3>3, Bounds
    <2>3. p.pos <= Len(saved')
      <3>1. CASE p.pos = Len(saved) + 1
        <4>1. Wire(Len(saved) + 1) = p.block
          BY <1>3, <3>1
        <4> QED
          BY <1>7, <3>1, <4>1
      <3>2. CASE p.pos <= Len(saved)
        BY <1>4, <1>7, <3>2
      <3> QED
        BY <1>4, <2>1, <3>1, <3>2
    <2>4. Len(saved') <= Len(file) /\ Len(saved) <= Len(saved')
      BY <1>4, <1>7, <2>1, <2>2 DEF CopyInv
    <2>5. \A i \in 1..Len(saved') : saved'[i] = i
      BY <1>4, <1>7, <2>2 DEF CopyInv
    <2>6. Len(saved') \in Nat
      BY <1>8, LenProperties
    <2>7. \A r \in Acks' : r.block <= Len(saved')
      <3>1. \A r \in Acks : r.block \in Nat /\ r.block <= Len(saved)
        BY <1>2, Arrived, PacketTypes DEF CopyInv, Acks, Numbers
      <3> QED
        BY <1>4, <1>5, <1>6, <2>1, <2>3, <2>4, <2>6, <3>1
    <2>8. position <= Len(saved') + 1
      BY <1>2, <1>4, <2>4, <2>6 DEF CopyInv
    <2>9. client = "complete" => Len(saved') = Len(file)
      BY <1>4, <2>4, <2>6 DEF CopyInv
    <2> QED
      BY <1>1, <2>4, <2>5, <2>7, <2>8, <2>9 DEF CopyInv, request, sender
  <1> QED
    BY <1>1, <1>2, <1>9, <1>10, <1>11 DEF DownloadInv, StepInv, request
-----------------------------------------------------------------------------
LEMMA NextTftp == TransferInv /\ [Next]_vars => TransferInv'
  <1> SUFFICES ASSUME TransferInv, [Next]_vars PROVE TransferInv'
    OBVIOUS
  <1>1. CASE SendsRRQ \/ SendsWRQ \/ TimesOut \/ KeyPressed \/ UNCHANGED vars
    BY <1>1, RequestsStep, TimesOutStep, KeyPressedStep
  <1>2. ASSUME NEW p \in BagToSet(net), Client(p)
        PROVE  TransferInv'
    BY <1>2, TakesBlockStep, ClientTakesStep, TakesAck0Step, TakesAckStep DEF Client
  <1>3. ASSUME NEW p \in BagToSet(net), Server(p)
        PROVE  TransferInv'
    BY <1>3, TakesRRQStep, TakesAnyAckStep, PeerAnswersStep, PeerTakesDataStep DEF Server
  <1> QED
    BY <1>1, <1>2, <1>3, NetworkStep DEF Next

LEMMA InvInStep == TransferInv => InStep
  <1> SUFFICES ASSUME TransferInv, mode = "rrq", server = "ack", ~disturbed
               PROVE  position \in {Len(saved), Len(saved) + 1}
    BY DEF InStep
  <1> QED
    BY DEF TransferInv, TftpInv, StepInv

LEMMA InvLong == TransferInv => LongNeverComplete
  <1> SUFFICES ASSUME TransferInv, mode = "rrq", Len(file) > MaxShort
               PROVE  /\ Len(saved) <= MaxShort
                      /\ client # "complete" \/ (disturbed /\ Wraps)
    BY DEF LongNeverComplete
  <1>1. Len(file) \in Nat
    BY LenProperties DEF TransferInv, TftpInv, TypeOK
  <1> QED
    BY <1>1, Bounds DEF TransferInv, TftpInv, DownloadInv

\* np18 sends whatever block comes next for any ACK, and the client writes only
\* the block it expects: types hold and blocks' numbers stay those of the file.
THEOREM TftpTypeTheorem == Spec => []TypeOK
  BY InitTftp, NextTftp, PTL DEF Spec, TransferInv, TftpInv

\* Neither end looks at what the other has, and yet they never drift apart while
\* nothing but blocks is lost, doubled or late: an ACK goes out once for each
\* block written (tftp_client.c:110-117) and each moves np18 on by one (np18.c:108).
THEOREM InStepTheorem == Spec => []InStep
  BY InitTftp, NextTftp, InvInStep, PTL DEF Spec

\* A file of more blocks than a short can count is never completely downloaded
\* (tftp_client.c:108 reads the number into a short), for shorts of any width;
\* unless the numbers came round in a file twice as long, and an ACK was doubled.
THEOREM LongTheorem == Spec => []LongNeverComplete
  BY InitTftp, NextTftp, InvLong, PTL DEF Spec
-----------------------------------------------------------------------------
(***************************************************************************)
(* The refinement.                                                         *)
(***************************************************************************)
LEMMA InitTransfer == Init => Abstract!Init
  BY DEF Init, Abstract!Init

\* A copy that starts with the blocks of the file in order is a prefix of it.
LEMMA CopyIsPrefix ==
  ASSUME NEW S, NEW f \in Seq(S), NEW s \in Seq(S), Len(s) <= Len(f),
         \A i \in 1..Len(f) : f[i] = i, \A i \in 1..Len(s) : s[i] = i
  PROVE  s = SubSeq(f, 1, Len(s)) /\ (Len(s) = Len(f) => s = f)
  <1>1. Len(s) \in Nat /\ Len(f) \in Nat
    BY LenProperties
  <1>2. \A i \in 1..Len(s) : f[i] \in S
    BY <1>1, ElementOfSeq
  <1>3. /\ SubSeq(f, 1, Len(s)) \in Seq(S) /\ Len(SubSeq(f, 1, Len(s))) = Len(s)
        /\ \A i \in 1..Len(s) : SubSeq(f, 1, Len(s))[i] = f[i]
    BY <1>1, <1>2, SubSeqProperties
  <1>4. s = SubSeq(f, 1, Len(s))
    BY <1>1, <1>3, SeqEqual
  <1>5. Len(s) = Len(f) => s = f
    BY <1>1, SeqEqual
  <1> QED
    BY <1>4, <1>5

LEMMA NextTransfer ==
  ASSUME MaxFull + 1 < Modulus
  PROVE  TransferInv /\ [Next]_vars => [Abstract!Grow]_(Abstract!vars)
  <1> SUFFICES ASSUME TransferInv, [Next]_vars
               PROVE  Abstract!Grow \/ UNCHANGED <<file, saved, client = "complete">>
    BY DEF Abstract!vars
  <1> DEFINE S == 1..(MaxFull + 1)
  <1>1. TransferInv'
    BY NextTftp
  <1>2. /\ file \in Seq(S) /\ saved \in Seq(S) /\ saved' \in Seq(S)
        /\ Len(file) \in Nat /\ Len(saved) \in Nat /\ Len(saved') \in Nat
    BY <1>1, LenProperties DEF TransferInv, TftpInv, TypeOK
  <1>3. file' = file
    BY DEF Next, SendsRRQ, SendsWRQ, TimesOut, KeyPressed, Client, TakesBlock,
           IgnoresBlock, TakesError, TakesAck0, TakesNoAck0, TakesAck, TakesOther, Server,
           TakesRRQ, TakesAnyAck, PeerTakesWRQ, PeerTakesData, PeerFails, Loses,
           Duplicates, Discards, request, vars
  <1>4. ~Wraps /\ ~Wraps'
    BY <1>2, <1>3, Bounds DEF Wraps, TransferInv, TftpInv, FileInv
  <1>5. /\ Len(saved') <= Len(file) /\ \A i \in 1..Len(saved') : saved'[i] = i
        /\ client' = "complete" => Len(saved') = Len(file)
        /\ client = "complete" => Len(saved) = Len(file)
        /\ \A i \in 1..Len(file) : file[i] = i
    BY <1>1, <1>3, <1>4 DEF TransferInv, TftpInv, FileInv, CopyInv
  <1>6. /\ saved' = SubSeq(file, 1, Len(saved'))
        /\ client' = "complete" => saved' = file
    BY <1>2, <1>5, CopyIsPrefix
  <1>7. saved' = saved \/ Len(saved') = Len(saved) + 1
    <2>1. ASSUME NEW p \in BagToSet(net), TakesBlock(p) \/ PeerTakesData(p)
          PROVE  saved' = saved \/ Len(saved') = Len(saved) + 1
      BY <1>2, <2>1, AppendProperties DEF TakesBlock, PeerTakesData
    <2> QED
      BY <2>1
      DEF Next, SendsRRQ, SendsWRQ, TimesOut, KeyPressed, Client, IgnoresBlock, TakesError,
          TakesAck0, TakesNoAck0, TakesAck, TakesOther, Server, TakesRRQ, TakesAnyAck,
          PeerTakesWRQ, PeerFails, Loses, Duplicates, Discards, vars
  <1>8. client = "complete" => client' = "complete" /\ saved' = saved
    <2>1. client = "complete" => client' = client
      BY DEF Next, SendsRRQ, SendsWRQ, TimesOut, KeyPressed, Client, TakesBlock,
             IgnoresBlock, TakesError, TakesAck0, TakesNoAck0, TakesAck, TakesOther, Server,
             TakesRRQ, TakesAnyAck, PeerTakesWRQ, PeerTakesData, PeerFails, Loses,
             Duplicates, Discards, vars
    <2> QED
      BY <1>2, <1>5, <1>7, <2>1
  <1>9. CASE client = "complete"
    BY <1>3, <1>8, <1>9
  <1>10. CASE client # "complete"
    <2>1. Len(saved') \in Len(saved)..Len(file)
      BY <1>2, <1>5, <1>7
    <2> QED
      BY <1>3, <1>6, <1>10, <2>1 DEF Abstract!Grow
  <1> QED
    BY <1>9, <1>10

\* Either way, the copy is at every moment a prefix of the file, and one that the
\* client finds complete is the whole file and stays so, whatever is lost,
\* doubled, late or out of order: for files of less than 65536 blocks.  (In a
\* longer one, an ACK or a block that comes late can pass for that of a later
\* round of the numbers.)
THEOREM TransferTheorem ==
  ASSUME MaxFull + 1 < Modulus
  PROVE  Spec => TransferSpec
  BY InitTftp, NextTftp, InitTransfer, NextTransfer, PTL
  DEF Spec, TransferSpec, Abstract!Spec
=============================================================================
