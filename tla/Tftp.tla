-------------------------------- MODULE Tftp --------------------------------
(***************************************************************************)
(* TFTP: the client of "Trivial File Transfer Protocol (TFTP)", which      *)
(* downloads ("rrq") or uploads ("wrq") one file, and the server           *)
(* np/np18.c, which answers one request and reads only.  An upload is to a *)
(* server that follows RFC 1350 (not in the repository).  The client asks  *)
(* port 69 and np18 listens on 9999: something between them forwards.      *)
(*                                                                         *)
(* The network loses, duplicates, delays and reorders packets.  A block of *)
(* the file is its position; its number on the wire is an unsigned short.  *)
(***************************************************************************)
EXTENDS Integers, Sequences, Bags

CONSTANTS
  MaxShort,   \* 32767: the largest number a short holds
  MaxFull,    \* bound: full blocks of a file; a short one follows them
  MaxFaults,  \* bound: packets the network loses or duplicates
  MaxCopies   \* bound: copies of one packet under way

ASSUME TftpAssumption ==
  /\ MaxShort \in Nat /\ MaxFull \in Nat
  /\ MaxFaults \in Nat /\ MaxCopies \in Nat \ {0}

VARIABLES
  mode,            \* argv[3]: rrq or wrq
  file,            \* the file: positions of its blocks, the last one short
  exists,          \* the server can open it
  client,          \* the step the client is at, or how it ended
  expected_block,  \* download: an int
  server,          \* the step the server is at
  number,          \* the sender's block number, as it is on the wire
  position,        \* of the block the sender has read
  saved,           \* what the receiver has written
  net,             \* the packets under way
  faults,          \* packets lost or duplicated so far
  disturbed        \* one of them was a packet nobody repeats

vars == <<mode, file, exists, client, expected_block, server, number, position,
          saved, net, faults, disturbed>>

request == <<mode, file, exists>>
sender  == <<number, position>>
network == <<faults, disturbed>>

Modulus == 2 * (MaxShort + 1)

Wire(n) == n % Modulus

\* Mutant: read into an unsigned short.
Short_Unsigned(n) == n

\* A number read into a short.
Short(n) == IF n > MaxShort THEN n - Modulus ELSE n

Packet(op, n, pos) == [op |-> op, block |-> n, pos |-> pos]
Asks(op) == Packet(op, 0, 0)
DATA     == Packet("DATA", number, position)
ACK(n)   == Packet("ACK", n, 0)
ERROR    == Packet("ERROR", 0, 0)

Sends(p) == net' = net (+) SetToBag({p})
Takes(p) == net' = net (-) SetToBag({p})
Answers(p, q) == net' = (net (-) SetToBag({p})) (+) SetToBag({q})

Copies(p) == IF p \in BagToSet(net) THEN net[p] ELSE 0

\* A packet of this kind arrives.
Arrives(op, p) == p \in BagToSet(net) /\ p.op = op

\* fread of 512 bytes returned fewer.
IsShort(pos) == pos = Len(file)

Init ==
  /\ mode \in {"rrq", "wrq"}
  /\ \E full \in 0..MaxFull : file = [i \in 1..(full + 1) |-> i]
  /\ exists \in BOOLEAN
  /\ client = "start" /\ expected_block = 1
  /\ server = "main"
  /\ number = 1 /\ position = 1
  /\ saved = <<>>
  /\ net = EmptyBag
  /\ faults = 0 /\ disturbed = FALSE
-----------------------------------------------------------------------------
(***************************************************************************)
(* The client, downloading.                                                *)
(***************************************************************************)
\* send_rrq, then fopen for writing, which may fail.
SendsRRQ ==
  /\ client = "start" /\ mode = "rrq"
  /\ Sends(Asks("RRQ"))
  /\ client' \in {"data", "exit"}
  /\ UNCHANGED <<request, expected_block, server, sender, saved, network>>

\* Mutant: whatever block arrives is written.
Expected_Any(p) == TRUE

Expected(p) == Short(p.block) = expected_block

\* The block it expects: written, acknowledged, the last one if it is short.
TakesBlock(p) ==
  /\ client = "data" /\ Arrives("DATA", p)
  /\ Expected(p)
  /\ saved' = Append(saved, p.pos)
  /\ Answers(p, ACK(p.block))
  /\ IF IsShort(p.pos)
     THEN client' = "complete" /\ UNCHANGED expected_block
     ELSE expected_block' = expected_block + 1 /\ UNCHANGED client
  /\ UNCHANGED <<request, server, sender, network>>

\* Any other block is not acknowledged again.
IgnoresBlock(p) ==
  /\ client = "data" /\ Arrives("DATA", p)
  /\ ~Expected(p)
  /\ Takes(p)
  /\ UNCHANGED <<request, client, expected_block, server, sender, saved,
                 network>>

\* The loop breaks; the program says that all went well.
TakesError(p) ==
  /\ client = "data" /\ Arrives("ERROR", p)
  /\ Takes(p)
  /\ client' = "broke"
  /\ UNCHANGED <<request, expected_block, server, sender, saved, network>>
-----------------------------------------------------------------------------
(***************************************************************************)
(* The client, uploading.                                                  *)
(***************************************************************************)
SendsWRQ ==
  /\ client = "start" /\ mode = "wrq"
  /\ Sends(Asks("WRQ"))
  /\ client' \in {"ack0", "exit"}
  /\ UNCHANGED <<request, expected_block, server, sender, saved, network>>

\* The first answer: the ACK of block 0, and block 1 is sent.
TakesAck0(p) ==
  /\ client = "ack0" /\ Arrives("ACK", p)
  /\ Answers(p, DATA)
  /\ client' = "ack"
  /\ UNCHANGED <<request, expected_block, server, sender, saved, network>>

\* Anything else for an answer: the program ends.
TakesNoAck0(p) ==
  /\ client = "ack0" /\ Arrives("ERROR", p)
  /\ Takes(p)
  /\ client' = "exit"
  /\ UNCHANGED <<request, expected_block, server, sender, saved, network>>

\* Mutant: the ACK's number is a short, the sender's is not.
Acknowledged_Signed(p) == Short(p.block) = number

Acknowledged(p) == p.block = number

\* The ACK of the block it has sent: the next one is read and sent, or that
\* was the last.
TakesAck(p) ==
  /\ client = "ack" /\ Arrives("ACK", p) /\ Acknowledged(p)
  /\ IF IsShort(position)
     THEN client' = "complete" /\ Takes(p) /\ UNCHANGED sender
     ELSE /\ position' = position + 1
          /\ number' = Wire(number + 1)
          /\ Answers(p, DATA')
          /\ UNCHANGED client
  /\ UNCHANGED <<request, expected_block, server, saved, network>>

\* Anything else, an ERROR or an old ACK that comes twice, breaks the loop; the
\* program says that all went well.
TakesOther(p) ==
  /\ client = "ack"
  /\ Arrives("ERROR", p) \/ (Arrives("ACK", p) /\ ~Acknowledged(p))
  /\ Takes(p)
  /\ client' = "broke"
  /\ UNCHANGED <<request, expected_block, server, sender, saved, network>>
-----------------------------------------------------------------------------
(***************************************************************************)
(* np18: main takes one request, and starts ReadThread if it is an RRQ.    *)
(***************************************************************************)
\* ReadThread: the file opens and its first block is sent, or an ERROR is.
TakesRRQ(p) ==
  /\ server = "main" /\ Arrives("RRQ", p)
  /\ IF exists THEN server' = "ack"  /\ Answers(p, DATA)
               ELSE server' = "over" /\ Answers(p, ERROR)
  /\ UNCHANGED <<request, client, expected_block, sender, saved, network>>

\* Mutant: a block that was read is overwritten before it is sent.
Next512_Skips == IF IsShort(position + 1) THEN position + 1 ELSE position + 2

\* fread in the outer loop.
Next512 == position + 1

\* Any ACK at all ends the inner loop; the next block is read and sent.
TakesAnyAck(p) ==
  /\ server = "ack" /\ mode = "rrq" /\ Arrives("ACK", p)
  /\ number' = Wire(number + 1)
  /\ IF IsShort(position)
     THEN server' = "over" /\ Takes(p) /\ UNCHANGED position
     ELSE /\ position' = Next512
          /\ Answers(p, DATA')
          /\ UNCHANGED server
  /\ UNCHANGED <<request, client, expected_block, saved, network>>

\* Mutant: no timeout is set.
SO_RCVTIMEO_None == FALSE

SO_RCVTIMEO == server = "ack" /\ mode = "rrq"

\* recvfrom times out after 5 seconds, and the block is sent again.
TimesOut ==
  /\ SO_RCVTIMEO
  /\ Copies(DATA) < MaxCopies
  /\ Sends(DATA)
  /\ UNCHANGED <<request, client, expected_block, server, sender, saved,
                 network>>

\* A key: main returns, and the thread ends with the process.
KeyPressed ==
  /\ server \in {"ack", "over"} /\ mode = "rrq"
  /\ server' = "gone"
  /\ UNCHANGED <<request, client, expected_block, sender, saved, net, network>>
-----------------------------------------------------------------------------
(***************************************************************************)
(* A server that takes uploads, as RFC 1350 has it (external): it writes   *)
(* the block that comes next and acknowledges what it has.                 *)
(***************************************************************************)
PeerTakesWRQ(p) ==
  /\ server = "main" /\ Arrives("WRQ", p)
  /\ server' = "taking"
  /\ Answers(p, ACK(0))
  /\ UNCHANGED <<request, client, expected_block, sender, saved, network>>

PeerTakesData(p) ==
  /\ server = "taking" /\ Arrives("DATA", p)
  /\ saved' = IF p.block = Wire(Len(saved) + 1) THEN Append(saved, p.pos)
              ELSE saved
  /\ Answers(p, ACK(p.block))
  /\ UNCHANGED <<request, client, expected_block, server, sender, network>>
\* Not found, no rights, disk full.
PeerFails(p) ==
  /\ \/ server = "main" /\ Arrives("WRQ", p)
     \/ server = "taking" /\ Arrives("DATA", p)
  /\ server' = "over"
  /\ Answers(p, ERROR)
  /\ UNCHANGED <<request, client, expected_block, sender, saved, network>>
-----------------------------------------------------------------------------
(***************************************************************************)
(* The network.                                                            *)
(***************************************************************************)
\* Only a block of a download is ever repeated.
Repeated(p) == p.op = "DATA" /\ mode = "rrq"

Loses(p) ==
  /\ p \in BagToSet(net) /\ faults < MaxFaults
  /\ Takes(p)
  /\ faults' = faults + 1
  /\ disturbed' = (disturbed \/ ~Repeated(p))
  /\ UNCHANGED <<request, client, expected_block, server, sender, saved>>

Duplicates(p) ==
  /\ p \in BagToSet(net) /\ faults < MaxFaults
  /\ Copies(p) < MaxCopies
  /\ Sends(p)
  /\ faults' = faults + 1
  /\ disturbed' = (disturbed \/ p.op = "ACK" \/ mode = "wrq")
  /\ UNCHANGED <<request, client, expected_block, server, sender, saved>>

\* A packet for a program that reads no more.
ToServer(p) == p.op = IF mode = "rrq" THEN "ACK" ELSE "DATA"

Discards(p) ==
  /\ p \in BagToSet(net)
  /\ CASE p.op \in {"RRQ", "WRQ"} -> server # "main"
       [] ToServer(p)             -> server \in {"over", "gone"}
       [] OTHER                   -> client \in {"complete", "broke", "exit"}
  /\ Takes(p)
  /\ UNCHANGED <<request, client, expected_block, server, sender, saved,
                 network>>
-----------------------------------------------------------------------------
Client(p) ==
  \/ TakesBlock(p) \/ IgnoresBlock(p) \/ TakesError(p)
  \/ TakesAck0(p) \/ TakesNoAck0(p) \/ TakesAck(p) \/ TakesOther(p)

Server(p) ==
  \/ TakesRRQ(p) \/ TakesAnyAck(p)
  \/ PeerTakesWRQ(p) \/ PeerTakesData(p) \/ PeerFails(p)

Next ==
  \/ SendsRRQ \/ SendsWRQ \/ TimesOut \/ KeyPressed
  \/ \E p \in BagToSet(net) :
       Client(p) \/ Server(p) \/ Loses(p) \/ Duplicates(p) \/ Discards(p)

Spec == Init /\ [][Next]_vars

Requests == {"RRQ", "WRQ", "ERROR"}
Numbers  == 0..(Modulus - 1)
Packets  ==
  [op : Requests, block : {0}, pos : {0}] \cup
  [op : {"ACK"}, block : Numbers, pos : {0}] \cup
  [op : {"DATA"}, block : Numbers, pos : 1..(MaxFull + 1)]

\* A packet that is not lost arrives, whatever else does; the programs run, and
\* the timer of np18 expires.
FairSpec ==
  /\ Spec
  /\ WF_vars(SendsRRQ) /\ WF_vars(SendsWRQ) /\ WF_vars(TimesOut)
  /\ \A p \in Packets : WF_vars(Client(p) \/ Server(p))
-----------------------------------------------------------------------------
(***************************************************************************)
(* Properties.                                                             *)
(***************************************************************************)
TypeOK ==
  /\ mode \in {"rrq", "wrq"} /\ exists \in BOOLEAN
  /\ file \in Seq(1..(MaxFull + 1))
  /\ client \in {"start", "data", "ack0", "ack", "complete", "broke", "exit"}
  /\ expected_block \in Nat \ {0}
  /\ server \in {"main", "ack", "taking", "over", "gone"}
  /\ number \in Numbers /\ position \in 1..(MaxFull + 1)
  /\ saved \in Seq(1..(MaxFull + 1))
  /\ IsABag(net) /\ BagToSet(net) \subseteq Packets
  /\ faults \in 0..MaxFaults /\ disturbed \in BOOLEAN

\* Whatever the network does, the copy is a prefix of the file, block by block,
\* and the receiver of a short block, or of its ACK, has the whole file
\* (tftp_client.c:119 and :193).
Abstract == INSTANCE FileTransfer WITH complete <- (client = "complete")
TransferSpec == Abstract!Spec

\* The two sides never drift apart: while nothing but blocks was lost, the
\* server sends the block the client waits for or the one it has just
\* acknowledged, although it looks at no ACK's number (np18.c:108).
InStep ==
  mode = "rrq" /\ server = "ack" /\ ~disturbed =>
    position \in {Len(saved), Len(saved) + 1}

\* A download ends, with the copy or the server's ERROR: lost blocks are sent
\* again.  Nothing saves it from the loss of an ACK, which the client does not
\* repeat (tftp_client.c:110), from a doubled one, or from the end of np18; and
\* the file must not need a block number beyond a short (tftp_client.c:108).
DownloadEnds ==
  mode = "rrq" /\ Len(file) <= MaxShort ~>
    client \in {"complete", "broke", "exit"} \/ disturbed \/ server = "gone"

\* An upload has no such limit, both ends comparing 16 bits; when the network
\* does nothing wrong it ends with the copy, unless the server refuses.
UploadEnds ==
  mode = "wrq" ~>
    client \in {"complete", "exit"} \/ (client = "broke" /\ server = "over")
      \/ disturbed

\* The numbers come round again in one file.
Wraps == Len(file) >= Modulus

\* A file that needs a block number a short cannot hold is never completely
\* downloaded: its block MaxShort + 1 equals no expected_block.  (An ACK that is
\* doubled every time could bring np18 round to the number the client waits for.)
LongNeverComplete ==
  mode = "rrq" /\ Len(file) > MaxShort =>
    /\ Len(saved) <= MaxShort
    /\ client # "complete" \/ (disturbed /\ Wraps)
=============================================================================
