------------------------------ MODULE FtpPorts ------------------------------
(***************************************************************************)
(* When the passive ports of FtpServer keep the sessions apart.            *)
(*                                                                         *)
(* The code reserves Stride ports to a session by adding Stride to a       *)
(* shared counter, and never gives them back.  The reservation holds as    *)
(* long as the counter has not wrapped and no session has gone through     *)
(* more than Stride PASVs; EnoughPorts says so, and the invariant below    *)
(* says what it buys: disjoint ranges, and every listener, announcement,   *)
(* waiting connection and data connection inside its session's own.        *)
(***************************************************************************)
EXTENDS FtpServer

EnoughPorts ==
  /\ IsFiniteSet(Sessions)
  /\ MaxPasv <= Stride
  /\ PortLo + (Cardinality(Sessions) - 1) * Stride <= CounterHi
  /\ CounterHi + Stride <= PasvHi

\* The sessions whose thread has taken its range.
Started == {s \in Sessions : pasv_port[s] # 0}

\* Where the range of a session starts: its next port less the ports it used.
Base(s) == pasv_port[s] - pasv_count[s]

InRange(s, port) == Base(s) <= port /\ port < Base(s) + Stride

\* Where the next range starts, while the counter has not wrapped.
NextBase == PortLo + Cardinality(Started) * Stride

RangesInv ==
  /\ NextBase <= CounterHi => g_pasv_port_counter = NextBase
  /\ \A s \in Started :
       PortLo <= Base(s) /\ Base(s) <= CounterHi /\ Base(s) + Stride <= NextBase
  /\ \A s, t \in Started :
       s # t => Base(s) + Stride <= Base(t) \/ Base(t) + Stride <= Base(s)
  /\ \A s \in Sessions \ Started : pasv_count[s] = 0

UseInv ==
  \A s \in Sessions :
    /\ pasv_listen_socket[s] # NoSocket =>
         s \in Started /\ InRange(s, pasv_listen_socket[s])
    /\ \A port \in announced[s] : s \in Started /\ InRange(s, port)
    /\ backlog[s] \in Seq({s})
    /\ data_socket[s] \in {NoSocket, s}

PortInv == RangesInv /\ UseInv
=============================================================================
