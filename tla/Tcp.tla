-------------------------------- MODULE Tcp ---------------------------------
(***************************************************************************)
(* A TCP connection as the program at one end sees it, and what a send     *)
(* makes of it.  No program of the repository ignores SIGPIPE or sends     *)
(* with MSG_NOSIGNAL.                                                      *)
(***************************************************************************)

\* The peer is there ("open"), has closed ("fin"), has reset the connection and
\* no call has reported that yet ("err"), or is known to be gone ("rst").
Connection == {"open", "fin", "err", "rst"}

\* A send to a peer that closed succeeds, and draws a reset that may arrive
\* before the next call; the first send after a reset out of the blue returns an
\* error; any later one raises SIGPIPE, which has no state after it.
AfterSend(conn) ==
  CASE conn = "open" -> {"open"}
    [] conn = "fin"  -> {"fin", "rst"}
    [] conn = "err"  -> {"rst"}
    [] OTHER         -> {}
=============================================================================
