------------------------------ MODULE HttpFiles ------------------------------
(***************************************************************************)
(* The four HTTP servers of the repository: assignment/http_upload.c,      *)
(* assignment/http_cont.c, assignment/multithread_http_server.c and        *)
(* np/np20.c.  Each serves a connection by a thread that reads one         *)
(* request, answers and closes; the threads share no memory, only files,   *)
(* here one file that is downloaded, uploaded and edited by somebody else. *)
(*                                                                         *)
(* A file is a sequence of pieces, what one read or write of stdio moves;  *)
(* every fopen has an offset of its own.  Requests are well formed or end  *)
(* too early; text, names, types and the pages sent back are left out.     *)
(* A connection is as Tcp has it, or "full": the thread's last send has    *)
(* not returned, because the client does not read and the buffers between  *)
(* them are full.                                                          *)
(***************************************************************************)
EXTENDS Naturals, Sequences, FiniteSets, Tcp

CONSTANTS
  Requests,  \* the connections of one life of the server
  Pieces,    \* the size of the file each would upload
  Stored,    \* the size of the file at the start
  Block,     \* np20: pieces in its buffer of 1 MB
  MaxEdits   \* bound: edits by another program

Nobody == "nobody"

ASSUME HttpAssumption ==
  /\ Nobody \notin Requests
  /\ Pieces \in [Requests -> Nat \ {0}]
  /\ Stored \in Nat /\ Block \in Nat \ {0} /\ MaxEdits \in Nat

VARIABLES
  program,  \* which of the four servers this is
  process,  \* running or killed by a signal
  exists,   \* the file is there
  disk,     \* its pieces
  kind,     \* what a request asks for: the file, a folder, an upload
  conn,     \* each connection, as the server's TCP sees it
  arrived,  \* parts of the request that arrived: the header, then pieces
  at,       \* the step of each connection's thread
  length,   \* the size it found by ftell
  got,      \* what it has read from the file
  offset,   \* pieces it has written
  reply,    \* what it answers
  touched,  \* somebody else changed the file since it opened it
  edits

vars == <<program, process, exists, disk, kind, conn, arrived, at, length, got,
          offset, reply, touched, edits>>

client == <<program, kind, arrived>>
work   == <<length, got, offset, reply>>
files  == <<exists, disk, touched, edits>>

Programs == {"http_upload", "http_cont", "multithread_http_server", "np20"}
Kinds    == {"file", "folder", "upload"}

Uploaded(r) == [i \in 1..Pieces[r] |-> <<r, i>>]
Original(n) == [i \in 1..n |-> <<"old", i>>]
Hole    == <<"zero", 0>>     \* a write beyond the end leaves zeroes before it
Garbage == <<"malloc", 0>>   \* memory nothing was read into

Gone(r) == conn[r] \notin {"open", "full"}

Init ==
  /\ program \in Programs /\ process = "running"
  /\ exists \in BOOLEAN /\ disk = IF exists THEN Original(Stored) ELSE <<>>
  /\ kind \in [Requests -> Kinds]
  /\ conn = [r \in Requests |-> "none"]
  /\ arrived = [r \in Requests |-> 0]
  /\ at = [r \in Requests |-> "none"]
  /\ length = [r \in Requests |-> 0]
  /\ got = [r \in Requests |-> <<>>]
  /\ offset = [r \in Requests |-> 0]
  /\ reply = [r \in Requests |-> "none"]
  /\ touched = [r \in Requests |-> FALSE]
  /\ edits = 0
-----------------------------------------------------------------------------
\* send, or Send, which calls it until all is sent or it fails, and returns at
\* once or when the client has read.
Sends(r) ==
  \E after \in AfterSend(conn[r]) \cup (IF conn[r] = "open" THEN {"full"} ELSE {}) :
    conn' = [conn EXCEPT ![r] = after]

Sent(r) == conn[r] # "full"

\* The thread goes on to a step, when its last send has returned.
Go(r, step) ==
  /\ process = "running" /\ Sent(r)
  /\ at' = [at EXCEPT ![r] = step] /\ UNCHANGED process

Dies == process = "running" /\ process' = "killed" /\ UNCHANGED at

\* The thread will send this answer.
Replies(r, code) ==
  /\ Go(r, "head") /\ reply' = [reply EXCEPT ![r] = code]

\* The file becomes this; whoever is using it is disturbed.
Using(r) ==
  \/ at[r] \in {"write", "verify", "check"}
  \/ kind[r] = "file" /\ reply[r] = "200" /\ at[r] # "done"

Changes(by, pieces) ==
  /\ disk' = pieces
  /\ touched' = [r \in Requests |-> touched[r] \/ (r # by /\ Using(r))]

\* main: accept and pthread_create, whose result nobody looks at: a connection
\* that got no thread is "lost", open and served by nobody.
Accepts(r) ==
  /\ conn[r] = "none"
  /\ conn' = [conn EXCEPT ![r] = "open"]
  /\ Go(r, "header") \/ Go(r, "lost")
  /\ UNCHANGED <<client, work, files>>

\* The header is read, byte by byte (multithread_http_server: by one recv), and
\* the method and path are looked at.
ReadsHeader(r) ==
  /\ at[r] = "header" /\ arrived[r] > 0
  /\ UNCHANGED <<client, conn, length, got, offset, files>>

\* A folder's page, made from scandir; multithread_http_server has no other
\* answer to an upload, and just closes when opendir fails.
Page == "page"

WantsPage(r) ==
  kind[r] = "folder" \/ (kind[r] = "upload" /\ program = "multithread_http_server")

ListsFolder(r) ==
  /\ ReadsHeader(r) /\ WantsPage(r)
  /\ \/ Replies(r, Page)
     \/ program = "multithread_http_server" /\ Go(r, "close") /\ UNCHANGED reply

\* multithread_http_server writes the page into html[4 * 4096] however many names
\* the folder has: what happens beyond is undefined, here the process ends.
OverrunsPage(r) ==
  /\ ReadsHeader(r) /\ WantsPage(r) /\ program = "multithread_http_server"
  /\ Dies
  /\ UNCHANGED reply

StartsDownload(r) ==
  /\ ReadsHeader(r) /\ kind[r] = "file"
  /\ Go(r, "open") /\ UNCHANGED reply

\* http_cont does not answer a POST.
StartsUpload(r) ==
  /\ ReadsHeader(r)
  /\ kind[r] = "upload" /\ program # "multithread_http_server"
  /\ Go(r, CASE program = "http_upload" -> "body"
              [] program = "np20" -> "create"
              [] program = "http_cont" -> "close")
  /\ UNCHANGED reply

\* Mutant: recv that returns 0 does not end the loop.
Cut_Never(r) == FALSE

Cut(r) == arrived[r] = 0 /\ Gone(r)

\* The client went away before its header was complete.
HeaderEnds(r) ==
  /\ at[r] = "header" /\ Cut(r)
  /\ Go(r, "close")
  /\ UNCHANGED <<client, conn, work, files>>
-----------------------------------------------------------------------------
(***************************************************************************)
(* A download.                                                             *)
(***************************************************************************)
\* fopen, and ftell at the end.  What is read goes to memory first, or (np20,
\* multithread_http_server) the header is sent first.
Opens(r) ==
  /\ at[r] = "open" /\ exists
  /\ length' = [length EXCEPT ![r] = Len(disk)]
  /\ reply' = [reply EXCEPT ![r] = "200"]
  /\ Go(r, IF program \in {"http_upload", "http_cont"} THEN "read" ELSE "head")
  /\ UNCHANGED <<client, conn, got, offset, files>>

\* No such file; multithread_http_server just closes.
NotFound(r) ==
  /\ at[r] = "open" /\ ~exists
  /\ IF program = "multithread_http_server"
     THEN Go(r, "close") /\ UNCHANGED reply ELSE Replies(r, "404")
  /\ UNCHANGED <<client, conn, length, got, offset, files>>

\* One read of fread: the next piece, and memory as it was after the end.
NextPiece(r) ==
  IF Len(got[r]) < Len(disk) THEN disk[Len(got[r]) + 1] ELSE Garbage

\* fread of as much as ftell said.
ReadsPiece(r) ==
  /\ at[r] = "read"
  /\ IF Len(got[r]) < length[r]
     THEN got' = [got EXCEPT ![r] = Append(@, NextPiece(r))] /\ Go(r, "read")
     ELSE UNCHANGED got /\ Go(r, "head")
  /\ UNCHANGED <<client, conn, length, offset, reply, files>>

AtEnd(r) == Len(got[r]) >= Len(disk)

\* Mutant: the first read ends the loop of np20.
Wants_Once(r) ==
  IF program = "np20" THEN got[r] = <<>> /\ length[r] > 0 ELSE ~AtEnd(r)

\* The loop goes on: np20 until it has read as much as ftell said, a buffer at a
\* time; multithread_http_server until the end of the file.
Wants(r) ==
  IF program = "np20"
  THEN Len(got[r]) < length[r] \/ (Len(got[r]) % Block # 0 /\ ~AtEnd(r))
  ELSE ~AtEnd(r)

\* Read and send, piece by piece.
Streams(r) ==
  /\ at[r] = "stream" /\ Wants(r) /\ ~AtEnd(r)
  /\ got' = [got EXCEPT ![r] = Append(@, disk[Len(got[r]) + 1])]
  /\ Sends(r)
  /\ Go(r, "stream")
  /\ UNCHANGED <<client, length, offset, reply, files>>

StreamEnds(r) ==
  /\ at[r] = "stream" /\ ~Wants(r)
  /\ Go(r, "close")
  /\ UNCHANGED <<client, conn, work, files>>

\* np20: the file has become shorter; fread returns 0 for ever, and the loop
\* that counts what it read never ends.
Spins(r) ==
  /\ at[r] = "stream" /\ Wants(r) /\ AtEnd(r)
  /\ Go(r, "spin")
  /\ UNCHANGED <<client, conn, work, files>>
-----------------------------------------------------------------------------
(***************************************************************************)
(* An upload.                                                              *)
(***************************************************************************)
Complete(r) == arrived[r] = Pieces[r] + 1

\* http_upload: the whole body is read; a truncated one has no end boundary.
ReadsBody(r) ==
  /\ at[r] = "body" /\ (Complete(r) \/ Gone(r))
  /\ IF Complete(r) THEN Go(r, "create") /\ UNCHANGED reply
                    ELSE Replies(r, "400")
  /\ UNCHANGED <<client, conn, length, got, offset, files>>

\* fopen(.., "wb"): the file is there and empty.
Truncates(r) == exists' = TRUE /\ Changes(r, <<>>)

\* The file is opened for writing, or cannot be.
\* np20 does this when it has read the header of the part.
Creates(r) ==
  /\ at[r] = "create" /\ arrived[r] > 1
  /\ \/ Truncates(r) /\ Go(r, "write") /\ UNCHANGED reply
     \/ Replies(r, "500") /\ UNCHANGED <<exists, disk, touched>>
  /\ UNCHANGED <<client, conn, length, got, offset, edits>>

\* np20: the client went away before the header of the part began, and strstr
\* is called with NULL.
CrashesOnNoPart(r) ==
  /\ at[r] = "create" /\ arrived[r] = 1 /\ Gone(r)
  /\ Dies
  /\ UNCHANGED <<client, conn, work, files>>

\* It went away inside the header of the part.
PartCut(r) ==
  /\ at[r] = "create" /\ program = "np20" /\ arrived[r] = 1 /\ Gone(r)
  /\ Replies(r, "400")
  /\ UNCHANGED <<client, conn, length, got, offset, files>>

\* A write at the thread's own offset, whatever the file is like by now.
Written(pieces, i, piece) ==
  [j \in 1..(IF i > Len(pieces) THEN i ELSE Len(pieces)) |->
     IF j = i THEN piece ELSE IF j <= Len(pieces) THEN pieces[j] ELSE Hole]

\* http_upload writes from memory, np20 what it has received.
Writes(r) ==
  /\ at[r] = "write" /\ offset[r] < Pieces[r] /\ arrived[r] > offset[r] + 1
  /\ Changes(r, Written(disk, offset[r] + 1, Uploaded(r)[offset[r] + 1]))
  /\ offset' = [offset EXCEPT ![r] = @ + 1]
  /\ Go(r, "write")
  /\ UNCHANGED <<client, conn, length, got, reply, exists, edits>>

\* fclose.  np20 answers 200, also when the client went away in the middle.
FileWritten(r) ==
  /\ at[r] = "write"
  /\ offset[r] = Pieces[r] \/ (Gone(r) /\ arrived[r] = offset[r] + 1)
  /\ IF program = "np20" THEN Replies(r, "200")
                         ELSE Go(r, "verify") /\ UNCHANGED reply
  /\ UNCHANGED <<client, conn, length, got, offset, files>>

\* VerifyFile: the size first.
ComparesSize(r) ==
  /\ at[r] = "verify"
  /\ IF Len(disk) = Pieces[r] THEN Go(r, "check") /\ UNCHANGED reply
                              ELSE Replies(r, "failed")
  /\ UNCHANGED <<client, conn, length, got, offset, files>>

\* Mutant: only the sizes are compared.
Verdicts_SizeOnly(r) == {"verified"}

\* Then the bytes; memory that was not read into compares as it likes.
Verdicts(r) ==
  IF \E i \in 1..Pieces[r] : got[r][i] \notin {Uploaded(r)[i], Garbage}
  THEN {"failed"}
  ELSE IF got[r] = Uploaded(r) THEN {"verified"} ELSE {"verified", "failed"}

ComparesPiece(r) ==
  /\ at[r] = "check"
  /\ IF Len(got[r]) < Pieces[r]
     THEN /\ got' = [got EXCEPT ![r] = Append(@, NextPiece(r))]
          /\ Go(r, "check") /\ UNCHANGED reply
     ELSE /\ \E verdict \in Verdicts(r) : Replies(r, verdict)
          /\ UNCHANGED got
  /\ UNCHANGED <<client, conn, length, offset, files>>
-----------------------------------------------------------------------------
(***************************************************************************)
(* The answer.                                                             *)
(***************************************************************************)
Short(r) == reply[r] \in {"400", "404", "500"} \/ (kind[r] = "upload" /\ program = "np20")

\* np20 closes the file after a 404 too: fclose(NULL) ends the process.
ClosesNull(r) == program = "np20" /\ reply[r] = "404"

\* The header, or an answer of one part.
SendsHead(r) ==
  /\ at[r] = "head"
  /\ Sends(r)
  /\ IF ClosesNull(r) THEN Dies
     ELSE Go(r, IF Short(r) THEN "close"
                ELSE IF kind[r] = "file" /\ program \in {"np20", "multithread_http_server"}
                THEN "stream" ELSE "body2")
  /\ UNCHANGED <<client, work, files>>

SendsBody(r) ==
  /\ at[r] = "body2"
  /\ Sends(r)
  /\ Go(r, "close")
  /\ UNCHANGED <<client, work, files>>

\* A send on a connection that is known to be gone.
SigPipe(r) ==
  /\ at[r] \in {"head", "body2"} \/ (at[r] = "stream" /\ Wants(r) /\ ~AtEnd(r))
  /\ conn[r] = "rst"
  /\ Dies
  /\ UNCHANGED <<client, conn, work, files>>

Closes(r) ==
  /\ at[r] = "close"
  /\ conn' = [conn EXCEPT ![r] = "closed"]
  /\ Go(r, "done")
  /\ UNCHANGED <<client, work, files>>
-----------------------------------------------------------------------------
(***************************************************************************)
(* The clients, and whoever edits the file.                                *)
(***************************************************************************)
ClientSends(r) ==
  /\ process = "running" /\ conn[r] \in {"open", "full"}
  /\ arrived[r] < IF kind[r] = "upload" THEN Pieces[r] + 1 ELSE 1
  /\ arrived' = [arrived EXCEPT ![r] = @ + 1]
  /\ UNCHANGED <<program, process, kind, conn, at, work, files>>

\* It reads what was sent, and the send that waited for it returns.
ClientReads(r) ==
  /\ process = "running" /\ conn[r] = "full"
  /\ conn' = [conn EXCEPT ![r] = "open"]
  /\ UNCHANGED <<client, process, at, work, files>>

\* It leaves; one that has not read all resets the connection, and the send that
\* waited for it returns an error.
ClientLeaves(r) ==
  /\ process = "running" /\ conn[r] \in {"open", "full"}
  /\ conn' = [conn EXCEPT ![r] = IF @ = "full" THEN "rst" ELSE "fin"]
  /\ UNCHANGED <<client, process, at, work, files>>

Edits ==
  /\ process = "running" /\ edits < MaxEdits /\ exists
  /\ edits' = edits + 1
  /\ \E n \in {0, Stored + 1} : Changes(Nobody, Original(n))
  /\ UNCHANGED <<client, process, conn, at, work, exists>>
-----------------------------------------------------------------------------
Thread(r) ==
  \/ ListsFolder(r) \/ OverrunsPage(r) \/ StartsDownload(r) \/ StartsUpload(r)
  \/ HeaderEnds(r)
  \/ Opens(r) \/ NotFound(r) \/ ReadsPiece(r)
  \/ Streams(r) \/ StreamEnds(r) \/ Spins(r)
  \/ ReadsBody(r) \/ Creates(r) \/ CrashesOnNoPart(r) \/ PartCut(r)
  \/ Writes(r) \/ FileWritten(r) \/ ComparesSize(r) \/ ComparesPiece(r)
  \/ SendsHead(r) \/ SendsBody(r) \/ SigPipe(r) \/ Closes(r)

Client(r) == ClientSends(r) \/ ClientReads(r) \/ ClientLeaves(r)

Next ==
  \/ Edits
  \/ \E r \in Requests : Accepts(r) \/ Thread(r) \/ Client(r)

\* Threads run; a client sends the rest of its request and reads what it is sent,
\* or leaves.  Of the program only the first is asked: a server has no timeout,
\* and keeps the thread of a client that does neither.
FairSpec ==
  /\ Init /\ [][Next]_vars
  /\ \A r \in Requests :
       WF_vars(Thread(r)) /\ WF_vars(ClientSends(r)) /\ WF_vars(ClientReads(r))
-----------------------------------------------------------------------------
(***************************************************************************)
(* Properties.                                                             *)
(***************************************************************************)
\* A download that nobody disturbed delivers the file, as long as it said.
WholeDownload ==
  \A r \in Requests :
    at[r] = "close" /\ kind[r] = "file" /\ reply[r] = "200" /\ ~touched[r] =>
      got[r] = disk /\ length[r] = Len(disk)

\* http_upload: threads may write one name at once, each at its own offset, and
\* leave a file that is nobody's.  Then the answer to at least one of the uploads,
\* the one that wrote last, is "File integrity check failed" (http_upload.c:333).
TornIsReported ==
  program = "http_upload" /\ edits = 0 /\ exists
  /\ (\A r \in Requests : at[r] \notin {"write", "verify", "check"})
  => \/ disk = Original(Stored) \/ \E r \in Requests : disk = Uploaded(r)
     \/ \E r \in Requests : reply[r] = "failed"

\* Every request that got a thread ends when its client sends it all and reads the
\* answer, or leaves, wherever that is; unless the process ends, or the thread is
\* np20's and the file it sends changes under it (np20.c:265).
RequestsEnd ==
  \A r \in Requests :
    at[r] = "header" ~>
      \/ at[r] = "done" \/ process = "killed"
      \/ program = "np20" /\ touched[r]
=============================================================================
