--------------------------- MODULE HttpFiles_proofs ---------------------------
(***************************************************************************)
(* Theorems about the four HTTP servers, for any number of connections and *)
(* files of any size: a download nobody disturbs is whole, and of uploads  *)
(* that tore each other apart one at least is answered as failed.          *)
(***************************************************************************)
EXTENDS HttpFiles, SequenceTheorems, TLAPS

Steps ==
  {"none", "header", "open", "read", "head", "stream", "spin", "body", "create", "write",
   "verify", "check", "body2", "close", "done", "lost"}
Used  == {"open", "full", "fin", "rst"}
Conns == {"none", "closed"} \cup Used
Replied ==
  {"none", "page", "200", "404", "400", "500", "verified", "failed"}

\* What a file may hold, and what a thread may have read.
Piece == ((Requests \cup {"old"}) \X (Nat \ {0})) \cup {Hole}
Read  == Piece \cup {Garbage}

HttpTypes ==
  /\ program \in Programs /\ kind \in [Requests -> Kinds]
  /\ disk \in Seq(Piece)
  /\ conn \in [Requests -> Conns]
  /\ arrived \in [Requests -> Nat]
  /\ at \in [Requests -> Steps]
  /\ length \in [Requests -> Nat]
  /\ got \in [Requests -> Seq(Read)]
  /\ offset \in [Requests -> Nat]
  /\ reply \in [Requests -> Replied]
  /\ touched \in [Requests -> BOOLEAN]
  /\ edits \in Nat

FromMemory == program \in {"http_upload", "http_cont"}

\* Which requests come to a step, and what has been done before it.
Stage(r) ==
  /\ at[r] = "none" <=> conn[r] = "none"
  /\ conn[r] = "closed" => at[r] = "done"
  /\ at[r] \in {"open", "read", "stream", "spin"} => kind[r] = "file"
  /\ at[r] \in {"body", "create", "write", "verify", "check"} => kind[r] = "upload"
  /\ at[r] = "read" => FromMemory
  /\ at[r] \in {"stream", "spin"} => ~FromMemory
  /\ at[r] = "body2" /\ kind[r] = "file" => FromMemory
  /\ at[r] \in {"none", "header", "open", "body", "create"} => reply[r] = "none"
  /\ at[r] \in {"none", "header", "open", "body", "create", "write", "verify"} =>
       got[r] = <<>>
  /\ reply[r] = "failed" =>
       kind[r] = "upload" /\ at[r] \in {"head", "body2", "close", "done"}

\* What it has read of the file as it is now.
Prefix(r) ==
  /\ Len(got[r]) <= Len(disk)
  /\ \A i \in 1..Len(got[r]) : got[r][i] = disk[i]

\* A download nobody disturbed.
Download(r) ==
  kind[r] = "file" /\ reply[r] = "200" /\ ~touched[r] /\ at[r] # "done" =>
    /\ length[r] = Len(disk) /\ Prefix(r)
    /\ at[r] = "close" \/ (FromMemory /\ at[r] \in {"head", "body2"}) =>
         Len(got[r]) = Len(disk)

\* Who changed the file last has not compared all of it yet, and will find out.
Checking(r) ==
  \/ at[r] \in {"write", "verify"}
  \/ at[r] = "check" /\ Len(disk) = Pieces[r] /\ Prefix(r)

TornInv ==
  program = "http_upload" /\ edits = 0 =>
    \/ ~exists \/ disk = Original(Stored)
    \/ \E r \in Requests : disk = Uploaded(r) \/ reply[r] = "failed" \/ Checking(r)

HttpInv ==
  HttpTypes /\ (\A r \in Requests : Stage(r) /\ Download(r)) /\ TornInv
-----------------------------------------------------------------------------
(***************************************************************************)
(* Files.                                                                  *)
(***************************************************************************)
LEMMA HttpBounds ==
  /\ Nobody \notin Requests /\ Stored \in Nat /\ Block \in Nat \ {0}
  /\ \A r \in Requests : Pieces[r] \in Nat \ {0}
  BY HttpAssumption

LEMMA GarbageIsNoPiece == Garbage \notin Piece /\ Hole \in Piece
  BY DEF Garbage, Piece, Hole

LEMMA OriginalSeq == \A n \in Nat : Original(n) \in Seq(Piece)
  <1> SUFFICES ASSUME NEW n \in Nat PROVE Original(n) \in Seq(Piece)
    OBVIOUS
  <1>1. Original(n) \in [1..n -> Piece]
    BY DEF Original, Piece
  <1> QED
    BY <1>1, SeqDef

LEMMA UploadedSeq ==
  ASSUME NEW r \in Requests
  PROVE  /\ Uploaded(r) \in Seq(Piece) /\ Len(Uploaded(r)) = Pieces[r]
         /\ \A i \in 1..Pieces[r] : Uploaded(r)[i] \in Piece
  <1>1. Pieces[r] \in Nat
    BY HttpBounds
  <1>2. Uploaded(r) \in [1..Pieces[r] -> Piece]
    BY <1>1 DEF Uploaded, Piece
  <1>3. Uploaded(r) \in Seq(Piece)
    BY <1>1, <1>2, SeqDef
  <1>4. Len(Uploaded(r)) = Pieces[r]
    BY <1>1 DEF Uploaded
  <1> QED
    BY <1>2, <1>3, <1>4

LEMMA WrittenSeq ==
  ASSUME NEW pieces \in Seq(Piece), NEW i \in Nat \ {0}, NEW piece \in Piece
  PROVE  Written(pieces, i, piece) \in Seq(Piece)
  <1> DEFINE n == IF i > Len(pieces) THEN i ELSE Len(pieces)
  <1>1. Len(pieces) \in Nat /\ n \in Nat
    BY LenProperties
  <1>2. \A j \in 1..Len(pieces) : pieces[j] \in Piece
    BY ElementOfSeq
  <1>3. Written(pieces, i, piece) \in [1..n -> Piece]
    BY <1>1, <1>2, GarbageIsNoPiece DEF Written
  <1> HIDE DEF n
  <1> QED
    BY <1>1, <1>3, SeqDef

LEMMA InitHttp == Init => HttpInv
  <1> SUFFICES ASSUME Init PROVE HttpInv
    OBVIOUS
  <1>1. <<>> \in Seq(Piece) /\ <<>> \in Seq(Read) /\ Len(<<>>) = 0
    BY EmptySeq
  <1>2. disk \in Seq(Piece)
    BY <1>1, OriginalSeq, HttpBounds DEF Init
  <1>3. got \in [Requests -> Seq(Read)]
    BY <1>1, Zenon DEF Init
  <1>4. touched \in [Requests -> BOOLEAN]
    BY Zenon DEF Init
  <1>5. HttpTypes
    BY <1>2, <1>3, <1>4 DEF Init, HttpTypes, Steps, Replied, Conns
  <1>6. \A r \in Requests : Stage(r) /\ Download(r)
    BY DEF Init, Stage, Download
  <1>7. TornInv
    BY DEF Init, TornInv
  <1> QED
    BY <1>5, <1>6, <1>7 DEF HttpInv
-----------------------------------------------------------------------------
(***************************************************************************)
(* A step of one thread or its client.  The others' places are as before;  *)
(* the file is too, or it is this thread that has written.                 *)
(***************************************************************************)
LEMMA RequestStep ==
  ASSUME HttpInv, HttpTypes', NEW r \in Requests,
         UNCHANGED <<program, kind, edits>>,
         \A s \in Requests \ {r} :
           /\ at'[s] = at[s] /\ conn'[s] = conn[s] /\ length'[s] = length[s]
           /\ got'[s] = got[s] /\ reply'[s] = reply[s],
         \/ UNCHANGED <<exists, disk, touched>>
         \/ /\ at'[r] = "write" /\ kind[r] = "upload"
            /\ \A s \in Requests \ {r} : touched'[s] = (touched[s] \/ Using(s)),
         Stage(r)', Download(r)',
         reply[r] = "failed" => reply'[r] = "failed",
         program = "http_upload" /\ Checking(r) /\ UNCHANGED disk =>
           Checking(r)' \/ disk = Uploaded(r) \/ reply'[r] = "failed"
  PROVE  HttpInv'
  <1> USE DEF HttpInv
  <1>1. ASSUME NEW s \in Requests \ {r}
        PROVE  Stage(s)' /\ Download(s)'
    <2>1. Stage(s)'
      <3>1. Stage(s)
        OBVIOUS
      <3> QED
        BY <1>1, <3>1 DEF Stage, FromMemory
    <2>2. CASE UNCHANGED <<exists, disk, touched>>
      <3>1. Download(s)
        OBVIOUS
      <3> QED
        BY <1>1, <2>1, <2>2, <3>1 DEF Download, Prefix, FromMemory
    <2>3. CASE touched'[s] = (touched[s] \/ Using(s))
      BY <1>1, <2>1, <2>3 DEF Download, Prefix, FromMemory, Using, HttpTypes
    <2> QED
      BY <2>1, <2>2, <2>3
  <1>2. TornInv'
    <2> SUFFICES ASSUME program = "http_upload", edits = 0
                 PROVE  \/ ~exists' \/ disk' = Original(Stored)
                        \/ \E s \in Requests :
                             disk' = Uploaded(s) \/ reply'[s] = "failed" \/ Checking(s)'
      BY DEF TornInv
    <2>1. CASE at'[r] = "write"
      BY <2>1 DEF Checking
    <2>2. CASE UNCHANGED <<exists, disk, touched>>
      <3>1. CASE ~exists \/ disk = Original(Stored)
        BY <2>2, <3>1
      <3>2. ASSUME NEW s \in Requests,
                   disk = Uploaded(s) \/ reply[s] = "failed" \/ Checking(s)
            PROVE  \E b \in Requests :
                     disk' = Uploaded(b) \/ reply'[b] = "failed" \/ Checking(b)'
        <4>1. CASE s = r
          BY <2>2, <3>2, <4>1
        <4>2. CASE s # r
          BY <2>2, <3>2, <4>2 DEF Checking, Prefix
        <4> QED
          BY <4>1, <4>2
      <3> QED
        BY <3>1, <3>2 DEF TornInv
    <2> QED
      BY <2>1, <2>2
  <1> QED
    BY <1>1, <1>2

LEMMA GoValues ==
  ASSUME HttpTypes, NEW r \in Requests, NEW step \in Steps, Go(r, step)
  PROVE  /\ at' \in [Requests -> Steps] /\ at'[r] = step
         /\ \A s \in Requests \ {r} : at'[s] = at[s]
  BY DEF Go, HttpTypes

\* A move of a thread that touches no file, with or without an answer.
Moves(r, step, code) ==
  /\ Go(r, step) /\ reply' = [reply EXCEPT ![r] = code]
  /\ UNCHANGED <<client, conn, length, got, offset, files>>

LEMMA ReplyOrNot ==
  ASSUME HttpTypes, NEW r \in Requests, NEW step,
         UNCHANGED <<client, conn, length, got, offset, files>>
  PROVE  /\ Go(r, step) /\ UNCHANGED reply => Moves(r, step, reply[r])
         /\ \A code : Replies(r, code) => Moves(r, "head", code)
  <1>1. reply = [reply EXCEPT ![r] = reply[r]]
    BY DEF HttpTypes
  <1> QED
    BY <1>1 DEF Moves, Replies

LEMMA MovesStep ==
  ASSUME HttpInv, NEW r \in Requests, NEW step \in Steps, NEW code \in Replied,
         Moves(r, step, code),
         at[r] \notin {"none", "done"}, step \notin {"none", "header", "check"},
         step \in {"open", "read", "stream", "spin"} => kind[r] = "file",
         step \in {"body", "create", "write", "verify"} => kind[r] = "upload",
         step # "read", step # "body2",
         step \in {"stream", "spin"} => ~FromMemory,
         step \in {"open", "body", "create"} => code = "none",
         step \in {"open", "body", "create", "write", "verify"} => got[r] = <<>>,
         code = "failed" => step = "head" /\ kind[r] = "upload",
         kind[r] = "file" /\ code = "200" /\ ~touched[r] =>
           /\ Download(r) /\ reply[r] = "200"
           /\ step \in {"close", "head"} => Len(got[r]) = Len(disk),
         reply[r] = "failed" => code = "failed",
         program = "http_upload" /\ Checking(r) =>
           step = "verify" \/ code = "failed" \/ disk = Uploaded(r)
  PROVE  HttpInv'
  <1> USE DEF HttpInv
  <1>1. /\ at' \in [Requests -> Steps] /\ at'[r] = step
        /\ \A s \in Requests \ {r} : at'[s] = at[s]
    BY GoValues DEF Moves
  <1>2. /\ reply' = [reply EXCEPT ![r] = code]
        /\ UNCHANGED <<program, kind, arrived, conn, length, got, offset>>
        /\ UNCHANGED <<exists, disk, touched, edits>>
    BY DEF Moves, client, files
  <1>3. /\ reply' \in [Requests -> Replied] /\ reply'[r] = code
        /\ \A s \in Requests \ {r} : reply'[s] = reply[s]
    BY <1>2 DEF HttpTypes
  <1>4. HttpTypes'
    BY <1>1, <1>2, <1>3 DEF HttpTypes
  <1>5. Stage(r)'
    <2>1. Stage(r)
      OBVIOUS
    <2> QED
      BY <1>1, <1>2, <1>3, <2>1 DEF Stage, FromMemory
  <1>6. Download(r)'
    BY <1>1, <1>2, <1>3 DEF Download, Prefix, FromMemory, Stage
  <1>7. program = "http_upload" /\ Checking(r) =>
          Checking(r)' \/ disk = Uploaded(r) \/ reply'[r] = "failed"
    BY <1>1, <1>3 DEF Checking
  <1> QED
    BY <1>1, <1>2, <1>3, <1>4, <1>5, <1>6, <1>7, RequestStep
-----------------------------------------------------------------------------
LEMMA HeaderStep ==
  ASSUME HttpInv, NEW r \in Requests,
         ListsFolder(r) \/ StartsDownload(r) \/ StartsUpload(r) \/ HeaderEnds(r)
  PROVE  HttpInv'
  <1> USE DEF HttpInv
  <1>1. Stage(r)
    OBVIOUS
  <1>2. /\ at[r] = "header" /\ reply[r] = "none" /\ got[r] = <<>>
        /\ UNCHANGED <<client, conn, length, got, offset, files>>
    BY <1>1 DEF ListsFolder, StartsDownload, StartsUpload, HeaderEnds, ReadsHeader, Stage, work
  <1>3. program \in Programs /\ kind[r] \in Kinds
    BY DEF HttpTypes
  <1>4. PICK step \in Steps, code \in Replied :
          /\ Moves(r, step, code)
          /\ step \in {"head", "close", "open", "body", "create"}
          /\ step = "open" => kind[r] = "file"
          /\ step \in {"body", "create"} => kind[r] = "upload"
          /\ code = IF step = "head" THEN "page" ELSE "none"
    <2>1. CASE ListsFolder(r)
      BY <1>2, <2>1, ReplyOrNot DEF ListsFolder, Page, Steps, Replied
    <2>2. CASE StartsDownload(r)
      BY <1>2, <2>2, ReplyOrNot DEF StartsDownload, Steps, Replied
    <2>3. CASE StartsUpload(r)
      <3>1. PICK step \in {"body", "create", "close"} : Go(r, step) /\ UNCHANGED reply
        BY <1>3, <2>3 DEF StartsUpload, Programs
      <3>2. kind[r] = "upload"
        BY <2>3 DEF StartsUpload
      <3> QED
        BY <1>2, <3>1, <3>2, ReplyOrNot DEF Steps, Replied
    <2>4. CASE HeaderEnds(r)
      BY <1>2, <2>4, ReplyOrNot DEF HeaderEnds, work, Steps, Replied
    <2> QED
      BY <2>1, <2>2, <2>3, <2>4
  <1> QED
    BY <1>2, <1>4, MovesStep DEF Checking

\* No file, no body, the end of a file, or a file that is there no more.
LEMMA EndsStep ==
  ASSUME HttpInv, NEW r \in Requests,
         \/ NotFound(r) \/ StreamEnds(r) \/ Spins(r) \/ ReadsBody(r) \/ PartCut(r)
         \/ FileWritten(r)
  PROVE  HttpInv'
  <1> USE DEF HttpInv
  <1>1. Stage(r) /\ Download(r) /\ program \in Programs
    BY DEF HttpTypes
  <1>2. CASE NotFound(r)
    <2>1. PICK step \in {"close", "head"}, code \in {"none", "404"} :
            Moves(r, step, code) /\ (step = "close" => code = "none")
      BY <1>1, <1>2, ReplyOrNot DEF NotFound, Stage
    <2> QED
      BY <1>1, <1>2, <2>1, MovesStep DEF NotFound, Stage, Steps, Replied, Checking
  <1>3. CASE StreamEnds(r)
    <2>1. Moves(r, "close", reply[r]) /\ at[r] = "stream" /\ ~Wants(r)
      BY <1>3, ReplyOrNot DEF StreamEnds, work
    <2>2. reply[r] \in Replied /\ reply[r] # "failed"
      BY <1>1, <2>1 DEF HttpTypes, Stage
    <2>3. kind[r] = "file" /\ reply[r] = "200" /\ ~touched[r] => Len(got[r]) = Len(disk)
      <3>1. Len(got[r]) \in Nat /\ Len(disk) \in Nat
        BY LenProperties DEF HttpTypes
      <3> QED
        BY <1>1, <2>1, <3>1 DEF Wants, AtEnd, Download, Prefix
    <2> QED
      BY <1>1, <2>1, <2>2, <2>3, MovesStep DEF Steps, Checking
  <1>4. CASE Spins(r)
    <2>1. Moves(r, "spin", reply[r]) /\ at[r] = "stream"
      BY <1>4, ReplyOrNot DEF Spins, work
    <2>2. reply[r] \in Replied /\ reply[r] # "failed"
      BY <1>1, <2>1 DEF HttpTypes, Stage
    <2> QED
      BY <1>1, <2>1, <2>2, MovesStep DEF Steps, Checking, Stage
  <1>5. CASE ReadsBody(r)
    <2>1. PICK step \in {"create", "head"}, code \in {"none", "400"} :
            Moves(r, step, code) /\ (step = "create" => code = "none")
      BY <1>1, <1>5, ReplyOrNot DEF ReadsBody, Stage
    <2> QED
      BY <1>1, <1>5, <2>1, MovesStep DEF ReadsBody, Stage, Steps, Replied, Checking
  <1>6. CASE PartCut(r)
    <2>1. Moves(r, "head", "400") /\ at[r] = "create" /\ program = "np20"
      BY <1>1, <1>6, ReplyOrNot DEF PartCut
    <2>2. reply[r] # "failed" /\ "head" \in Steps /\ "400" \in Replied
      BY <1>1, <2>1 DEF Stage, Steps, Replied
    <2> QED
      BY <2>1, <2>2, MovesStep DEF Checking
  <1>7. CASE FileWritten(r)
    <2>1. /\ at[r] = "write"
          /\ \/ program = "np20" /\ Moves(r, "head", "200")
             \/ program # "np20" /\ Moves(r, "verify", reply[r])
      BY <1>7, ReplyOrNot DEF FileWritten
    <2>2. kind[r] = "upload" /\ reply[r] \in Replied /\ reply[r] # "failed" /\ got[r] = <<>>
      BY <1>1, <2>1 DEF HttpTypes, Stage
    <2> QED
      BY <1>1, <2>1, <2>2, MovesStep DEF Steps, Replied
  <1> QED
    BY <1>2, <1>3, <1>4, <1>5, <1>6, <1>7

\* A step that stays within the thread: nothing of the others or of files.
LEMMA ComparesSizeStep ==
  ASSUME HttpInv, NEW r \in Requests, ComparesSize(r)
  PROVE  HttpInv'
  <1> USE DEF HttpInv
  <1>1. Stage(r) /\ at[r] = "verify"
    BY DEF ComparesSize
  <1>2. kind[r] = "upload" /\ got[r] = <<>> /\ reply[r] # "failed" /\ reply[r] \in Replied
    BY <1>1 DEF Stage, HttpTypes
  <1>3. CASE Len(disk) # Pieces[r]
    <2>1. Moves(r, "head", "failed")
      BY <1>3, ReplyOrNot DEF ComparesSize
    <2> QED
      BY <1>1, <1>2, <2>1, MovesStep DEF Steps, Replied
  <1>4. CASE Len(disk) = Pieces[r]
    <2>1. /\ Go(r, "check")
          /\ UNCHANGED <<program, kind, arrived, conn, length, got, offset, reply>>
          /\ UNCHANGED <<exists, disk, touched, edits>>
      BY <1>4 DEF ComparesSize, client, files
    <2>2. /\ at' \in [Requests -> Steps] /\ at'[r] = "check"
          /\ \A s \in Requests \ {r} : at'[s] = at[s]
      BY <2>1, GoValues DEF Steps
    <2>3. HttpTypes'
      BY <2>1, <2>2 DEF HttpTypes
    <2>4. Stage(r)' /\ Download(r)'
      BY <1>1, <1>2, <2>1, <2>2 DEF Stage, Download
    <2>5. Len(got[r]) = 0 /\ Len(disk) \in Nat
      BY <1>2, EmptySeq, LenProperties DEF HttpTypes
    <2>6. Checking(r)'
      BY <1>4, <2>1, <2>2, <2>5 DEF Checking, Prefix
    <2> QED
      BY <1>2, <2>1, <2>2, <2>3, <2>4, <2>6, RequestStep
  <1> QED
    BY <1>3, <1>4

\* The thread writes: it is the one that changed the file last.
LEMMA ChangesStep ==
  ASSUME HttpInv, NEW r \in Requests, at[r] \in {"create", "write"}, Go(r, "write"),
         NEW pieces \in Seq(Piece), Changes(r, pieces),
         UNCHANGED <<client, conn, length, got, reply, edits>>,
         offset' \in [Requests -> Nat]
  PROVE  HttpInv'
  <1> USE DEF HttpInv
  <1>1. Stage(r)
    OBVIOUS
  <1>2. kind[r] = "upload" /\ got[r] = <<>> /\ reply[r] # "failed"
    BY <1>1 DEF Stage
  <1>3. /\ at' \in [Requests -> Steps] /\ at'[r] = "write"
        /\ \A s \in Requests \ {r} : at'[s] = at[s]
    BY GoValues DEF Steps
  <1>4. /\ disk' = pieces /\ touched' \in [Requests -> BOOLEAN]
        /\ \A s \in Requests \ {r} : touched'[s] = (touched[s] \/ Using(s))
    BY DEF Changes
  <1>5. UNCHANGED <<program, kind, arrived, conn, length, got, reply, edits>>
    BY DEF client
  <1>6. HttpTypes'
    BY <1>3, <1>4, <1>5 DEF HttpTypes
  <1>7. Stage(r)' /\ Download(r)'
    BY <1>1, <1>2, <1>3, <1>5 DEF Stage, Download
  <1>8. Checking(r)'
    BY <1>3 DEF Checking
  <1> QED
    BY <1>2, <1>3, <1>4, <1>5, <1>6, <1>7, <1>8, RequestStep

LEMMA WritesStep ==
  ASSUME HttpInv, NEW r \in Requests, Creates(r) \/ Writes(r)
  PROVE  HttpInv'
  <1> USE DEF HttpInv
  <1>1. CASE Creates(r) /\ Truncates(r) /\ Go(r, "write") /\ UNCHANGED reply
    <2>1. <<>> \in Seq(Piece) /\ offset' \in [Requests -> Nat]
      BY <1>1, EmptySeq DEF Creates, HttpTypes
    <2> QED
      BY <1>1, <2>1, ChangesStep DEF Creates, Truncates
  <1>2. CASE Creates(r) /\ Replies(r, "500") /\ UNCHANGED <<exists, disk, touched>>
    <2>1. Moves(r, "head", "500") /\ at[r] = "create"
      BY <1>2, ReplyOrNot DEF Creates, files
    <2>2. Stage(r)
      OBVIOUS
    <2> QED
      BY <2>1, <2>2, MovesStep DEF Steps, Replied, Stage, Checking
  <1>3. CASE Writes(r)
    <2> DEFINE pieces == Written(disk, offset[r] + 1, Uploaded(r)[offset[r] + 1])
    <2>1. offset[r] \in Nat /\ offset[r] + 1 \in 1..Pieces[r] /\ disk \in Seq(Piece)
      BY <1>3, HttpBounds DEF Writes, HttpTypes
    <2>2. pieces \in Seq(Piece)
      <3>1. offset[r] + 1 \in Nat \ {0} /\ Uploaded(r)[offset[r] + 1] \in Piece
        BY <2>1, UploadedSeq
      <3> QED
        BY <2>1, <3>1, WrittenSeq
    <2>3. offset' \in [Requests -> Nat]
      BY <1>3, <2>1 DEF Writes, HttpTypes
    <2>4. /\ Changes(r, pieces) /\ at[r] = "write" /\ Go(r, "write")
          /\ UNCHANGED <<client, conn, length, got, reply, edits>>
      BY <1>3 DEF Writes
    <2> HIDE DEF pieces
    <2> QED
      BY <2>2, <2>3, <2>4, ChangesStep
  <1> QED
    BY <1>1, <1>2, <1>3 DEF Creates
-----------------------------------------------------------------------------
(***************************************************************************)
(* Steps that read the file.                                               *)
(***************************************************************************)
LEMMA OpensStep ==
  ASSUME HttpInv, NEW r \in Requests, Opens(r)
  PROVE  HttpInv'
  <1> USE DEF HttpInv
  <1>1. Stage(r) /\ program \in Programs
    BY DEF HttpTypes
  <1>2. /\ at[r] = "open" /\ kind[r] = "file" /\ got[r] = <<>> /\ reply[r] = "none"
        /\ length' = [length EXCEPT ![r] = Len(disk)]
        /\ reply' = [reply EXCEPT ![r] = "200"]
        /\ UNCHANGED <<program, kind, arrived, conn, got, offset>>
        /\ UNCHANGED <<exists, disk, touched, edits>>
    BY <1>1 DEF Opens, Stage, client, files
  <1>3. PICK step \in Steps : Go(r, step) /\ step = IF FromMemory THEN "read" ELSE "head"
    BY DEF Opens, FromMemory, Steps
  <1>4. /\ at' \in [Requests -> Steps] /\ at'[r] = step
        /\ \A s \in Requests \ {r} : at'[s] = at[s]
    BY <1>3, GoValues
  <1>5. Len(disk) \in Nat /\ Len(got[r]) = 0
    BY <1>2, EmptySeq, LenProperties DEF HttpTypes
  <1>6. /\ length' \in [Requests -> Nat] /\ length'[r] = Len(disk)
        /\ \A s \in Requests \ {r} : length'[s] = length[s]
    BY <1>2, <1>5 DEF HttpTypes
  <1>7. /\ reply' \in [Requests -> Replied] /\ reply'[r] = "200"
        /\ \A s \in Requests \ {r} : reply'[s] = reply[s]
    BY <1>2 DEF HttpTypes, Replied
  <1>8. HttpTypes'
    BY <1>2, <1>4, <1>6, <1>7 DEF HttpTypes
  <1>9. Stage(r)'
    BY <1>1, <1>2, <1>3, <1>4, <1>7 DEF Stage, FromMemory
  <1>10. Download(r)'
    BY <1>2, <1>3, <1>4, <1>5, <1>6 DEF Download, Prefix, FromMemory
  <1> QED
    BY <1>2, <1>4, <1>6, <1>7, <1>8, <1>9, <1>10, RequestStep DEF Checking

\* Another piece: that of the file, unless it has become shorter.
LEMMA GetsPiece ==
  ASSUME HttpTypes, NEW r \in Requests, NEW piece \in Read,
         got' = [got EXCEPT ![r] = Append(got[r], piece)]
  PROVE  /\ got' \in [Requests -> Seq(Read)]
         /\ \A s \in Requests \ {r} : got'[s] = got[s]
         /\ Len(got[r]) \in Nat /\ Len(got'[r]) = Len(got[r]) + 1
         /\ \A i \in 1..Len(got[r]) : got'[r][i] = got[r][i]
         /\ got'[r][Len(got[r]) + 1] = piece
  <1>1. got[r] \in Seq(Read)
    BY DEF HttpTypes
  <1>2. /\ Append(got[r], piece) \in Seq(Read) /\ Len(got[r]) \in Nat
        /\ Len(Append(got[r], piece)) = Len(got[r]) + 1
        /\ \A i \in 1..Len(got[r]) : Append(got[r], piece)[i] = got[r][i]
        /\ Append(got[r], piece)[Len(got[r]) + 1] = piece
    BY <1>1, AppendProperties, LenProperties
  <1>3. /\ got'[r] = Append(got[r], piece)
        /\ \A s \in Requests \ {r} : got'[s] = got[s]
    BY DEF HttpTypes
  <1>4. got' \in [Requests -> Seq(Read)]
    BY <1>2 DEF HttpTypes
  <1> QED
    BY <1>2, <1>3, <1>4

LEMMA NextPieceType ==
  ASSUME HttpTypes, NEW r \in Requests
  PROVE  /\ NextPiece(r) \in Read
         /\ Len(got[r]) < Len(disk) => NextPiece(r) = disk[Len(got[r]) + 1]
  <1>1. Len(got[r]) \in Nat /\ Len(disk) \in Nat
    BY LenProperties DEF HttpTypes
  <1>2. \A i \in 1..Len(disk) : disk[i] \in Piece
    BY ElementOfSeq DEF HttpTypes
  <1> QED
    BY <1>1, <1>2 DEF NextPiece, Read

LEMMA ReadsPieceStep ==
  ASSUME HttpInv, NEW r \in Requests, ReadsPiece(r)
  PROVE  HttpInv'
  <1> USE DEF HttpInv
  <1>1. Stage(r) /\ Download(r) /\ at[r] = "read"
    BY DEF ReadsPiece
  <1>2. kind[r] = "file" /\ reply[r] \in Replied /\ reply[r] # "failed" /\ FromMemory
    BY <1>1 DEF Stage, HttpTypes
  <1>3. Len(got[r]) \in Nat /\ Len(disk) \in Nat /\ length[r] \in Nat
    BY LenProperties DEF HttpTypes
  <1>4. CASE Len(got[r]) < length[r]
    <2>1. /\ got' = [got EXCEPT ![r] = Append(got[r], NextPiece(r))] /\ Go(r, "read")
          /\ UNCHANGED <<program, kind, arrived, conn, length, offset, reply>>
          /\ UNCHANGED <<exists, disk, touched, edits>>
      BY <1>4 DEF ReadsPiece, client, files
    <2>2. /\ at' \in [Requests -> Steps] /\ at'[r] = "read"
          /\ \A s \in Requests \ {r} : at'[s] = at[s]
      BY <2>1, GoValues DEF Steps
    <2>3. PICK piece \in Read : piece = NextPiece(r)
      BY NextPieceType
    <2>4. /\ got' \in [Requests -> Seq(Read)]
          /\ \A s \in Requests \ {r} : got'[s] = got[s]
          /\ Len(got'[r]) = Len(got[r]) + 1
          /\ \A i \in 1..Len(got[r]) : got'[r][i] = got[r][i]
          /\ got'[r][Len(got[r]) + 1] = piece
      BY <2>1, <2>3, GetsPiece
    <2>5. HttpTypes'
      BY <2>1, <2>2, <2>4 DEF HttpTypes
    <2>6. Stage(r)'
      BY <1>1, <2>1, <2>2 DEF Stage, FromMemory
    <2>7. Download(r)'
      <3> SUFFICES ASSUME reply[r] = "200", ~touched[r]
                   PROVE  length[r] = Len(disk) /\ Prefix(r)'
        BY <2>1, <2>2 DEF Download
      <3>1. length[r] = Len(disk) /\ Prefix(r)
        BY <1>1, <1>2 DEF Download
      <3>2. piece = disk[Len(got[r]) + 1]
        BY <1>4, <2>3, <3>1, NextPieceType
      <3> QED
        BY <1>3, <1>4, <2>1, <2>4, <3>1, <3>2 DEF Prefix
    <2> QED
      BY <1>1, <1>2, <2>1, <2>2, <2>4, <2>5, <2>6, <2>7, RequestStep DEF Checking
  <1>5. CASE ~(Len(got[r]) < length[r])
    <2>1. Moves(r, "head", reply[r])
      BY <1>5, ReplyOrNot DEF ReadsPiece
    <2>2. reply[r] = "200" /\ ~touched[r] => Len(got[r]) = Len(disk)
      BY <1>1, <1>2, <1>3, <1>5 DEF Download, Prefix
    <2> QED
      BY <1>1, <1>2, <2>1, <2>2, MovesStep DEF Steps, Checking
  <1> QED
    BY <1>4, <1>5

\* The verdict on a file that is as it was compared: right.
LEMMA VerdictIsRight ==
  ASSUME HttpTypes, NEW r \in Requests, Len(disk) = Pieces[r], Prefix(r),
         Len(got[r]) >= Pieces[r], NEW verdict \in Verdicts(r)
  PROVE  verdict = "failed" \/ disk = Uploaded(r)
  <1>1. /\ got[r] \in Seq(Read) /\ disk \in Seq(Piece) /\ Uploaded(r) \in Seq(Piece)
        /\ Len(Uploaded(r)) = Pieces[r]
    BY UploadedSeq DEF HttpTypes
  <1>2. Len(got[r]) \in Nat /\ Len(disk) \in Nat
    BY <1>1, LenProperties
  <1>3. Len(got[r]) = Pieces[r] /\ \A i \in 1..Pieces[r] : got[r][i] = disk[i]
    BY <1>2 DEF Prefix
  <1>4. \A i \in 1..Pieces[r] : disk[i] # Garbage
    BY <1>1, ElementOfSeq, GarbageIsNoPiece
  <1>5. CASE \E i \in 1..Pieces[r] : got[r][i] \notin {Uploaded(r)[i], Garbage}
    BY <1>5 DEF Verdicts
  <1>6. CASE \A i \in 1..Pieces[r] : got[r][i] \in {Uploaded(r)[i], Garbage}
    <2>1. \A i \in 1..Pieces[r] : disk[i] = Uploaded(r)[i]
      BY <1>3, <1>4, <1>6
    <2> QED
      BY <1>1, <2>1, SeqEqual
  <1> QED
    BY <1>5, <1>6

LEMMA ComparesPieceStep ==
  ASSUME HttpInv, NEW r \in Requests, ComparesPiece(r)
  PROVE  HttpInv'
  <1> USE DEF HttpInv
  <1>1. Stage(r) /\ at[r] = "check"
    BY DEF ComparesPiece
  <1>2. kind[r] = "upload" /\ reply[r] # "failed"
    BY <1>1 DEF Stage
  <1>3. Len(got[r]) \in Nat /\ Len(disk) \in Nat /\ Pieces[r] \in Nat
    BY LenProperties, HttpBounds DEF HttpTypes
  <1>4. CASE Len(got[r]) < Pieces[r]
    <2>1. /\ got' = [got EXCEPT ![r] = Append(got[r], NextPiece(r))] /\ Go(r, "check")
          /\ UNCHANGED <<program, kind, arrived, conn, length, offset, reply>>
          /\ UNCHANGED <<exists, disk, touched, edits>>
      BY <1>4 DEF ComparesPiece, client, files
    <2>2. /\ at' \in [Requests -> Steps] /\ at'[r] = "check"
          /\ \A s \in Requests \ {r} : at'[s] = at[s]
      BY <2>1, GoValues DEF Steps
    <2>3. PICK piece \in Read : piece = NextPiece(r)
      BY NextPieceType
    <2>4. /\ got' \in [Requests -> Seq(Read)]
          /\ \A s \in Requests \ {r} : got'[s] = got[s]
          /\ Len(got'[r]) = Len(got[r]) + 1
          /\ \A i \in 1..Len(got[r]) : got'[r][i] = got[r][i]
          /\ got'[r][Len(got[r]) + 1] = piece
      BY <2>1, <2>3, GetsPiece
    <2>5. HttpTypes'
      BY <2>1, <2>2, <2>4 DEF HttpTypes
    <2>6. Stage(r)' /\ Download(r)'
      BY <1>1, <1>2, <2>1, <2>2 DEF Stage, Download
    <2>7. Checking(r) => Checking(r)'
      <3> SUFFICES ASSUME Len(disk) = Pieces[r], Prefix(r)
                   PROVE  Prefix(r)'
        BY <1>1, <2>1, <2>2 DEF Checking
      <3>1. piece = disk[Len(got[r]) + 1]
        BY <1>4, <2>3, NextPieceType
      <3> QED
        BY <1>3, <1>4, <2>1, <2>4, <3>1 DEF Prefix
    <2> QED
      BY <1>2, <2>1, <2>2, <2>4, <2>5, <2>6, <2>7, RequestStep
  <1>5. CASE ~(Len(got[r]) < Pieces[r])
    <2>1. PICK verdict \in Verdicts(r) : Moves(r, "head", verdict)
      BY <1>5, ReplyOrNot DEF ComparesPiece
    <2>2. verdict \in {"verified", "failed"}
      BY <2>1 DEF Verdicts
    <2>3. Checking(r) => verdict = "failed" \/ disk = Uploaded(r)
      BY <1>1, <1>3, <1>5, <2>1, VerdictIsRight DEF Checking
    <2> QED
      BY <1>1, <1>2, <2>1, <2>2, <2>3, MovesStep DEF Steps, Replied
  <1> QED
    BY <1>4, <1>5
-----------------------------------------------------------------------------
(***************************************************************************)
(* Steps on the connection.                                                *)
(***************************************************************************)
\* A send on a connection as the server has it.
LEMMA SendsConn ==
  ASSUME NEW r \in Requests, conn[r] \in Used, Sends(r)
  PROVE  \E after \in Used : conn' = [conn EXCEPT ![r] = after]
  BY DEF Sends, AfterSend, Used

LEMMA StageConn ==
  ASSUME HttpInv, NEW r \in Requests, at[r] \notin {"none", "done"}
  PROVE  conn[r] \in Used
  BY DEF HttpInv, HttpTypes, Stage, Conns

LEMMA StreamsStep ==
  ASSUME HttpInv, NEW r \in Requests, Streams(r)
  PROVE  HttpInv'
  <1> USE DEF HttpInv
  <1>1. Stage(r) /\ Download(r) /\ at[r] = "stream" /\ ~AtEnd(r)
    BY DEF Streams
  <1>2. /\ Go(r, "stream")
        /\ UNCHANGED <<program, kind, arrived, length, offset, reply>>
        /\ UNCHANGED <<exists, disk, touched, edits>>
    BY DEF Streams, client, files
  <1>3. PICK after \in Used : conn' = [conn EXCEPT ![r] = after]
    BY <1>1, StageConn, SendsConn DEF Streams
  <1>4. /\ at' \in [Requests -> Steps] /\ at'[r] = "stream"
        /\ \A s \in Requests \ {r} : at'[s] = at[s]
    BY <1>2, GoValues DEF Steps
  <1>5. /\ conn' \in [Requests -> Conns]
        /\ conn'[r] = after /\ \A s \in Requests \ {r} : conn'[s] = conn[s]
    BY <1>3 DEF HttpTypes, Conns
  <1>6. Len(got[r]) \in Nat /\ Len(disk) \in Nat /\ Len(got[r]) < Len(disk)
    BY <1>1, LenProperties DEF HttpTypes, AtEnd
  <1>7. PICK piece \in Read : piece = disk[Len(got[r]) + 1]
    BY <1>6, NextPieceType
  <1>8. /\ got' \in [Requests -> Seq(Read)]
        /\ \A s \in Requests \ {r} : got'[s] = got[s]
        /\ Len(got'[r]) = Len(got[r]) + 1
        /\ \A i \in 1..Len(got[r]) : got'[r][i] = got[r][i]
        /\ got'[r][Len(got[r]) + 1] = piece
    <2>1. got' = [got EXCEPT ![r] = Append(got[r], piece)]
      BY <1>7 DEF Streams
    <2> QED
      BY <2>1, GetsPiece
  <1>9. HttpTypes'
    BY <1>2, <1>4, <1>5, <1>8 DEF HttpTypes
  <1>10. Stage(r)'
    BY <1>1, <1>2, <1>4, <1>5 DEF Stage, FromMemory, Used
  <1>11. Download(r)'
    <2> SUFFICES ASSUME reply[r] = "200", ~touched[r], kind[r] = "file"
                 PROVE  length[r] = Len(disk) /\ Prefix(r)'
      BY <1>2, <1>4 DEF Download
    <2>1. length[r] = Len(disk) /\ Prefix(r)
      BY <1>1 DEF Download
    <2>2. Len(got'[r]) <= Len(disk) /\ 1..Len(got'[r]) = 1..(Len(got[r]) + 1)
      BY <1>6, <1>8
    <2>3. \A i \in 1..(Len(got[r]) + 1) : i \in 1..Len(got[r]) \/ i = Len(got[r]) + 1
      BY <1>6
    <2>4. \A i \in 1..(Len(got[r]) + 1) : got'[r][i] = disk[i]
      BY <1>7, <1>8, <2>1, <2>3 DEF Prefix
    <2> QED
      BY <1>2, <2>1, <2>2, <2>4 DEF Prefix
  <1> QED
    BY <1>1, <1>2, <1>4, <1>5, <1>8, <1>9, <1>10, <1>11, RequestStep DEF Checking

\* A send or a close, after which the thread is at another step or has died.
LEMMA ConnStep ==
  ASSUME HttpInv, NEW r \in Requests, at[r] \notin {"none", "done"},
         NEW step \in Steps, step \notin {"none", "check"},
         at' = [at EXCEPT ![r] = step],
         NEW after \in Conns \ {"none"},
         conn' = [conn EXCEPT ![r] = after], after = "closed" => step = "done",
         UNCHANGED <<client, work, files>>,
         \/ step = at[r]
         \/ /\ step \in {"close", "stream", "body2", "done"}
            /\ at[r] \in {"head", "body2", "close"}
            /\ step = "stream" => kind[r] = "file" /\ ~FromMemory
            /\ step = "body2" /\ kind[r] = "file" => FromMemory
            /\ step = "close" /\ at[r] = "head" => kind[r] # "file" \/ reply[r] # "200"
  PROVE  HttpInv'
  <1> USE DEF HttpInv
  <1>1. Stage(r) /\ Download(r)
    OBVIOUS
  <1>2. /\ UNCHANGED <<program, kind, arrived, length, got, offset, reply>>
        /\ UNCHANGED <<exists, disk, touched, edits>>
    BY DEF client, work, files
  <1>3. /\ at' \in [Requests -> Steps] /\ at'[r] = step
        /\ \A s \in Requests \ {r} : at'[s] = at[s]
    BY DEF HttpTypes
  <1>4. /\ conn' \in [Requests -> Conns]
        /\ conn'[r] = after /\ \A s \in Requests \ {r} : conn'[s] = conn[s]
    BY DEF HttpTypes
  <1>5. HttpTypes'
    BY <1>2, <1>3, <1>4 DEF HttpTypes
  <1>6. Stage(r)'
    <2>1. CASE step = at[r]
      BY <1>1, <1>2, <1>3, <1>4, <2>1 DEF Stage, FromMemory
    <2>2. CASE step # at[r]
      <3>1. /\ step \in {"close", "stream", "body2", "done"}
            /\ step = "stream" => kind[r] = "file" /\ ~FromMemory
            /\ step = "body2" /\ kind[r] = "file" => FromMemory
        BY <2>2
      <3>2. at'[r] # "none" /\ conn'[r] # "none" /\ (conn'[r] = "closed" => at'[r] = "done")
        BY <1>3, <1>4, <3>1
      <3> QED
        BY <1>1, <1>2, <1>3, <3>1, <3>2 DEF Stage, FromMemory
    <2> QED
      BY <2>1, <2>2
  <1>7. Download(r)'
    BY <1>1, <1>2, <1>3 DEF Download, Prefix, FromMemory, Stage
  <1>8. Checking(r) /\ UNCHANGED disk => Checking(r)'
    BY <1>2, <1>3 DEF Checking, Prefix
  <1> QED
    BY <1>2, <1>3, <1>4, <1>5, <1>6, <1>7, <1>8, RequestStep

LEMMA AnswersStep ==
  ASSUME HttpInv, NEW r \in Requests, SendsHead(r) \/ SendsBody(r) \/ Closes(r)
  PROVE  HttpInv'
  <1> USE DEF HttpInv
  <1>1. Stage(r) /\ Download(r) /\ program \in Programs
    BY DEF HttpTypes
  <1>2. CASE Closes(r)
    BY <1>2, ConnStep DEF Closes, Go, Steps, Conns
  <1>3. CASE SendsBody(r)
    <2>1. at[r] = "body2"
      BY <1>3 DEF SendsBody
    <2>2. PICK after \in Used : conn' = [conn EXCEPT ![r] = after]
      BY <1>3, <2>1, StageConn, SendsConn DEF SendsBody
    <2> QED
      BY <1>3, <2>1, <2>2, ConnStep DEF SendsBody, Go, Steps, Conns, Used
  <1>4. CASE SendsHead(r)
    <2>1. at[r] = "head" /\ UNCHANGED <<client, work, files>>
      BY <1>4 DEF SendsHead
    <2>2. PICK after \in Used : conn' = [conn EXCEPT ![r] = after]
      BY <1>4, <2>1, StageConn, SendsConn DEF SendsHead
    <2>3. CASE ClosesNull(r)
      <3>1. program = "np20" /\ reply[r] = "404" /\ UNCHANGED <<at, program, reply>>
        BY <1>4, <2>3 DEF SendsHead, ClosesNull, Dies, client, work
      <3>2. at' = [at EXCEPT ![r] = "head"]
        BY <2>1, <3>1 DEF HttpTypes
      <3> QED
        BY <2>1, <2>2, <3>2, ConnStep DEF Steps, Conns, Used
    <2>4. CASE ~ClosesNull(r)
      <3>1. PICK step \in {"close", "stream", "body2"} :
              /\ Go(r, step)
              /\ step = IF Short(r) THEN "close"
                        ELSE IF kind[r] = "file" /\ program \in {"np20", "multithread_http_server"}
                        THEN "stream" ELSE "body2"
        BY <1>4, <2>4 DEF SendsHead
      <3>2. at' = [at EXCEPT ![r] = step]
        BY <3>1 DEF Go
      <3>3. /\ step = "stream" => kind[r] = "file" /\ ~FromMemory
            /\ step = "body2" /\ kind[r] = "file" => FromMemory
            /\ step = "close" => kind[r] # "file" \/ reply[r] # "200"
        BY <1>1, <3>1 DEF Short, FromMemory, Programs
      <3> QED
        BY <2>1, <2>2, <3>1, <3>2, <3>3, ConnStep DEF Steps, Conns, Used
    <2> QED
      BY <2>3, <2>4
  <1> QED
    BY <1>2, <1>3, <1>4

\* A signal ends the process.
LEMMA DiesStep ==
  ASSUME HttpInv, NEW r \in Requests, CrashesOnNoPart(r) \/ SigPipe(r) \/ OverrunsPage(r)
  PROVE  HttpInv'
  <1> USE DEF HttpInv
  <1>1. /\ UNCHANGED <<client, conn, work, files, at>>
        /\ at[r] \notin {"none", "done", "check"}
    BY DEF CrashesOnNoPart, SigPipe, OverrunsPage, ReadsHeader, Dies, work
  <1>2. at' = [at EXCEPT ![r] = at[r]] /\ conn' = [conn EXCEPT ![r] = conn[r]]
    BY <1>1 DEF HttpTypes
  <1>3. conn[r] \in Conns \ {"none"} /\ conn[r] # "closed"
    BY <1>1, StageConn DEF Conns, Used
  <1> QED
    BY <1>1, <1>2, <1>3, ConnStep DEF HttpTypes

LEMMA AcceptsStep ==
  ASSUME HttpInv, NEW r \in Requests, Accepts(r)
  PROVE  HttpInv'
  <1> USE DEF HttpInv
  <1>1. Stage(r) /\ conn[r] = "none" /\ at[r] = "none"
    BY DEF Accepts, Stage
  <1>2. /\ Go(r, "header") \/ Go(r, "lost")
        /\ conn' = [conn EXCEPT ![r] = "open"]
        /\ UNCHANGED <<program, kind, arrived, length, got, offset, reply>>
        /\ UNCHANGED <<exists, disk, touched, edits>>
    BY DEF Accepts, client, work, files
  <1>3. /\ at' \in [Requests -> Steps] /\ at'[r] \in {"header", "lost"}
        /\ \A s \in Requests \ {r} : at'[s] = at[s]
    BY <1>2, GoValues DEF Steps
  <1>4. /\ conn' \in [Requests -> Conns]
        /\ conn'[r] = "open" /\ \A s \in Requests \ {r} : conn'[s] = conn[s]
    BY <1>2 DEF HttpTypes, Conns, Used
  <1>5. HttpTypes'
    BY <1>2, <1>3, <1>4 DEF HttpTypes
  <1>6. Stage(r)' /\ Download(r)'
    BY <1>1, <1>2, <1>3, <1>4 DEF Stage, Download
  <1> QED
    BY <1>1, <1>2, <1>3, <1>4, <1>5, <1>6, RequestStep DEF Checking

LEMMA ClientStep ==
  ASSUME HttpInv, NEW r \in Requests, Client(r)
  PROVE  HttpInv'
  <1> USE DEF HttpInv
  <1> USE DEF Client
  <1>1. Stage(r) /\ Download(r) /\ conn[r] \in {"open", "full"}
    BY DEF ClientSends, ClientReads, ClientLeaves
  <1>2. /\ UNCHANGED <<program, kind, at, length, got, offset, reply>>
        /\ UNCHANGED <<exists, disk, touched, edits>>
    BY DEF ClientSends, ClientReads, ClientLeaves, client, work, files
  <1>3. arrived' \in [Requests -> Nat]
    <2>1. arrived' = arrived \/ arrived' = [arrived EXCEPT ![r] = arrived[r] + 1]
      BY DEF ClientSends, ClientReads, ClientLeaves, client
    <2>2. arrived \in [Requests -> Nat] /\ arrived[r] + 1 \in Nat
      BY DEF HttpTypes
    <2> QED
      BY <2>1, <2>2
  <1>4. /\ conn' \in [Requests -> Conns]
        /\ conn'[r] \in Used /\ \A s \in Requests \ {r} : conn'[s] = conn[s]
    BY <1>1 DEF ClientSends, ClientReads, ClientLeaves, HttpTypes, Conns, Used
  <1>5. HttpTypes'
    BY <1>2, <1>3, <1>4 DEF HttpTypes
  <1>6. Stage(r)' /\ Download(r)'
    BY <1>1, <1>2, <1>4 DEF Stage, Download, Prefix, FromMemory, Used
  <1>7. Checking(r) => Checking(r)'
    BY <1>2 DEF Checking, Prefix
  <1> QED
    BY <1>1, <1>2, <1>4, <1>5, <1>6, <1>7, RequestStep

LEMMA EditsStep ==
  ASSUME HttpInv, Edits
  PROVE  HttpInv'
  <1> USE DEF HttpInv
  <1>1. /\ process = "running" /\ edits' = edits + 1
        /\ UNCHANGED <<program, kind, arrived, process, conn, at, length, got, offset, reply>>
    BY DEF Edits, client, work
  <1>2. PICK n \in {0, Stored + 1} : Changes(Nobody, Original(n))
    BY DEF Edits
  <1>3. /\ disk' \in Seq(Piece) /\ touched' \in [Requests -> BOOLEAN]
        /\ \A r \in Requests : touched'[r] = (touched[r] \/ Using(r))
    BY <1>2, HttpBounds, OriginalSeq DEF Changes
  <1>4. HttpTypes'
    BY <1>1, <1>3 DEF HttpTypes
  <1>5. ASSUME NEW r \in Requests
        PROVE  Stage(r)' /\ Download(r)'
    BY <1>1, <1>3, <1>5 DEF Stage, Download, FromMemory, Using
  <1>6. TornInv'
    BY <1>1 DEF TornInv, HttpTypes
  <1> QED
    BY <1>4, <1>5, <1>6

LEMMA NoHttpStep ==
  ASSUME HttpInv, UNCHANGED vars
  PROVE  HttpInv'
  <1> USE DEF HttpInv
  <1>1. HttpTypes'
    BY DEF vars, HttpTypes
  <1>2. ASSUME NEW r \in Requests
        PROVE  Stage(r)' /\ Download(r)' /\ (Checking(r) => Checking(r)')
    BY DEF vars, Stage, Download, Prefix, FromMemory, Checking
  <1>3. TornInv'
    BY <1>2 DEF vars, TornInv
  <1> QED
    BY <1>1, <1>2, <1>3

LEMMA NextHttp == HttpInv /\ [Next]_vars => HttpInv'
  <1> SUFFICES ASSUME HttpInv, [Next]_vars PROVE HttpInv'
    OBVIOUS
  <1>1. ASSUME NEW r \in Requests, Thread(r)
        PROVE  HttpInv'
    BY <1>1, HeaderStep, EndsStep, ComparesSizeStep, WritesStep, OpensStep, ReadsPieceStep,
       ComparesPieceStep, StreamsStep, AnswersStep, DiesStep
    DEF Thread
  <1>2. ASSUME NEW r \in Requests, Accepts(r) \/ Client(r)
        PROVE  HttpInv'
    BY <1>2, AcceptsStep, ClientStep
  <1> QED
    BY <1>1, <1>2, EditsStep, NoHttpStep DEF Next
-----------------------------------------------------------------------------
LEMMA HttpInvWhole == HttpInv => WholeDownload
  <1> SUFFICES ASSUME HttpInv, NEW r \in Requests,
                      at[r] = "close", kind[r] = "file", reply[r] = "200", ~touched[r]
               PROVE  got[r] = disk /\ length[r] = Len(disk)
    BY DEF WholeDownload
  <1>1. length[r] = Len(disk) /\ Prefix(r) /\ Len(got[r]) = Len(disk)
    BY DEF HttpInv, Download
  <1>2. got[r] \in Seq(Read) /\ disk \in Seq(Piece)
    BY DEF HttpInv, HttpTypes
  <1>3. disk \in Seq(Read)
    BY <1>2, SeqMonotonic DEF Read
  <1> QED
    BY <1>1, <1>2, <1>3, SeqEqual DEF Prefix

LEMMA HttpInvTorn == HttpInv => TornIsReported
  BY DEF HttpInv, TornInv, TornIsReported, Checking

\* A download that nobody disturbed delivers the file and as much of it as the
\* header said, in all four servers: http_upload and http_cont that fread it into
\* memory, np20 that counts a buffer at a time, multithread_http_server that reads
\* to the end; for any number of connections, and files and buffers of any size.
THEOREM WholeDownloadTheorem == FairSpec => []WholeDownload
  BY InitHttp, NextHttp, HttpInvWhole, PTL DEF FairSpec

\* Any number of http_upload's threads may write one name at once; when all have
\* done and the file is nobody's, the answer to at least one of them, the one that
\* wrote last, is that the integrity check failed (http_upload.c:333).
THEOREM TornTheorem == FairSpec => []TornIsReported
  BY InitHttp, NextHttp, HttpInvTorn, PTL DEF FairSpec
=============================================================================
