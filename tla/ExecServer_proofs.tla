------------------------- MODULE ExecServer_proofs -------------------------
(***************************************************************************)
(* Theorems about the command server, for every number of clients,         *)
(* descriptors and slots: its registry is as exact as the chat room's,     *)
(* whose lemmas these proofs use, and no entry of its log is torn.         *)
(***************************************************************************)
EXTENDS ExecServer, ChatRoom_proofs

ExecTypes ==
  /\ process \in {"running", "exited", "killed"}
  /\ at \in [Clients -> ExecSteps \cup {"none", "close", "done"}]
  /\ taken \in [Clients -> Nat]
  /\ command \in [Clients -> Nat]
  /\ \A c \in Clients : command[c] <= taken[c]
  /\ inherited \in [Clients -> SUBSET Clients]
  /\ file_mutex \in Clients \cup {None, Destroyed}

Parts == {"head", "tail"}

\* Until the mutex is destroyed, the thread that has it is the one that writes,
\* and the log ends with the head it wrote, or with a tail.
LogInv ==
  /\ log \in Seq(Clients \X Nat \X Parts)
  /\ LogWhole
  /\ file_mutex # Destroyed =>
       /\ \A c \in Clients : at[c] \in Parts <=> file_mutex = c
       /\ \A c \in Clients :
            at[c] = "tail" => log # <<>> /\ log[Len(log)] = Entry(c, "head")
       /\ (\A c \in Clients : at[c] # "tail") /\ log # <<>> =>
            log[Len(log)][3] = "tail"

ExecInv == RegistryInv /\ ExecTypes /\ LogInv
-----------------------------------------------------------------------------
(***************************************************************************)
(* The registry and the types.                                             *)
(***************************************************************************)
\* What a thread does between recv and remove_client.
Works(c) ==
  \/ Welcomes(c) \/ TakesWord(c) \/ SaysGoodbye(c) \/ Disconnected(c)
  \/ Runs(c) \/ RunFails(c) \/ Finishes(c) \/ Answers(c)
  \/ LocksFile(c) \/ OpenFails(c) \/ WritesHead(c) \/ WritesTail(c)

LEMMA SendsOwnKeeps ==
  ASSUME RegistryInv, NEW c \in Clients, NEW what, SendsOwn(c, what)
  PROVE  ConnKept
  <1>1. CASE UNCHANGED network
    BY <1>1 DEF network, ConnKept, RegistryInv, RegistryTypes
  <1>2. CASE \E after \in AfterSend(conn[c]) : conn' = [conn EXCEPT ![c] = after]
    BY <1>2, AfterSendType DEF ConnKept, RegistryInv, RegistryTypes, Connection
  <1> QED
    BY <1>1, <1>2 DEF SendsOwn

LEMMA WorksMoves ==
  ASSUME RegistryInv, NEW c \in Clients, Works(c)
  PROVE  /\ at[c] \in ExecSteps
         /\ \E step \in ExecSteps : at' = [at EXCEPT ![c] = step]
         /\ UNCHANGED <<main, client_fd, refers, registry, client_sock>>
  <1>1. CASE \/ Welcomes(c) \/ SaysGoodbye(c) \/ Disconnected(c) \/ Finishes(c)
             \/ Answers(c) \/ LocksFile(c) \/ OpenFails(c) \/ WritesHead(c)
             \/ WritesTail(c)
    BY <1>1 DEF Welcomes, SaysGoodbye, Disconnected, Ends, Finishes, Answers,
                LocksFile, OpenFails, WritesHead, WritesTail, Go, server, ExecSteps
  <1>2. CASE TakesWord(c) \/ Runs(c) \/ RunFails(c)
    BY <1>2 DEF TakesWord, Runs, RunFails, TakesLine, Go, server, ExecSteps
  <1> QED
    BY <1>1, <1>2 DEF Works

LEMMA WorksKeeps ==
  ASSUME RegistryInv, NEW c \in Clients, Works(c)
  PROVE  ConnKept
  <1>1. CASE Welcomes(c) \/ SaysGoodbye(c) \/ Answers(c)
    BY <1>1, SendsOwnKeeps DEF Welcomes, SaysGoodbye, Answers
  <1>2. CASE Disconnected(c)
    BY <1>2 DEF Disconnected, Ends, ConnKept, RegistryInv, RegistryTypes, Connection
  <1>3. CASE conn' = conn
    BY <1>3 DEF ConnKept, RegistryInv, RegistryTypes
  <1> QED
    BY <1>1, <1>2, <1>3
    DEF Works, TakesWord, Runs, RunFails, TakesLine, Finishes, LocksFile, OpenFails,
        WritesHead, WritesTail, network

LEMMA ExecRegistryNext ==
  ASSUME RegistryInv, ExecNext
  PROVE  RegistryInv'
  <1>1. CASE Loops \/ Admits \/ Spawns \/ Shutdown
    BY <1>1, MainRegistry DEF Loops, Admits, Spawns, Shutdown
  <1>2. CASE Interrupted \/ \E c \in Clients : ExecClient(c)
    BY <1>2, OutsideRegistry DEF Interrupted, ExecClient
  <1>3. ASSUME NEW c \in Clients, Works(c)
        PROVE  RegistryInv'
    <2>1. /\ In(c) /\ ConnKept
          /\ \E step \in ExecSteps : at' = [at EXCEPT ![c] = step]
          /\ UNCHANGED <<main, client_fd, refers, registry, client_sock>>
      BY <1>3, WorksMoves, WorksKeeps DEF In, Outside, ExecSteps
    <2>2. \A step \in ExecSteps : step \in ThreadSteps /\ step \notin Outside
      BY DEF ExecSteps, ThreadSteps, Steps, Outside
    <2> QED
      BY <2>1, <2>2, InsideStep
  <1>4. ASSUME NEW c \in Clients, LeavesRoom(c)
        PROVE  RegistryInv'
    BY <1>4, RemoveStep, CloseStep DEF LeavesRoom
  <1>5. ASSUME NEW c \in Clients, Killed(c)
        PROVE  RegistryInv'
    <2>1. UNCHANGED <<main, client_fd, refers, registry, at, client_sock, conn>>
      BY <1>5 DEF Killed, threads, network
    <2>2. ConnKept
      BY <2>1 DEF ConnKept, RegistryInv, RegistryTypes
    <2> QED
      BY <2>1, <2>2, QuietStep
  <1> QED
    BY <1>1, <1>2, <1>3, <1>4, <1>5 DEF ExecNext, ExecThread, Works

LEMMA InitExec == ExecInit => ExecInv
  <1> SUFFICES ASSUME ExecInit PROVE ExecInv
    OBVIOUS
  <1> USE DEF ExecInit
  <1>1. RegistryInv
    BY InitRegistry
  <1>2. ExecTypes
    BY DEF Init, ExecTypes
  <1>3. LogInv
    <2>1. log = <<>> /\ Len(log) = 0 /\ log \in Seq(Clients \X Nat \X Parts)
      BY EmptySeq
    <2>2. \A c \in Clients : at[c] \notin Parts /\ file_mutex # c
      BY DescriptorsAreNumbers DEF Init, Parts
    <2> QED
      BY <2>1, <2>2 DEF LogInv, LogWhole, Parts
  <1> QED
    BY <1>1, <1>2, <1>3 DEF ExecInv

LEMMA ExecMainTypes ==
  ASSUME ExecTypes,
         \/ Loops \/ Admits \/ Spawns \/ Shutdown \/ Interrupted
         \/ \E c \in Clients : ExecClient(c) \/ LeavesRoom(c) \/ Killed(c)
  PROVE  ExecTypes'
  <1> USE DEF commands, registry, threads, network, ExecTypes
  <1>1. CASE Loops \/ Admits \/ Interrupted
    BY <1>1 DEF Loops, Checks, AcceptFails, Admits, Registers, Rejects, Accepts,
                Interrupted, handle_sigint
  <1>2. CASE Spawns
    BY <1>2 DEF Spawns, CreateFails, CreatesThread, ExecSteps
  <1>3. CASE Shutdown
    BY <1>3 DEF Shutdown, ClosesAll, Exits, Destroys
  <1>4. ASSUME NEW c \in Clients, ExecClient(c) \/ Killed(c)
        PROVE  ExecTypes'
    BY <1>4 DEF ExecClient, ClientSays, ClientReads, ClientLeaves, Killed
  <1>5. ASSUME NEW c \in Clients, LeavesRoom(c)
        PROVE  ExecTypes'
    BY <1>5 DEF LeavesRoom, Removes, ClosesOwn, Go
  <1> QED
    BY <1>1, <1>2, <1>3, <1>4, <1>5

LEMMA WorksTypes ==
  ASSUME ExecInv, NEW c \in Clients, Works(c)
  PROVE  ExecTypes'
  <1> USE DEF ExecInv
  <1>1. process' = process /\ at' \in [Clients -> ExecSteps \cup {"none", "close", "done"}]
    <2>1. \E step \in ExecSteps : at' = [at EXCEPT ![c] = step]
      BY WorksMoves
    <2>2. process' = process
      BY DEF Works, Welcomes, TakesWord, TakesLine, SaysGoodbye, Disconnected, Ends,
             Runs, RunFails, Finishes, Answers, LocksFile, OpenFails, WritesHead,
             WritesTail, server
    <2> QED
      BY <2>1, <2>2 DEF ExecTypes
  <1>2. /\ taken' \in [Clients -> Nat] /\ command' \in [Clients -> Nat]
        /\ \A d \in Clients : command'[d] <= taken'[d]
    <2>1. CASE TakesLine(c)
      <3>1. PICK n \in (taken[c] + 1)..said[c] : taken' = [taken EXCEPT ![c] = n]
        BY <2>1 DEF TakesLine
      <3>2. taken[c] \in Nat /\ command' = [command EXCEPT ![c] = taken[c] + 1]
        BY <2>1 DEF TakesLine, ExecTypes
      <3>3. n \in Nat /\ taken[c] + 1 <= n
        BY <3>2
      <3> QED
        BY <3>1, <3>2, <3>3 DEF ExecTypes
    <2>2. CASE UNCHANGED <<taken, command>>
      BY <2>2 DEF ExecTypes
    <2> QED
      BY <2>1, <2>2
      DEF Works, Welcomes, TakesWord, SaysGoodbye, Disconnected, Ends, Runs, RunFails,
          Finishes, Answers, LocksFile, OpenFails, WritesHead, WritesTail, commands
  <1>3. inherited' \in [Clients -> SUBSET Clients]
    <2>1. \/ inherited' = inherited
          \/ \E some \in SUBSET Clients : inherited' = [inherited EXCEPT ![c] = some]
      <3>1. Open \in SUBSET Clients /\ {} \in SUBSET Clients
        BY DEF Open
      <3> QED
        BY <3>1
        DEF Works, Welcomes, TakesWord, SaysGoodbye, Disconnected, Runs, RunFails,
            Finishes, Answers, LocksFile, OpenFails, WritesHead, WritesTail, commands
    <2> QED
      BY <2>1 DEF ExecTypes
  <1>4. file_mutex' \in Clients \cup {None, Destroyed}
    <2>1. file_mutex' \in {file_mutex, c, None}
      BY DEF Works, Welcomes, TakesWord, TakesLine, SaysGoodbye, Disconnected, Runs,
             RunFails, Finishes, Answers, LocksFile, OpenFails, WritesHead,
             WritesTail, commands
    <2> QED
      BY <2>1 DEF ExecTypes
  <1> QED
    BY <1>1, <1>2, <1>3, <1>4 DEF ExecTypes
-----------------------------------------------------------------------------
(***************************************************************************)
(* The log.                                                                *)
(***************************************************************************)
LEMMA OtherPart ==
  ASSUME NEW c, NEW n, NEW part, NEW other
  PROVE  [<<c, n, part>> EXCEPT ![3] = other] = <<c, n, other>>
  OBVIOUS

\* A step that neither writes nor touches the mutex.
LEMMA LogQuiet ==
  ASSUME ExecInv, UNCHANGED <<log, file_mutex>>,
         \A c \in Clients : /\ at'[c] \in Parts <=> at[c] \in Parts
                            /\ at'[c] = "tail" <=> at[c] = "tail"
                            /\ at[c] = "tail" => command'[c] = command[c]
  PROVE  LogInv'
  <1> USE DEF ExecInv, LogInv
  <1>1. LogWhole'
    BY DEF LogWhole
  <1>2. ASSUME NEW c \in Clients, at'[c] = "tail", file_mutex # Destroyed
        PROVE  log # <<>> /\ log[Len(log)] = Entry(c, "head")'
    BY <1>2 DEF Entry
  <1> QED
    BY <1>1, <1>2

\* The mutex is taken.
LEMMA LogLocks ==
  ASSUME ExecInv, NEW c \in Clients, LocksFile(c)
  PROVE  LogInv'
  <1> USE DEF ExecInv, LogInv
  <1>1. /\ at[c] = "log" /\ at'[c] = "head" /\ UNCHANGED <<log, command>>
        /\ \A d \in Clients \ {c} : at'[d] = at[d]
    BY DEF LocksFile, Go, ExecTypes
  <1>2. LogWhole'
    <2>1. file_mutex' # Destroyed => file_mutex # Destroyed
      BY DescriptorsAreNumbers DEF LocksFile
    <2> QED
      BY <1>1, <2>1 DEF LogWhole
  <1>3. CASE file_mutex = None
    <2>1. file_mutex' = c /\ \A d \in Clients : at[d] \notin Parts
      BY <1>3, DescriptorsAreNumbers DEF LocksFile
    <2> QED
      BY <1>1, <1>2, <1>3, <2>1, DescriptorsAreNumbers DEF Parts
  <1>4. CASE file_mutex = Destroyed
    BY <1>1, <1>2, <1>4, DescriptorsAreNumbers DEF LocksFile
  <1> QED
    BY <1>3, <1>4 DEF LocksFile

\* Half an entry is written.
LEMMA LogHead ==
  ASSUME ExecInv, NEW c \in Clients, WritesHead(c)
  PROVE  LogInv'
  <1> USE DEF ExecInv, LogInv
  <1> DEFINE entry == Entry(c, "head")
  <1>1. /\ at[c] = "head" /\ at'[c] = "tail"
        /\ \A d \in Clients \ {c} : at'[d] = at[d]
        /\ log' = Append(log, entry) /\ UNCHANGED <<file_mutex, command>>
    BY DEF WritesHead, Go, ExecTypes
  <1>2. entry \in Clients \X Nat \X Parts /\ entry[3] = "head"
    BY DEF Entry, ExecTypes, Parts
  <1> HIDE DEF entry
  <1>3. /\ log' \in Seq(Clients \X Nat \X Parts)
        /\ Len(log') = Len(log) + 1 /\ log'[Len(log) + 1] = entry
        /\ \A i \in 1..Len(log) : log'[i] = log[i]
    BY <1>1, <1>2, AppendProperties
  <1>4. Len(log) \in Nat /\ (log = <<>> <=> Len(log) = 0)
    BY LenProperties, EmptySeq
  <1>5. ASSUME file_mutex # Destroyed
        PROVE  /\ \A d \in Clients \ {c} : at[d] \notin Parts
               /\ log # <<>> => log[Len(log)][3] = "tail"
    BY <1>1, <1>5 DEF Parts
  <1>6. LogWhole'
    <2> SUFFICES ASSUME file_mutex # Destroyed, NEW i \in 1..Len(log')
                 PROVE  /\ log'[i][3] = "tail" =>
                             i > 1 /\ log'[i - 1] = [log'[i] EXCEPT ![3] = "head"]
                        /\ log'[i][3] = "head" /\ i < Len(log') =>
                             log'[i + 1] = [log'[i] EXCEPT ![3] = "tail"]
      BY <1>1 DEF LogWhole
    <2>1. CASE i = Len(log) + 1
      BY <1>2, <1>3, <1>4, <2>1
    <2>2. CASE i \in 1..Len(log)
      <3>0. /\ i > 1 => i - 1 \in 1..Len(log)
            /\ i < Len(log) => i + 1 \in 1..Len(log)
        BY SMTT(20), <1>4, <2>2
      <3>1. log'[i] = log[i] /\ (i > 1 => log'[i - 1] = log[i - 1])
        BY <1>3, <2>2, <3>0
      <3>2. log[i][3] = "head" => i < Len(log)
        BY <1>4, <1>5, <2>2
      <3>3. i < Len(log) => log'[i + 1] = log[i + 1]
        BY <1>3, <3>0
      <3> QED
        BY <2>2, <3>1, <3>2, <3>3 DEF LogWhole
    <2> QED
      BY <1>3, <1>4, <2>1, <2>2
  <1>7. log' # <<>> /\ log'[Len(log')] = entry
    BY <1>3, <1>4, EmptySeq
  <1>8. Entry(c, "head")' = entry
    BY <1>1 DEF Entry, entry
  <1>9. ASSUME file_mutex # Destroyed
        PROVE  \A d \in Clients : at'[d] \in Parts <=> file_mutex = d
    BY <1>1, <1>9 DEF Parts
  <1>10. ASSUME file_mutex # Destroyed, NEW d \in Clients, at'[d] = "tail"
         PROVE  d = c
    BY <1>1, <1>5, <1>10 DEF Parts
  <1> QED
    BY <1>1, <1>3, <1>6, <1>7, <1>8, <1>9, <1>10

\* The other half follows it.
LEMMA LogTail ==
  ASSUME ExecInv, NEW c \in Clients, WritesTail(c)
  PROVE  LogInv'
  <1> USE DEF ExecInv, LogInv
  <1> DEFINE entry == Entry(c, "tail")
  <1>1. /\ at[c] = "tail" /\ at'[c] = "recv"
        /\ \A d \in Clients \ {c} : at'[d] = at[d]
        /\ log' = Append(log, entry) /\ UNCHANGED command
        /\ file_mutex' = IF file_mutex = c THEN None ELSE file_mutex
    BY DEF WritesTail, Go, ExecTypes
  <1>2. /\ entry \in Clients \X Nat \X Parts /\ entry[3] = "tail"
        /\ [entry EXCEPT ![3] = "head"] = Entry(c, "head")
        /\ [Entry(c, "head") EXCEPT ![3] = "tail"] = entry
        /\ Entry(c, "head")[3] = "head"
    BY OtherPart DEF Entry, ExecTypes, Parts
  <1> HIDE DEF entry
  <1>3. /\ log' \in Seq(Clients \X Nat \X Parts)
        /\ Len(log') = Len(log) + 1 /\ log'[Len(log) + 1] = entry
        /\ \A i \in 1..Len(log) : log'[i] = log[i]
    BY <1>1, <1>2, AppendProperties
  <1>4. Len(log) \in Nat /\ (log = <<>> <=> Len(log) = 0)
    BY LenProperties, EmptySeq
  <1>5. CASE file_mutex = Destroyed
    <2>1. file_mutex' = Destroyed
      BY <1>1, <1>5, DescriptorsAreNumbers
    <2> QED
      BY <1>3, <2>1 DEF LogWhole
  <1>6. CASE file_mutex # Destroyed
    <2>1. /\ file_mutex = c /\ file_mutex' = None /\ log # <<>>
          /\ log[Len(log)] = Entry(c, "head")
          /\ \A d \in Clients \ {c} : at[d] \notin Parts
      BY <1>1, <1>6 DEF Parts
    <2>2. LogWhole'
      <3> SUFFICES ASSUME NEW i \in 1..Len(log')
                   PROVE  /\ log'[i][3] = "tail" =>
                               i > 1 /\ log'[i - 1] = [log'[i] EXCEPT ![3] = "head"]
                          /\ log'[i][3] = "head" /\ i < Len(log') =>
                               log'[i + 1] = [log'[i] EXCEPT ![3] = "tail"]
        BY DEF LogWhole
      <3>1. CASE i = Len(log) + 1
        <4>1. i > 1 /\ i - 1 = Len(log) /\ i - 1 \in 1..Len(log)
          BY <1>4, <2>1, <3>1
        <4> QED
          BY <1>2, <1>3, <2>1, <3>1, <4>1
      <3>2. CASE i = Len(log)
        <4>1. log'[i] = Entry(c, "head") /\ log'[i + 1] = entry
          BY <1>3, <1>4, <2>1, <3>2
        <4> QED
          BY <1>2, <4>1
      <3>3. CASE i \in 1..(Len(log) - 1)
        <4>1. /\ i \in 1..Len(log) /\ i + 1 \in 1..Len(log) /\ i < Len(log)
              /\ i > 1 => i - 1 \in 1..Len(log)
          BY SMTT(20), <1>4, <3>3
        <4>2. /\ log'[i] = log[i] /\ (i > 1 => log'[i - 1] = log[i - 1])
              /\ log'[i + 1] = log[i + 1]
          BY <1>3, <4>1
        <4> QED
          BY <1>6, <4>1, <4>2 DEF LogWhole
      <3> QED
        BY SMTT(20), <1>3, <1>4, <3>1, <3>2, <3>3
    <2>3. log'[Len(log')] = entry
      BY <1>3, <1>4
    <2>4. \A d \in Clients : at'[d] \notin Parts /\ file_mutex' # d
      BY <1>1, <2>1, DescriptorsAreNumbers DEF Parts
    <2> QED
      BY <1>2, <1>3, <2>2, <2>3, <2>4 DEF Parts
  <1> QED
    BY <1>5, <1>6

LEMMA LogNext ==
  ASSUME ExecInv, ExecNext
  PROVE  LogInv'
  <1> USE DEF ExecInv
  <1>1. CASE \/ Loops \/ Admits \/ Interrupted
             \/ \E c \in Clients : ExecClient(c) \/ Killed(c)
    <2>1. UNCHANGED <<at, command, log, file_mutex>>
      BY <1>1
      DEF Loops, Checks, AcceptFails, Admits, Registers, Rejects, Accepts, Interrupted,
          handle_sigint, ExecClient, ClientSays, ClientReads, ClientLeaves, Killed,
          threads, commands
    <2> QED
      BY <2>1, LogQuiet
  <1>2. CASE Spawns
    <2>1. CASE CreateFails
      BY <1>2, <2>1, LogQuiet DEF Spawns, CreateFails, threads, commands
    <2>2. ASSUME NEW c \in Clients, CreatesThread(c)
          PROVE  LogInv'
      <3>1. at[c] = "none" /\ at' = [at EXCEPT ![c] = "recv"]
        BY <2>2 DEF CreatesThread, RegistryInv, Newcomers
      <3>2. \A d \in Clients : /\ at'[d] \in Parts <=> at[d] \in Parts
                               /\ at'[d] = "tail" <=> at[d] = "tail"
        BY <3>1 DEF ExecTypes, Parts
      <3> QED
        BY <1>2, <3>2, LogQuiet DEF Spawns, commands
    <2> QED
      BY <1>2, <2>1, <2>2 DEF Spawns
  <1>3. CASE Shutdown
    <2>1. CASE (ClosesAll \/ Exits) /\ UNCHANGED commands
      BY <2>1, LogQuiet DEF ClosesAll, Exits, threads, commands
    <2>2. CASE Destroys /\ file_mutex # None
      BY <1>3, <2>2, LogQuiet DEF Shutdown, Destroys, ClosesAll, Exits, threads, commands
    <2>3. CASE Destroys /\ file_mutex = None
      <3>1. file_mutex' = Destroyed \/ UNCHANGED file_mutex
        BY <1>3, <2>3 DEF Shutdown, commands
      <3>2. UNCHANGED <<log, at, command>>
        BY <1>3, <2>3 DEF Shutdown, Destroys, threads, commands
      <3>3. CASE file_mutex' = Destroyed
        BY <3>2, <3>3 DEF LogInv, LogWhole
      <3> QED
        BY <3>1, <3>2, <3>3, LogQuiet
    <2> QED
      BY <1>3, <2>1, <2>2, <2>3 DEF Shutdown
  <1>4. ASSUME NEW c \in Clients, NEW step, step \notin Parts, at[c] \notin Parts,
               at' = [at EXCEPT ![c] = step], UNCHANGED <<log, file_mutex>>,
               \A d \in Clients \ {c} : command'[d] = command[d]
        PROVE  LogInv'
    <2>1. \A d \in Clients : /\ at'[d] \in Parts <=> at[d] \in Parts
                             /\ at'[d] = "tail" <=> at[d] = "tail"
                             /\ at[d] = "tail" => command'[d] = command[d]
      BY <1>4 DEF ExecTypes, Parts
    <2> QED
      BY <1>4, <2>1, LogQuiet
  <1>5. ASSUME NEW c \in Clients, LeavesRoom(c)
        PROVE  LogInv'
    BY <1>4, <1>5 DEF LeavesRoom, Removes, ClosesOwn, Go, Parts, commands
  <1>6. ASSUME NEW c \in Clients,
               \/ Welcomes(c) \/ SaysGoodbye(c) \/ Disconnected(c) \/ Finishes(c)
               \/ Answers(c) \/ OpenFails(c)
        PROVE  LogInv'
    BY <1>4, <1>6 DEF Welcomes, SaysGoodbye, Disconnected, Ends, Finishes, Answers,
                      OpenFails, Go, Parts, commands
  <1>7. ASSUME NEW c \in Clients, TakesWord(c) \/ Runs(c) \/ RunFails(c)
        PROVE  LogInv'
    <2>1. /\ at[c] = "recv" /\ UNCHANGED <<log, file_mutex>>
          /\ command' = [command EXCEPT ![c] = taken[c] + 1]
          /\ \E step \in {"recv", "goodbye", "run", "answer"} :
               at' = [at EXCEPT ![c] = step]
      BY <1>7 DEF TakesWord, Runs, RunFails, TakesLine, Go
    <2>2. \A d \in Clients \ {c} : command'[d] = command[d]
      BY <2>1 DEF ExecTypes
    <2> QED
      BY <1>4, <2>1, <2>2 DEF Parts
  <1> QED
    BY <1>1, <1>2, <1>3, <1>5, <1>6, <1>7, LogLocks, LogHead, LogTail
    DEF ExecNext, ExecThread

LEMMA ExecInvNext == ExecInv /\ [ExecNext]_execVars => ExecInv'
  <1>1. ASSUME ExecInv, ExecNext
        PROVE  ExecInv'
    <2>1. ExecTypes'
      BY <1>1, ExecMainTypes, WorksTypes DEF ExecInv, ExecNext, ExecThread, Works
    <2> QED
      BY <1>1, <2>1, ExecRegistryNext, LogNext DEF ExecInv
  <1>2. ASSUME ExecInv, UNCHANGED execVars
        PROVE  ExecInv'
    <2> USE DEF execVars, commands, vars, registry, threads, network, ExecInv
    <2>1. RegistryInv'
      BY <1>2 DEF RegistryInv, RegistryTypes, Newcomers, OwnDescriptor, SlotsRight,
                  Entered, CountRight, Holds, In, Serving, Used, Holding
    <2>2. ExecTypes'
      BY <1>2 DEF ExecTypes
    <2>3. LogInv'
      BY <1>2, LogQuiet
    <2> QED
      BY <2>1, <2>2, <2>3
  <1> QED
    BY <1>1, <1>2

LEMMA ExecTypesHold == ExecInv => ExecTypeOK
  <1> SUFFICES ASSUME ExecInv PROVE ExecTypeOK
    OBVIOUS
  <1> USE DEF ExecInv
  <1>1. ASSUME Serving
        PROVE  /\ client_count = Cardinality(Slots \ Holding(None))
               /\ \A c \in Clients : at[c] \in ExecSteps =>
                    /\ refers[client_sock[c]] = c
                    /\ Cardinality(Registered(c)) = 1
                    /\ Registered(c) = Holding(client_sock[c])
    BY <1>1, OneSlot DEF RegistryInv, CountRight, Used, In, Outside, ExecSteps
  <1>2. \A c \in Clients : command[c] \in 0..taken[c]
    BY DEF ExecTypes
  <1> QED
    BY <1>1, <1>2 DEF ExecTypeOK, ExecTypes, Serving

\* The command server's registry is exact too, for any number of clients, slots
\* and descriptors, and a thread never runs a line that its client did not send.
THEOREM ExecTypeTheorem == ExecFairSpec => []ExecTypeOK
  BY InitExec, ExecInvNext, ExecTypesHold, PTL DEF ExecFairSpec

\* Entries of the log are whole, for any number of threads and commands, as long
\* as file_mutex is what write_to_file takes it for.
THEOREM LogTheorem == ExecFairSpec => []LogWhole
  <1>1. ExecInv => LogWhole
    BY DEF ExecInv, LogInv
  <1> QED
    BY <1>1, InitExec, ExecInvNext, PTL DEF ExecFairSpec
=============================================================================
