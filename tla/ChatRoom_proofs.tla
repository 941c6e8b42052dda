-------------------------- MODULE ChatRoom_proofs --------------------------
(***************************************************************************)
(* Theorems about the chat room, for every number of clients, descriptors  *)
(* and slots: its registry is exact, and every broadcast is atomic.  What  *)
(* is said of the registry is said of any program with this main thread,   *)
(* whatever its client threads do between recv and remove_client.          *)
(***************************************************************************)
EXTENDS ChatRoomAtomic, FiniteSetTheorems, SequenceTheorems, TLAPS

\* The thread of c is registered; it has a descriptor.
Outside  == {"none", "close", "done"}
In(c)    == at[c] \notin Outside
Holds(c) == at[c] \notin {"none", "done"}
Serving  == main \notin {"destroy", "exit"}

\* The steps of the threads of this program, then of the command server's.
ThreadSteps ==
  Steps \cup {"run", "answer", "goodbye", "log", "head", "tail"}

\* The types the registry needs.
RegistryTypes ==
  /\ refers \in [Descriptors -> Clients \cup {None}]
  /\ clients \in [Slots -> Descriptors \cup {None}]
  /\ client_fd \in Descriptors \cup {None}
  /\ client_sock \in [Clients -> Descriptors \cup {None}]
  /\ at \in [Clients -> ThreadSteps]
  /\ conn \in [Clients -> Connection \cup {"none", "closed"}]
  /\ client_count \in 0..MAX_CLIENTS
  /\ main \in MainSteps

\* A connection nobody has accepted has neither a thread nor a descriptor; one
\* that main is about to register has no thread.
Newcomers ==
  /\ \A c \in Clients :
       conn[c] = "none" => at[c] = "none" /\ \A fd \in Descriptors : refers[fd] # c
  /\ main \in {"add", "create"} =>
       /\ client_fd # None /\ refers[client_fd] # None
       /\ at[refers[client_fd]] = "none"

\* A thread's descriptor is its client's until it closes it, or main has.
OwnDescriptor ==
  \A c \in Clients : Holds(c) =>
    client_sock[c] # None /\ (Serving => refers[client_sock[c]] = c)

\* A slot holds the descriptor of a thread that has not removed it, or the one
\* main has just added; no two slots hold one descriptor.
SlotsRight ==
  \A i \in Slots : clients[i] # None =>
    /\ Serving
    /\ refers[clients[i]] # None
    /\ \/ main = "create" /\ clients[i] = client_fd
       \/ /\ at[refers[clients[i]]] \notin Outside
          /\ clients[i] = client_sock[refers[clients[i]]]
    /\ \A j \in Slots : clients[j] = clients[i] => j = i

Entered ==
  /\ Serving => \A c \in Clients : In(c) => \E i \in Slots : clients[i] = client_sock[c]
  /\ main = "create" => \E i \in Slots : clients[i] = client_fd

Used == Slots \ Holding(None)

CountRight == Serving => client_count = Cardinality(Used)

RegistryInv ==
  /\ RegistryTypes /\ Newcomers /\ OwnDescriptor /\ SlotsRight /\ Entered
  /\ CountRight

\* Who broadcasts has the mutex, until main destroys it; then nobody is
\* registered.
MutexInv ==
  /\ clients_mutex = Destroyed => main = "exit"
  /\ clients_mutex # Destroyed =>
       \A c \in Clients : at[c] = "sending" <=> clients_mutex = c
  /\ \A c \in Clients : at[c] # "sending" => slot[c] = 1

RoomInv == TypeOK /\ RegistryInv /\ MutexInv
-----------------------------------------------------------------------------
Less == {pair \in Nat \X Nat : pair[1] < pair[2]}

LEMMA MinIsLeast ==
  ASSUME NEW S \in SUBSET Nat, S # {}
  PROVE  Min(S) \in S /\ \A n \in S : Min(S) <= n
  <1>1. OpToRel(<, Nat) = Less
    BY Zenon DEF OpToRel, Less
  <1>2. PICK m \in S : \A n \in S : ~(<<n, m>> \in Less)
    BY <1>1, WFMin, NatLessThanWellFounded
  <1>3. ASSUME NEW n \in S
        PROVE  m <= n
    <2>1. n < m => <<n, m>> \in Less
      BY SMT DEF Less
    <2> QED
      BY <1>2, <2>1
  <1> QED
    BY <1>3 DEF Min

LEMMA SlotSets ==
  ASSUME NEW fd
  PROVE  /\ Slots \in SUBSET Nat /\ Holding(fd) \in SUBSET Slots
         /\ IsFiniteSet(Slots) /\ Cardinality(Slots) = MAX_CLIENTS
         /\ MAX_CLIENTS \in Nat
  BY ChatAssumption, FS_Interval DEF Slots, Holding

LEMMA DescriptorsAreNumbers ==
  /\ Descriptors \in SUBSET Nat /\ None \notin Descriptors
  /\ None \notin Clients /\ Destroyed \notin Clients /\ None # Destroyed
  BY ChatAssumption DEF None, Destroyed

\* Where add_client and remove_client write.
LEMMA FirstHolding ==
  ASSUME NEW fd, Holding(fd) # {}
  PROVE  Min(Holding(fd)) \in Slots /\ clients[Min(Holding(fd))] = fd
  BY SlotSets, MinIsLeast DEF Holding

\* The count follows the slots.
LEMMA Occupies ==
  ASSUME RegistryTypes, CountRight, Serving, Serving',
         NEW i \in Slots, NEW fd \in Descriptors,
         clients[i] = None, clients' = [clients EXCEPT ![i] = fd],
         client_count' = client_count + 1
  PROVE  CountRight' /\ client_count' \in 0..MAX_CLIENTS
  <1>1. Used' = Used \cup {i} /\ i \notin Used
    BY DescriptorsAreNumbers DEF Used, Holding, RegistryTypes, Slots
  <1>2. IsFiniteSet(Used)
    BY SlotSets, FS_Subset DEF Used
  <1>3. Cardinality(Used \cup {i}) = Cardinality(Used) + 1
    BY <1>1, <1>2, FS_AddElement
  <1>4. Cardinality(Used \cup {i}) <= MAX_CLIENTS
    <2>1. Used \cup {i} \in SUBSET Slots
      BY DEF Used
    <2> QED
      BY <2>1, SlotSets, FS_Subset
  <1>5. client_count = Cardinality(Used) /\ client_count \in 0..MAX_CLIENTS
    BY DEF CountRight, RegistryTypes
  <1> QED
    BY <1>1, <1>3, <1>4, <1>5, SlotSets DEF CountRight

LEMMA Vacates ==
  ASSUME RegistryTypes, CountRight, Serving, Serving',
         NEW i \in Slots,
         clients[i] # None, clients' = [clients EXCEPT ![i] = None],
         client_count' = client_count - 1
  PROVE  CountRight' /\ client_count' \in 0..MAX_CLIENTS
  <1>1. Used' = Used \ {i} /\ i \in Used
    BY DEF Used, Holding, RegistryTypes, Slots
  <1>2. IsFiniteSet(Used)
    BY SlotSets, FS_Subset DEF Used
  <1>3. Cardinality(Used \ {i}) = Cardinality(Used) - 1
    BY <1>1, <1>2, FS_RemoveElement
  <1>4. Cardinality(Used \ {i}) \in Nat
    BY <1>2, FS_RemoveElement, FS_CardinalityType
  <1>5. client_count = Cardinality(Used) /\ client_count \in 0..MAX_CLIENTS
    BY DEF CountRight, RegistryTypes
  <1> QED
    BY <1>1, <1>3, <1>4, <1>5, SlotSets DEF CountRight

-----------------------------------------------------------------------------
\* No connection appears that was not there.
ConnKept ==
  /\ conn' \in [Clients -> Connection \cup {"none", "closed"}]
  /\ \A c \in Clients : conn'[c] = "none" => conn[c] = "none"

LEMMA AfterSendType ==
  ASSUME NEW state, NEW after \in AfterSend(state)
  PROVE  after \in Connection /\ state \in Connection
  BY DEF AfterSend, Connection

\* A step that leaves the registry, the descriptors and the threads alone.
LEMMA QuietStep ==
  ASSUME RegistryInv, ConnKept,
         UNCHANGED <<client_fd, refers, registry, at, client_sock>>,
         \/ main' = main
         \/ main' \in {"check", "accept", "closing"} /\ main \notin {"create", "destroy", "exit"}
  PROVE  RegistryInv'
  <1> USE DEF RegistryInv, registry
  <1>1. main' \in MainSteps /\ Serving' = Serving /\ Used' = Used
    BY DEF RegistryTypes, MainSteps, Serving, Used, Holding
  <1>2. RegistryTypes' /\ CountRight'
    BY <1>1 DEF RegistryTypes, ConnKept, CountRight
  <1>3. Newcomers' /\ OwnDescriptor'
    BY <1>1 DEF Newcomers, OwnDescriptor, Holds, ConnKept
  <1>4. SlotsRight' /\ Entered'
    BY <1>1 DEF SlotsRight, Entered, In, Outside
  <1> QED
    BY <1>2, <1>3, <1>4

\* A step of a registered thread that goes on to a step at which it is, too.
LEMMA InsideStep ==
  ASSUME RegistryInv, ConnKept, NEW c \in Clients, NEW step \in ThreadSteps,
         In(c), step \notin Outside,
         at' = [at EXCEPT ![c] = step],
         UNCHANGED <<main, client_fd, refers, registry, client_sock>>
  PROVE  RegistryInv'
  <1> USE DEF RegistryInv, registry
  <1>1. Serving' = Serving /\ Used' = Used
    BY DEF Serving, Used, Holding
  <1>2. /\ \A d \in Clients : In(d)' = In(d) /\ Holds(d)' = Holds(d)
        /\ \A d \in Clients : at'[d] = "none" <=> at[d] = "none"
    BY DEF In, Holds, Outside, RegistryTypes
  <1>3. RegistryTypes' /\ CountRight'
    BY <1>1 DEF RegistryTypes, ConnKept, CountRight
  <1>4. Newcomers' /\ OwnDescriptor'
    BY <1>1, <1>2, DescriptorsAreNumbers
    DEF Newcomers, OwnDescriptor, ConnKept, RegistryTypes
  <1>5. SlotsRight'
    <2> SUFFICES ASSUME NEW i \in Slots, clients[i] # None
                 PROVE  /\ Serving /\ refers[clients[i]] # None
                        /\ \/ main = "create" /\ clients[i] = client_fd
                           \/ /\ at'[refers[clients[i]]] \notin Outside
                              /\ clients[i] = client_sock[refers[clients[i]]]
                        /\ \A j \in Slots : clients[j] = clients[i] => j = i
      BY <1>1 DEF SlotsRight
    <2>1. refers[clients[i]] \in Clients
      BY DEF SlotsRight, RegistryTypes
    <2> QED
      BY <1>2, <2>1 DEF SlotsRight, In
  <1>6. Entered'
    BY <1>1, <1>2 DEF Entered
  <1> QED
    BY <1>3, <1>4, <1>5, <1>6

LEMMA AcceptStep ==
  ASSUME RegistryInv, NEW c \in Clients, Accepts(c)
  PROVE  RegistryInv'
  <1> USE DEF RegistryInv, registry, threads
  <1> DEFINE free == {n \in Descriptors : refers[n] = None}
             fd == Min(free)
  <1>1. fd \in Descriptors /\ refers[fd] = None
    <2>1. free \in SUBSET Nat /\ free # {}
      BY DescriptorsAreNumbers DEF Accepts
    <2> HIDE DEF free
    <2>2. fd \in free
      BY <2>1, MinIsLeast
    <2> QED
      BY <2>2 DEF free
  <1>2. /\ client_fd' = fd /\ refers' = [refers EXCEPT ![fd] = c]
        /\ conn' = [conn EXCEPT ![c] = "open"] /\ main' = "add" /\ main = "accept"
        /\ conn[c] = "none"
        /\ UNCHANGED <<registry, at, client_sock>>
    BY DEF Accepts, ToMain
  <1> HIDE DEF fd, free
  <1>3. Serving' /\ Serving /\ Used' = Used
    BY <1>2 DEF Serving, Used, Holding
  <1>4. RegistryTypes' /\ CountRight'
    BY <1>1, <1>2, <1>3 DEF RegistryTypes, CountRight, MainSteps, Connection
  <1>5. fd # None /\ c # None
    BY <1>1, DescriptorsAreNumbers
  <1>6. Newcomers'
    BY <1>1, <1>2, <1>5 DEF Newcomers, RegistryTypes
  <1>7. OwnDescriptor'
    BY <1>1, <1>2, <1>3, DescriptorsAreNumbers DEF OwnDescriptor, Holds, RegistryTypes
  <1>8. SlotsRight'
    <2> SUFFICES ASSUME NEW i \in Slots, clients[i] # None
                 PROVE  /\ refers'[clients[i]] # None
                        /\ at'[refers'[clients[i]]] \notin Outside
                        /\ clients[i] = client_sock[refers'[clients[i]]]
                        /\ \A j \in Slots : clients[j] = clients[i] => j = i
      BY <1>2, <1>3 DEF SlotsRight, In, Outside
    <2>1. clients[i] \in Descriptors /\ clients[i] # fd
      BY <1>1 DEF SlotsRight, RegistryTypes
    <2>2. refers'[clients[i]] = refers[clients[i]]
      BY <1>2, <2>1 DEF RegistryTypes
    <2> QED
      BY <1>2, <2>2 DEF SlotsRight
  <1>9. Entered'
    BY <1>2, <1>3 DEF Entered, In, Outside, Outside
  <1> QED
    BY <1>4, <1>6, <1>7, <1>8, <1>9

LEMMA RegisterStep ==
  ASSUME RegistryInv, Registers
  PROVE  RegistryInv'
  <1> USE DEF RegistryInv, registry, threads, network
  <1> DEFINE i == Min(Holding(None))
  <1>1. i \in Slots /\ clients[i] = None
    BY FirstHolding DEF Registers, Full
  <1>2. /\ clients' = [clients EXCEPT ![i] = client_fd]
        /\ client_count' = client_count + 1
        /\ main = "add" /\ main' = "create"
        /\ UNCHANGED <<client_fd, refers, at, client_sock, conn>>
    BY DEF Registers, add_client, ToMain
  <1> HIDE DEF i
  <1>3. Serving' /\ Serving
    BY <1>2 DEF Serving
  <1>4. client_fd \in Descriptors /\ refers[client_fd] # None
    BY <1>2 DEF RegistryTypes, Newcomers
  <1>5. RegistryTypes' /\ CountRight'
    BY <1>1, <1>2, <1>3, <1>4, Occupies DEF RegistryTypes, MainSteps
  <1>6. Newcomers' /\ OwnDescriptor'
    BY <1>2, <1>3 DEF Newcomers, OwnDescriptor, Holds
  <1>7. \A j \in Slots : clients[j] # client_fd
    BY <1>2, <1>4 DEF SlotsRight, Newcomers, Outside
  <1>8. SlotsRight'
    <2>1. /\ clients'[i] = client_fd
          /\ \A j \in Slots \ {i} : clients'[j] = clients[j]
      BY <1>1, <1>2 DEF RegistryTypes
    <2> QED
      BY <1>1, <1>2, <1>3, <1>4, <1>7, <2>1 DEF SlotsRight, In, Outside
  <1>9. Entered'
    <2>1. \A j \in Slots : clients[j] # None => clients'[j] = clients[j]
      BY <1>1, <1>2 DEF RegistryTypes
    <2>2. clients'[i] = client_fd
      BY <1>1, <1>2 DEF RegistryTypes
    <2> QED
      BY <1>1, <1>2, <1>3, <2>1, <2>2 DEF Entered, In, Outside, Holds, OwnDescriptor
  <1> QED
    BY <1>5, <1>6, <1>8, <1>9
\* close forgets one descriptor.
LEMMA CloseEffect ==
  ASSUME RegistryTypes, NEW fd \in Descriptors, Closes(fd)
  PROVE  /\ ConnKept
         /\ refers' \in [Descriptors -> Clients \cup {None}]
         /\ refers'[fd] = None
         /\ \A n \in Descriptors \ {fd} : refers'[n] = refers[n]
  BY DEF RegistryTypes, ConnKept, Closes

\* remove_client finds the one slot that holds the descriptor.
LEMMA RemoveEffect ==
  ASSUME RegistryInv, NEW fd \in Descriptors, Holding(fd) # {}, remove_client(fd)
  PROVE  \E i \in Slots :
           /\ clients[i] = fd /\ Holding(fd) = {i} /\ Serving
           /\ clients' = [clients EXCEPT ![i] = None]
           /\ client_count' = client_count - 1
  <1> DEFINE i == Min(Holding(fd))
  <1>1. i \in Slots /\ clients[i] = fd
    BY FirstHolding
  <1>2. fd # None
    BY DescriptorsAreNumbers
  <1>3. Holding(fd) = {i} /\ Serving
    BY <1>1, <1>2 DEF RegistryInv, SlotsRight, Holding
  <1>4. /\ clients' = [clients EXCEPT ![i] = None]
        /\ client_count' = client_count - 1
    BY DEF remove_client
  <1> QED
    BY <1>1, <1>3, <1>4

\* A connection that nobody is registered for is closed.
LEMMA CloseUnregistered ==
  ASSUME RegistryInv, NEW fd \in Descriptors, Closes(fd),
         Holding(fd) = {}, UNCHANGED registry,
         main' \in MainSteps, Serving' = Serving,
         client_fd' \in Descriptors \cup {None},
         \/ main # "create" /\ main' \notin {"add", "create"}
         \/ main' = main /\ client_fd' = client_fd
            /\ (main \in {"add", "create"} => client_fd # fd),
         at' \in [Clients -> ThreadSteps],
         client_sock' \in [Clients -> Descriptors \cup {None}],
         \A c \in Clients :
           \/ at'[c] = at[c] /\ client_sock'[c] = client_sock[c]
              /\ (Holds(c) /\ Serving => client_sock[c] # fd)
           \/ at[c] = "close" /\ at'[c] = "done"
  PROVE  RegistryInv'
  <1> USE DEF RegistryInv, registry
  <1>0. /\ ConnKept
        /\ refers' \in [Descriptors -> Clients \cup {None}]
        /\ refers'[fd] = None
        /\ \A n \in Descriptors \ {fd} : refers'[n] = refers[n]
    BY CloseEffect
  <1>1. ConnKept /\ RegistryTypes'
    BY <1>0 DEF RegistryTypes, ConnKept
  <1>2. Used' = Used
    BY DEF Used, Holding
  <1>3. /\ \A c \in Clients : In(c)' = In(c) /\ (In(c) => client_sock'[c] = client_sock[c])
        /\ \A c \in Clients : Holds(c)' => Holds(c) /\ client_sock'[c] = client_sock[c]
    BY DEF In, Holds, Outside
  <1>4. Newcomers'
    <2>1. \A c \in Clients : at[c] = "none" => at'[c] = "none"
      OBVIOUS
    <2>2. CASE main' \in {"add", "create"}
      <3>1. /\ client_fd' = client_fd /\ client_fd \in Descriptors \ {fd}
            /\ refers[client_fd] \in Clients /\ at[refers[client_fd]] = "none"
        BY <2>2 DEF Newcomers, RegistryTypes
      <3>2. refers'[client_fd] = refers[client_fd]
        BY <1>0, <3>1
      <3> QED
        BY <1>0, <2>1, <3>1, <3>2, DescriptorsAreNumbers DEF Newcomers, ConnKept
    <2>3. CASE main' \notin {"add", "create"}
      BY <1>0, <2>1, <2>3, DescriptorsAreNumbers DEF Newcomers, ConnKept
    <2> QED
      BY <2>2, <2>3
  <1>5. OwnDescriptor'
    <2> SUFFICES ASSUME NEW c \in Clients, Holds(c)'
                 PROVE  client_sock'[c] # None /\ (Serving' => refers'[client_sock'[c]] = c)
      BY DEF OwnDescriptor
    <2>1. Holds(c) /\ client_sock'[c] = client_sock[c]
          /\ (Serving => client_sock[c] # fd)
      BY DEF Holds
    <2>2. client_sock[c] \in Descriptors /\ (Serving => refers[client_sock[c]] = c)
      BY <2>1 DEF OwnDescriptor, RegistryTypes
    <2> QED
      BY <2>1, <2>2, <1>0, DescriptorsAreNumbers
  <1>6. SlotsRight'
    <2> SUFFICES ASSUME NEW i \in Slots, clients[i] # None
                 PROVE  /\ Serving' /\ refers'[clients[i]] # None
                        /\ \/ main' = "create" /\ clients[i] = client_fd'
                           \/ /\ at'[refers'[clients[i]]] \notin Outside
                              /\ clients[i] = client_sock'[refers'[clients[i]]]
                        /\ \A j \in Slots : clients[j] = clients[i] => j = i
      BY DEF SlotsRight
    <2>1. clients[i] \in Descriptors /\ clients[i] # fd
      BY DEF Holding, RegistryTypes
    <2>2. refers'[clients[i]] = refers[clients[i]] /\ refers[clients[i]] \in Clients
      BY <2>1, <1>0 DEF SlotsRight, RegistryTypes
    <2> QED
      BY <1>3, <2>2 DEF SlotsRight, In
  <1>7. Entered' /\ CountRight'
    BY <1>2, <1>3 DEF Entered, CountRight
  <1> QED
    BY <1>1, <1>4, <1>5, <1>6, <1>7

\* The descriptor main has accepted and not entered is nobody else's.
LEMMA NewcomerAlone ==
  ASSUME RegistryInv, main \in {"add", "create"}
  PROVE  /\ client_fd \in Descriptors /\ Serving
         /\ \A c \in Clients : Holds(c) => client_sock[c] # client_fd
         /\ main = "add" => Holding(client_fd) = {}
  <1> USE DEF RegistryInv
  <1>1. client_fd \in Descriptors /\ Serving
    BY DEF RegistryTypes, Newcomers, Serving
  <1>2. \A c \in Clients : Holds(c) => client_sock[c] # client_fd
    BY <1>1 DEF Holds, OwnDescriptor, Newcomers
  <1>3. main = "add" => Holding(client_fd) = {}
    BY <1>1 DEF SlotsRight, Newcomers, In, Outside, Holding
  <1> QED
    BY <1>1, <1>2, <1>3

LEMMA RejectStep ==
  ASSUME RegistryInv, Rejects
  PROVE  RegistryInv'
  <1>1. /\ main = "add" /\ main' = "check" /\ Closes(client_fd) /\ client_fd' = None
        /\ UNCHANGED <<registry, at, client_sock>>
    BY DEF Rejects, ToMain, threads
  <1>2. Serving' = Serving /\ main' \in MainSteps
    BY <1>1 DEF Serving, MainSteps
  <1> QED
    BY <1>1, <1>2, NewcomerAlone, CloseUnregistered DEF RegistryInv, RegistryTypes

LEMMA CreateStep ==
  ASSUME RegistryInv, NEW c \in Clients, CreatesThread(c)
  PROVE  RegistryInv'
  <1> USE DEF RegistryInv, registry
  <1>1. /\ main = "create" /\ main' = "check" /\ refers[client_fd] = c
        /\ at' = [at EXCEPT ![c] = "recv"]
        /\ client_sock' = [client_sock EXCEPT ![c] = client_fd]
        /\ client_fd' = None
        /\ UNCHANGED <<refers, registry, conn>>
    BY DEF CreatesThread, ToMain, network
  <1>2. Serving' /\ Serving /\ Used' = Used /\ main' \in MainSteps
    BY <1>1 DEF Serving, Used, Holding, MainSteps
  <1>3. client_fd \in Descriptors /\ at[c] = "none"
    BY <1>1 DEF RegistryTypes, Newcomers
  <1>4. RegistryTypes' /\ CountRight'
    <2>1. client_sock' \in [Clients -> Descriptors \cup {None}]
      BY <1>1, <1>3 DEF RegistryTypes
    <2>2. at' \in [Clients -> ThreadSteps]
      BY <1>1 DEF RegistryTypes, ThreadSteps, Steps
    <2> QED
      BY <1>1, <1>2, <2>1, <2>2 DEF RegistryTypes, CountRight
  <1>5. /\ at'[c] = "recv" /\ client_sock'[c] = client_fd
        /\ \A d \in Clients \ {c} : at'[d] = at[d] /\ client_sock'[d] = client_sock[d]
    BY <1>1 DEF RegistryTypes
  <1>6. Newcomers'
    BY <1>1, <1>3, <1>5 DEF Newcomers
  <1>7. OwnDescriptor'
    BY <1>1, <1>2, <1>3, <1>5, DescriptorsAreNumbers DEF OwnDescriptor, Holds
  <1>8. SlotsRight'
    <2> SUFFICES ASSUME NEW i \in Slots, clients[i] # None
                 PROVE  /\ refers[clients[i]] # None
                        /\ at'[refers[clients[i]]] \notin Outside
                        /\ clients[i] = client_sock'[refers[clients[i]]]
                        /\ \A j \in Slots : clients[j] = clients[i] => j = i
      BY <1>1, <1>2 DEF SlotsRight
    <2>1. refers[clients[i]] \in Clients
      BY DEF SlotsRight, RegistryTypes
    <2>2. CASE clients[i] = client_fd
      BY <1>1, <1>5, <2>1, <2>2 DEF SlotsRight, In, Outside
    <2>3. CASE clients[i] # client_fd
      BY <1>3, <1>5, <2>1, <2>3 DEF SlotsRight, In, Outside
    <2> QED
      BY <2>2, <2>3
  <1>9. Entered'
    BY <1>1, <1>2, <1>5 DEF Entered, In, Outside, Outside
  <1> QED
    BY <1>4, <1>6, <1>7, <1>8, <1>9
\* The slot of a thread, or of main's newcomer, is freed.  What is left to close
\* is a descriptor in no slot.
LEMMA FreeSlot ==
  ASSUME RegistryInv, NEW i \in Slots, clients[i] # None,
         clients' = [clients EXCEPT ![i] = None],
         client_count' = client_count - 1,
         UNCHANGED <<client_fd, refers, client_sock, conn>>,
         at' \in [Clients -> ThreadSteps],
         Serving, main' = main,
         \A c \in Clients :
           \/ at'[c] = at[c] /\ (In(c) => client_sock[c] # clients[i])
           \/ In(c) /\ client_sock[c] = clients[i] /\ at'[c] = "close",
         main = "create" => clients[i] # client_fd
  PROVE  RegistryInv'
  <1> USE DEF RegistryInv
  <1>1. Serving' = Serving
    BY DEF Serving
  <1>2. /\ clients'[i] = None
        /\ \A j \in Slots \ {i} : clients'[j] = clients[j]
    BY DEF RegistryTypes
  <1>3. RegistryTypes' /\ CountRight'
    BY <1>1, Vacates DEF RegistryTypes
  <1>4. Newcomers' /\ OwnDescriptor'
    <2>1. \A c \in Clients : (at[c] = "none" => at'[c] = "none") /\ (Holds(c)' => Holds(c))
      BY DEF In, Holds, Outside
    <2> QED
      BY <1>1, <2>1 DEF Newcomers, OwnDescriptor, RegistryTypes
  <1>5. SlotsRight'
    <2> SUFFICES ASSUME NEW j \in Slots, clients'[j] # None
                 PROVE  /\ refers[clients'[j]] # None
                        /\ \/ main = "create" /\ clients'[j] = client_fd
                           \/ /\ at'[refers[clients'[j]]] \notin Outside
                              /\ clients'[j] = client_sock[refers[clients'[j]]]
                        /\ \A k \in Slots : clients'[k] = clients'[j] => k = j
      BY <1>1 DEF SlotsRight
    <2>1. j # i /\ clients'[j] = clients[j]
      BY <1>2
    <2>2. clients[j] # clients[i] /\ refers[clients[j]] \in Clients
      BY <2>1 DEF SlotsRight, RegistryTypes
    <2>3. \A k \in Slots : clients'[k] = clients[j] => k = j
      BY <1>2, <2>1 DEF SlotsRight
    <2> QED
      BY <2>1, <2>2, <2>3 DEF SlotsRight, In
  <1>6. Entered'
    <2>1. ASSUME NEW c \in Clients, at'[c] \notin Outside
          PROVE  \E j \in Slots : clients'[j] = client_sock[c]
      <3>1. In(c) /\ client_sock[c] # clients[i]
        BY <2>1 DEF In, Outside
      <3> QED
        BY <1>2, <3>1 DEF Entered
    <2>2. main = "create" => \E j \in Slots : clients'[j] = client_fd
      BY <1>2 DEF Entered
    <2> QED
      BY <1>1, <2>1, <2>2 DEF Entered, In
  <1> QED
    BY <1>3, <1>4, <1>5, <1>6

LEMMA RemoveStep ==
  ASSUME RegistryInv, NEW c \in Clients, Removes(c)
  PROVE  RegistryInv'
  <1> USE DEF RegistryInv, registry, network
  <1> DEFINE fd == client_sock[c]
  <1>1. /\ at[c] = "remove" /\ at' = [at EXCEPT ![c] = "close"] /\ remove_client(fd)
        /\ UNCHANGED <<main, client_fd, refers, client_sock, conn>>
    BY DEF Removes, Go
  <1>2. fd \in Descriptors /\ In(c) /\ (Serving => refers[fd] = c)
    BY <1>1 DEF OwnDescriptor, Holds, In, Outside, RegistryTypes
  <1>3. at' \in [Clients -> ThreadSteps]
    BY <1>1 DEF RegistryTypes, ThreadSteps, Steps
  <1>4. CASE Holding(fd) = {}
    <2>1. UNCHANGED registry
      BY <1>1, <1>4 DEF remove_client
    <2>2. ~Serving /\ \A i \in Slots : clients[i] = None
      BY <1>2, <1>4 DEF Entered, Holding, SlotsRight
    <2>3. main' = main /\ ~Serving' /\ main # "create" /\ main # "add"
      BY <1>1, <2>2 DEF Serving
    <2>4. RegistryTypes' /\ SlotsRight' /\ Entered' /\ CountRight'
      BY <1>1, <1>3, <2>1, <2>2, <2>3
      DEF RegistryTypes, SlotsRight, Entered, CountRight
    <2>5. /\ at'[c] = "close"
          /\ \A d \in Clients \ {c} : at'[d] = at[d]
      BY <1>1 DEF RegistryTypes
    <2>6. Newcomers' /\ OwnDescriptor'
      BY <1>1, <2>3, <2>5 DEF Newcomers, OwnDescriptor, Holds
    <2> QED
      BY <2>4, <2>6
  <1>5. CASE Holding(fd) # {}
    <2>1. PICK i \in Slots :
            /\ clients[i] = fd /\ Serving
            /\ clients' = [clients EXCEPT ![i] = None]
            /\ client_count' = client_count - 1
      BY <1>1, <1>2, <1>5, RemoveEffect
    <2>2. \A d \in Clients \ {c} : at'[d] = at[d] /\ (In(d) => client_sock[d] # fd)
      BY <1>1, <1>2, <2>1 DEF RegistryTypes, OwnDescriptor, In, Holds, Outside
    <2>3. at'[c] = "close"
      BY <1>1 DEF RegistryTypes
    <2>4. main = "create" => fd # client_fd
      BY <1>2, NewcomerAlone DEF In, Holds, Outside
    <2>5. fd # None
      BY <1>2, DescriptorsAreNumbers
    <2> HIDE DEF fd
    <2>6. \A d \in Clients :
           \/ at'[d] = at[d] /\ (In(d) => client_sock[d] # clients[i])
           \/ In(d) /\ client_sock[d] = clients[i] /\ at'[d] = "close"
      BY <1>2, <2>1, <2>2, <2>3 DEF fd
    <2> QED
      BY <1>1, <1>3, <2>1, <2>4, <2>5, <2>6, FreeSlot
  <1> QED
    BY <1>4, <1>5

\* No slot holds the descriptor of a thread that is about to close it.
LEMMA CloseStep ==
  ASSUME RegistryInv, NEW c \in Clients, ClosesOwn(c)
  PROVE  RegistryInv'
  <1> USE DEF RegistryInv
  <1> DEFINE fd == client_sock[c]
  <1>1. /\ at[c] = "close" /\ at' = [at EXCEPT ![c] = "done"] /\ Closes(fd)
        /\ client_sock' = [client_sock EXCEPT ![c] = None]
        /\ UNCHANGED <<main, client_fd, registry>>
    BY DEF ClosesOwn, Go
  <1>2. fd \in Descriptors /\ Holds(c) /\ (Serving => refers[fd] = c)
    BY <1>1 DEF OwnDescriptor, Holds, RegistryTypes
  <1> HIDE DEF fd
  <1>3. Holding(fd) = {}
    <2> SUFFICES ASSUME NEW i \in Slots, clients[i] = fd
                 PROVE  FALSE
      BY DEF Holding
    <2>1. Serving /\ refers[fd] = c
      BY <1>2, DescriptorsAreNumbers DEF SlotsRight
    <2>2. main = "create" /\ fd = client_fd
      BY <1>1, <1>2, <2>1, DescriptorsAreNumbers DEF SlotsRight, Outside
    <2> QED
      BY <1>2, <2>2, NewcomerAlone DEF fd
  <1>4. /\ at' \in [Clients -> ThreadSteps] /\ at'[c] = "done"
        /\ client_sock' \in [Clients -> Descriptors \cup {None}]
        /\ \A d \in Clients \ {c} : at'[d] = at[d] /\ client_sock'[d] = client_sock[d]
    BY <1>1 DEF RegistryTypes, ThreadSteps, Steps
  <1>5. \A d \in Clients \ {c} : Holds(d) /\ Serving => client_sock[d] # fd
    BY <1>2 DEF OwnDescriptor
  <1>6. main \in {"add", "create"} => client_fd # fd
    BY <1>2, NewcomerAlone DEF fd
  <1>7. main' \in MainSteps /\ Serving' = Serving /\ client_fd' \in Descriptors \cup {None}
    BY <1>1 DEF RegistryTypes, Serving
  <1> QED
    BY <1>1, <1>2, <1>3, <1>4, <1>5, <1>6, <1>7, CloseUnregistered
\* The error paths after add_client undo it.
LEMMA CreateFailsStep ==
  ASSUME RegistryInv, CreateFails
  PROVE  RegistryInv'
  <1> USE DEF RegistryInv
  <1> DEFINE fd == client_fd
  <1>1. /\ main = "create" /\ main' = "check" /\ client_fd' = None
        /\ remove_client(fd) /\ Closes(fd)
        /\ UNCHANGED <<at, client_sock>>
    BY DEF CreateFails, ToMain, threads
  <1>2. /\ fd \in Descriptors /\ Serving
        /\ \A c \in Clients : Holds(c) => client_sock[c] # fd
    BY <1>1, NewcomerAlone
  <1>3. Holding(fd) # {}
    BY <1>1 DEF Entered, Holding
  <1>4. PICK i \in Slots :
          /\ clients[i] = fd /\ Holding(fd) = {i}
          /\ clients' = [clients EXCEPT ![i] = None]
          /\ client_count' = client_count - 1
    BY <1>1, <1>2, <1>3, RemoveEffect
  <1>5. /\ ConnKept
        /\ refers' \in [Descriptors -> Clients \cup {None}]
        /\ refers'[fd] = None
        /\ \A n \in Descriptors \ {fd} : refers'[n] = refers[n]
    BY <1>1, <1>2, CloseEffect
  <1> HIDE DEF fd
  <1>6. Serving' /\ main' \in MainSteps /\ fd # None
    BY <1>1, <1>2, DescriptorsAreNumbers DEF Serving, MainSteps
  <1>7. RegistryTypes' /\ CountRight'
    BY <1>1, <1>2, <1>4, <1>5, <1>6, Vacates DEF RegistryTypes, ConnKept
  <1>8. Newcomers'
    BY <1>1, <1>5, DescriptorsAreNumbers DEF Newcomers, ConnKept
  <1>9. OwnDescriptor'
    <2> SUFFICES ASSUME NEW c \in Clients, Holds(c)
                 PROVE  client_sock[c] # None /\ refers'[client_sock[c]] = c
      BY <1>1 DEF OwnDescriptor, Holds
    <2>1. client_sock[c] \in Descriptors \ {fd} /\ refers[client_sock[c]] = c
      BY <1>2 DEF OwnDescriptor, RegistryTypes
    <2> QED
      BY <1>5, <2>1, DescriptorsAreNumbers
  <1>10. /\ clients'[i] = None
         /\ \A j \in Slots \ {i} : clients'[j] = clients[j] /\ clients[j] # fd
    BY <1>4 DEF RegistryTypes, Holding
  <1>11. SlotsRight'
    <2> SUFFICES ASSUME NEW j \in Slots, clients'[j] # None
                 PROVE  /\ refers'[clients'[j]] # None
                        /\ at[refers'[clients'[j]]] \notin Outside
                        /\ clients'[j] = client_sock[refers'[clients'[j]]]
                        /\ \A k \in Slots : clients'[k] = clients'[j] => k = j
      BY <1>1, <1>6 DEF SlotsRight
    <2>1. j # i /\ clients'[j] = clients[j] /\ clients[j] \in Descriptors \ {fd}
      BY <1>10 DEF RegistryTypes
    <2>2. refers'[clients[j]] = refers[clients[j]]
      BY <1>5, <2>1
    <2>3. \A k \in Slots : clients'[k] = clients[j] => k = j
      BY <1>10, <2>1 DEF SlotsRight
    <2> QED
      BY <1>1, <2>1, <2>2, <2>3 DEF SlotsRight, fd
  <1>12. Entered'
    BY <1>1, <1>2, <1>4, <1>6, <1>10 DEF Entered, In, Holds, Outside
  <1> QED
    BY <1>7, <1>8, <1>9, <1>11, <1>12

LEMMA ClosesAllStep ==
  ASSUME RegistryInv, ClosesAll
  PROVE  RegistryInv'
  <1> USE DEF RegistryInv, threads
  <1>1. /\ main = "closing" /\ main' = "destroy"
        /\ clients' = [i \in Slots |-> None]
        /\ UNCHANGED <<client_fd, client_count, at, client_sock>>
    BY DEF ClosesAll, ToMain
  <1>2. refers' = [fd \in Descriptors |-> IF Holding(fd) = {} THEN refers[fd] ELSE None]
    BY DEF ClosesAll
  <1>3. ConnKept
    BY DEF ClosesAll, ConnKept, RegistryTypes
  <1>4. ~Serving' /\ main' \in MainSteps
    BY <1>1 DEF Serving, MainSteps
  <1>5. RegistryTypes' /\ CountRight'
    BY <1>1, <1>2, <1>3, <1>4 DEF RegistryTypes, CountRight, ConnKept
  <1>6. Newcomers' /\ OwnDescriptor'
    BY <1>1, <1>2, <1>3, <1>4, DescriptorsAreNumbers
    DEF Newcomers, OwnDescriptor, Holds, ConnKept
  <1>7. SlotsRight' /\ Entered'
    BY <1>1, <1>4 DEF SlotsRight, Entered
  <1> QED
    BY <1>5, <1>6, <1>7

LEMMA EndStep ==
  ASSUME RegistryInv, Destroys \/ Exits
  PROVE  RegistryInv'
  <1> USE DEF RegistryInv, registry, threads, network
  <1>1. /\ main \in {"destroy", "exit"} /\ main' = "exit"
        /\ UNCHANGED <<client_fd, refers, clients, client_count, at, client_sock, conn>>
    BY DEF Destroys, Exits, ToMain
  <1>2. ~Serving /\ ~Serving' /\ main' \in MainSteps
    BY <1>1 DEF Serving, MainSteps
  <1>3. RegistryTypes' /\ CountRight'
    BY <1>1, <1>2 DEF RegistryTypes, CountRight
  <1>4. Newcomers' /\ OwnDescriptor'
    BY <1>1, <1>2 DEF Newcomers, OwnDescriptor, Holds
  <1>5. SlotsRight' /\ Entered'
    BY <1>1, <1>2 DEF SlotsRight, Entered
  <1> QED
    BY <1>3, <1>4, <1>5

LEMMA InitRegistry == Init => RegistryInv
  <1> SUFFICES ASSUME Init PROVE RegistryInv
    OBVIOUS
  <1> USE DEF Init
  <1>1. RegistryTypes
    BY SlotSets DEF RegistryTypes, ThreadSteps, Steps, MainSteps
  <1>2. CountRight
    <2>1. Used = {}
      BY DEF Used, Holding
    <2> QED
      BY <2>1, FS_EmptySet DEF CountRight
  <1>3. Newcomers /\ OwnDescriptor
    BY DescriptorsAreNumbers DEF Newcomers, OwnDescriptor, Holds
  <1>4. SlotsRight /\ Entered
    BY DEF SlotsRight, Entered, In, Outside
  <1> QED
    BY <1>1, <1>2, <1>3, <1>4 DEF RegistryInv

\* What main does to the registry, in this program and in the command server.
LEMMA MainRegistry ==
  ASSUME RegistryInv,
         \/ Checks \/ AcceptFails \/ Registers \/ Rejects \/ CreateFails
         \/ ClosesAll \/ Destroys \/ Exits
         \/ \E c \in Clients : Accepts(c) \/ CreatesThread(c)
  PROVE  RegistryInv'
  <1>1. CASE Checks \/ AcceptFails
    <2>1. /\ UNCHANGED <<client_fd, refers, registry, at, client_sock, conn>>
          /\ main \in {"check", "accept"} /\ main' \in {"check", "accept", "closing"}
      BY <1>1 DEF Checks, AcceptFails, ToMain, threads, network
    <2>2. ConnKept
      BY <2>1 DEF ConnKept, RegistryInv, RegistryTypes
    <2> QED
      BY <2>1, <2>2, QuietStep
  <1> QED
    BY <1>1, RegisterStep, RejectStep, CreateFailsStep, ClosesAllStep, EndStep,
       AcceptStep, CreateStep-----------------------------------------------------------------------------
(***************************************************************************)
(* The chat room's own threads.                                            *)
(***************************************************************************)
\* The steps that have nothing to do with the registry.
Outwards(c) ==
  \/ Receives(c) \/ Ends(c) \/ Locks(c) \/ Sends(c) \/ Unlocks(c)

LEMMA ToSendType ==
  ASSUME RoomInv, NEW c \in Clients, ToSend(c) # {}
  PROVE  /\ Min(ToSend(c)) \in ToSend(c) /\ \A i \in ToSend(c) : Min(ToSend(c)) <= i
         /\ Receiver(c) \in Clients
  <1>1. ToSend(c) \in SUBSET Nat
    BY SlotSets DEF ToSend, Slots
  <1>2. Min(ToSend(c)) \in ToSend(c) /\ \A i \in ToSend(c) : Min(ToSend(c)) <= i
    BY <1>1, MinIsLeast
  <1>3. clients[Min(ToSend(c))] # None /\ Min(ToSend(c)) \in Slots
    BY <1>2 DEF ToSend
  <1> QED
    BY <1>2, <1>3 DEF Receiver, RoomInv, RegistryInv, RegistryTypes, SlotsRight

LEMMA OutwardsRegistry ==
  ASSUME RoomInv, NEW c \in Clients, Outwards(c)
  PROVE  RegistryInv'
  <1> USE DEF RoomInv, RegistryInv
  <1>1. /\ In(c)
        /\ \E step \in {"recv", "lock", "sending", "remove"} : at' = [at EXCEPT ![c] = step]
        /\ UNCHANGED <<main, client_fd, refers, registry, client_sock>>
    BY DEF Outwards, Receives, Ends, Locks, Sends, Unlocks, Go, In, Outside
  <1>2. ConnKept
    <2>1. CASE Receives(c) \/ Locks(c) \/ Unlocks(c)
      BY <2>1 DEF Receives, Locks, Unlocks, network, ConnKept, RegistryTypes
    <2>2. CASE Ends(c)
      BY <2>2 DEF Ends, ConnKept, RegistryTypes, Connection
    <2>3. CASE Sends(c)
      <3>1. \E d \in Clients : \E after \in AfterSend(conn[d]) :
              conn' = [conn EXCEPT ![d] = after]
        BY <2>3 DEF Sends
      <3> QED
        BY <3>1, AfterSendType DEF ConnKept, RegistryTypes, Connection
    <2> QED
      BY <2>1, <2>2, <2>3 DEF Outwards
  <1>3. \A step \in {"recv", "lock", "sending", "remove"} :
          step \in ThreadSteps /\ step \notin Outside
    BY DEF ThreadSteps, Steps, Outside
  <1> QED
    BY <1>1, <1>2, <1>3, InsideStep

\* The types of what the registry has nothing to do with.
OtherTypes ==
  /\ process \in {"running", "exited", "killed"}
  /\ stop_server \in BOOLEAN /\ listening \in BOOLEAN
  /\ clients_mutex \in Clients \cup {None, Destroyed}
  /\ at \in [Clients -> Steps]
  /\ slot \in [Clients -> 1..(MAX_CLIENTS + 1)]
  /\ said \in [Clients -> Nat] /\ taken \in [Clients -> Nat]
  /\ \A c \in Clients : taken[c] <= said[c]
  /\ stream \in [Clients -> Seq(Clients \X Nat)]
  /\ unread \in [Clients -> 0..Room]

LEMMA AllTypes == TypeOK <=> OtherTypes /\ RegistryTypes
  BY DEF TypeOK, OtherTypes, RegistryTypes, ThreadSteps, Steps

LEMMA MainTypes ==
  ASSUME RoomInv, RegistryTypes',
         \/ MainThread \/ CreateFails \/ handle_sigint
         \/ \E c \in Clients : Accepts(c)
  PROVE  OtherTypes'
  <1> USE DEF registry, threads, network
  <1>1. OtherTypes
    BY AllTypes DEF RoomInv
  <1>2. CASE Checks \/ AcceptFails \/ Registers
    BY <1>1, <1>2 DEF Checks, AcceptFails, Registers, OtherTypes
  <1>3. CASE Rejects \/ CreateFails \/ ClosesAll
    BY <1>1, <1>3 DEF Rejects, CreateFails, ClosesAll, OtherTypes
  <1>4. CASE \E c \in Clients : CreatesThread(c)
    BY <1>1, <1>4 DEF CreatesThread, OtherTypes, Steps
  <1>5. CASE Destroys \/ Exits \/ handle_sigint
    BY <1>1, <1>5 DEF Destroys, Exits, handle_sigint, OtherTypes
  <1>6. CASE \E c \in Clients : Accepts(c)
    BY <1>1, <1>6 DEF Accepts, OtherTypes
  <1> QED
    BY <1>2, <1>3, <1>4, <1>5, <1>6 DEF MainThread

LEMMA ThreadTypes ==
  ASSUME RoomInv, NEW c \in Clients,
         \/ ClientThread(c)
         \/ ClientSays(c) \/ ClientReads(c) \/ ClientLeaves(c)
  PROVE  OtherTypes'
  <1> USE DEF registry, threads, network
  <1>1. OtherTypes
    BY AllTypes DEF RoomInv
  <1>2. CASE Receives(c)
    <2>1. taken' = [taken EXCEPT ![c] = @ + 1] /\ taken[c] < said[c]
      BY <1>2 DEF Receives
    <2>2. taken' \in [Clients -> Nat] /\ \A d \in Clients : taken'[d] <= said[d]
      BY <1>1, <2>1 DEF OtherTypes
    <2> QED
      BY <1>1, <1>2, <2>2 DEF Receives, Go, OtherTypes, Steps
  <1>3. CASE Ends(c) \/ Locks(c)
    BY <1>1, <1>3 DEF Ends, Locks, Go, OtherTypes, Steps
  <1>4. CASE Sends(c)
    <2>1. PICK d \in Clients :
            /\ conn[d] = "open" => unread[d] < Room
            /\ stream' = [stream EXCEPT ![d] = Append(@, Message(c))]
            /\ unread' = [unread EXCEPT ![d] = IF conn[d] = "open" THEN @ + 1 ELSE 0]
      BY <1>4 DEF Sends
    <2>2. Message(c) \in Clients \X Nat
      BY <1>1 DEF OtherTypes, Message
    <2>3. stream' \in [Clients -> Seq(Clients \X Nat)]
      BY <1>1, <2>1, <2>2, AppendProperties DEF OtherTypes
    <2>4. unread' \in [Clients -> 0..Room]
      <3> DEFINE count == IF conn[d] = "open" THEN unread[d] + 1 ELSE 0
      <3>1. unread[d] \in 0..Room /\ Room \in Nat
        BY <1>1, ChatAssumption DEF OtherTypes
      <3>2. count \in 0..Room
        BY <2>1, <3>1
      <3>3. unread' = [unread EXCEPT ![d] = count]
        BY <2>1
      <3> HIDE DEF count
      <3> QED
        BY <1>1, <3>2, <3>3 DEF OtherTypes
    <2>5. slot' \in [Clients -> 1..(MAX_CLIENTS + 1)]
      <3>1. slot' = [slot EXCEPT ![c] = Min(ToSend(c)) + 1] /\ ToSend(c) # {}
        BY <1>4 DEF Sends
      <3>2. Min(ToSend(c)) \in Slots
        BY <3>1, ToSendType DEF ToSend
      <3> DEFINE next == Min(ToSend(c)) + 1
      <3>3. next \in 1..(MAX_CLIENTS + 1)
        BY <3>2, SlotSets DEF Slots
      <3> HIDE DEF next
      <3>4. slot' = [slot EXCEPT ![c] = next]
        BY <3>1 DEF next
      <3> QED
        BY <1>1, <3>3, <3>4 DEF OtherTypes
    <2> QED
      BY <1>1, <1>4, <2>3, <2>4, <2>5 DEF Sends, Go, OtherTypes, Steps
  <1>5. CASE Unlocks(c) \/ Removes(c) \/ ClosesOwn(c) \/ SigPipe(c)
    <2>1. 1 \in 1..(MAX_CLIENTS + 1)
      BY SlotSets
    <2> QED
      BY <1>1, <1>5, <2>1
      DEF Unlocks, Removes, ClosesOwn, SigPipe, Go, OtherTypes, Steps
  <1>6. CASE ClientSays(c)
    <2>1. said' = [said EXCEPT ![c] = @ + 1]
      BY <1>6 DEF ClientSays
    <2>2. said' \in [Clients -> Nat] /\ \A d \in Clients : taken[d] <= said'[d]
      BY <1>1, <2>1 DEF OtherTypes
    <2> QED
      BY <1>1, <1>6, <2>2 DEF ClientSays, OtherTypes
  <1>7. CASE ClientReads(c) \/ ClientLeaves(c)
    <2>1. PICK count \in 0..Room : unread' = [unread EXCEPT ![c] = count]
      <3>1. unread[c] \in 0..Room /\ Room \in Nat
        BY <1>1, ChatAssumption DEF OtherTypes
      <3>2. CASE ClientReads(c)
        <4>1. unread[c] - 1 \in 0..Room /\ unread' = [unread EXCEPT ![c] = unread[c] - 1]
          BY <3>1, <3>2 DEF ClientReads
        <4> QED
          BY <4>1
      <3>3. CASE ClientLeaves(c)
        <4>1. 0 \in 0..Room /\ unread' = [unread EXCEPT ![c] = 0]
          BY <3>1, <3>3 DEF ClientLeaves
        <4> QED
          BY <4>1
      <3> QED
        BY <1>7, <3>2, <3>3
    <2>2. unread' \in [Clients -> 0..Room]
      BY <1>1, <2>1 DEF OtherTypes
    <2> QED
      BY <1>1, <1>7, <2>2 DEF ClientReads, ClientLeaves, OtherTypes
  <1> QED
    BY <1>2, <1>3, <1>4, <1>5, <1>6, <1>7 DEF ClientThread
\* What neither main nor a thread does to its registry does nothing to it.
LEMMA OutsideRegistry ==
  ASSUME RegistryInv,
         \/ handle_sigint
         \/ \E c \in Clients :
              SigPipe(c) \/ ClientSays(c) \/ ClientReads(c) \/ ClientLeaves(c)
  PROVE  RegistryInv'
  <1> USE DEF RegistryInv
  <1>1. UNCHANGED <<main, client_fd, refers, registry, at, client_sock>>
    BY DEF handle_sigint, SigPipe, ClientSays, ClientReads, ClientLeaves, threads
  <1>2. ConnKept
    <2>1. CASE handle_sigint \/ \E c \in Clients : SigPipe(c) \/ ClientSays(c) \/ ClientReads(c)
      BY <2>1
      DEF handle_sigint, SigPipe, ClientSays, ClientReads, network, ConnKept,
          RegistryTypes
    <2>2. CASE \E c \in Clients : ClientLeaves(c)
      <3>1. \E c \in Clients : \E gone \in {"fin", "err"} : conn' = [conn EXCEPT ![c] = gone]
        BY <2>2, ChatAssumption DEF ClientLeaves
      <3> QED
        BY <3>1 DEF ConnKept, RegistryTypes, Connection
    <2> QED
      BY <2>1, <2>2
  <1> QED
    BY <1>1, <1>2, QuietStep

LEMMA RegistryNext ==
  ASSUME RoomInv, Next
  PROVE  RegistryInv'
  BY MainRegistry, OutwardsRegistry, RemoveStep, CloseStep, OutsideRegistry
  DEF Next, MainThread, ClientThread, Outwards, RoomInv

\* Nobody takes the mutex but by lock, and nobody who has it leaves the loop but
\* by unlock.
LEMMA MutexNext ==
  ASSUME RoomInv, Next
  PROVE  MutexInv'
  <1> USE DEF registry, threads, network
  <1>1. TypeOK /\ MutexInv
    BY DEF RoomInv
  <1>2. ASSUME NEW c \in Clients, Locks(c)
        PROVE  MutexInv'
    <2>1. /\ at[c] = "lock" /\ at' = [at EXCEPT ![c] = "sending"]
          /\ clients_mutex \in {None, Destroyed}
          /\ clients_mutex' = IF clients_mutex = None THEN c ELSE clients_mutex
          /\ UNCHANGED <<main, slot>>
      BY <1>2 DEF Locks, Go, Available
    <2>2. at'[c] = "sending" /\ \A d \in Clients \ {c} : at'[d] = at[d]
      BY <1>1, <2>1 DEF TypeOK
    <2> QED
      BY <1>1, <2>1, <2>2, DescriptorsAreNumbers DEF MutexInv
  <1>3. ASSUME NEW c \in Clients, Unlocks(c)
        PROVE  MutexInv'
    <2>1. /\ at[c] = "sending" /\ at' = [at EXCEPT ![c] = "recv"]
          /\ clients_mutex' = IF clients_mutex = c THEN None ELSE clients_mutex
          /\ slot' = [slot EXCEPT ![c] = 1]
          /\ UNCHANGED main
      BY <1>3 DEF Unlocks, Go
    <2>2. /\ at'[c] = "recv" /\ slot'[c] = 1
          /\ \A d \in Clients \ {c} : at'[d] = at[d] /\ slot'[d] = slot[d]
      BY <1>1, <2>1 DEF TypeOK
    <2> QED
      BY <1>1, <2>1, <2>2, DescriptorsAreNumbers DEF MutexInv
  <1>4. ASSUME NEW c \in Clients, Sends(c)
        PROVE  MutexInv'
    <2>1. /\ at[c] = "sending" /\ at' = [at EXCEPT ![c] = "sending"]
          /\ \A d \in Clients \ {c} : slot'[d] = slot[d]
          /\ UNCHANGED <<main, clients_mutex>>
      BY <1>1, <1>4 DEF Sends, Go, TypeOK
    <2>2. at' = at
      BY <1>1, <2>1 DEF TypeOK
    <2> QED
      BY <1>1, <2>1, <2>2 DEF MutexInv
  <1>5. ASSUME NEW c \in Clients,
               Receives(c) \/ Ends(c) \/ Removes(c) \/ ClosesOwn(c) \/ CreatesThread(c)
        PROVE  MutexInv'
    <2>1. at[c] # "sending"
      BY <1>5 DEF Receives, Ends, Removes, ClosesOwn, CreatesThread, RoomInv,
                  RegistryInv, Newcomers
    <2>2. /\ \E step \in {"recv", "lock", "remove", "close", "done"} :
               at' = [at EXCEPT ![c] = step]
          /\ UNCHANGED <<slot, clients_mutex>>
          /\ \/ main' = main
             \/ main' = "check" /\ main = "create"
      BY <1>5 DEF Receives, Ends, Removes, ClosesOwn, CreatesThread, Go, ToMain
    <2>3. at'[c] # "sending" /\ \A d \in Clients \ {c} : at'[d] = at[d]
      BY <1>1, <2>2 DEF TypeOK
    <2> QED
      BY <1>1, <2>1, <2>2, <2>3 DEF MutexInv
  <1>6. CASE Destroys
    BY <1>1, <1>6, DescriptorsAreNumbers DEF Destroys, ToMain, MutexInv
  <1>7. CASE \/ Checks \/ AcceptFails \/ Registers \/ Rejects \/ CreateFails
             \/ ClosesAll \/ Exits
             \/ \E c \in Clients : Accepts(c)
    <2>1. UNCHANGED <<at, slot, clients_mutex>> /\ (main = "exit" => main' = "exit")
      BY <1>7 DEF Checks, AcceptFails, Registers, Rejects, CreateFails, ClosesAll,
                  Exits, Accepts
    <2> QED
      BY <1>1, <2>1 DEF MutexInv
  <1>8. CASE \/ handle_sigint
             \/ \E c \in Clients :
                  SigPipe(c) \/ ClientSays(c) \/ ClientReads(c) \/ ClientLeaves(c)
    BY <1>1, <1>8
    DEF handle_sigint, SigPipe, ClientSays, ClientReads, ClientLeaves, MutexInv
  <1> QED
    BY <1>2, <1>3, <1>4, <1>5, <1>6, <1>7, <1>8 DEF Next, MainThread, ClientThread

LEMMA InitRoom == Init => RoomInv
  <1> SUFFICES ASSUME Init PROVE RoomInv
    OBVIOUS
  <1>1. RegistryInv
    BY InitRegistry
  <1>2. TypeOK
    <2>1. /\ 1 \in 1..(MAX_CLIENTS + 1)
          /\ 0 \in 0..Room
          /\ <<>> \in Seq(Clients \X Nat)
      BY EmptySeq, ChatAssumption
    <2>2. clients_mutex = None /\ None \in Clients \cup {None, Destroyed}
      BY DEF Init
    <2>3. /\ slot \in [Clients -> 1..(MAX_CLIENTS + 1)]
          /\ unread \in [Clients -> 0..Room]
          /\ stream \in [Clients -> Seq(Clients \X Nat)]
      BY <2>1, Zenon DEF Init
    <2>4. /\ said \in [Clients -> Nat] /\ taken \in [Clients -> Nat]
          /\ \A c \in Clients : taken[c] <= said[c]
          /\ at \in [Clients -> Steps]
      BY DEF Init, Steps
    <2>5. OtherTypes
      BY <2>2, <2>3, <2>4 DEF Init, OtherTypes
    <2> QED
      BY <1>1, <2>5, AllTypes DEF RegistryInv
  <1>3. MutexInv
    BY DescriptorsAreNumbers DEF Init, MutexInv
  <1> QED
    BY <1>1, <1>2, <1>3 DEF RoomInv

LEMMA RoomNext == RoomInv /\ [Next]_vars => RoomInv'
  <1>1. ASSUME RoomInv, Next
        PROVE  RoomInv'
    <2>1. RegistryInv' /\ MutexInv'
      BY <1>1, RegistryNext, MutexNext
    <2>2. OtherTypes'
      BY <1>1, <2>1, MainTypes, ThreadTypes DEF Next, RegistryInv
    <2>3. TypeOK'
      BY <2>1, <2>2, AllTypes DEF RegistryInv, TypeOK, OtherTypes, RegistryTypes
    <2> QED
      BY <2>1, <2>3 DEF RoomInv
  <1>2. ASSUME RoomInv, UNCHANGED vars
        PROVE  RoomInv'
    <2> USE DEF vars, registry, threads, network, RoomInv
    <2>1. TypeOK'
      BY <1>2 DEF TypeOK
    <2>2. MutexInv'
      BY <1>2 DEF MutexInv
    <2>3. RegistryInv'
      BY <1>2 DEF RegistryInv, RegistryTypes, Newcomers, OwnDescriptor, SlotsRight,
                  Entered, CountRight, Holds, In, Serving, Used, Holding
    <2> QED
      BY <2>1, <2>2, <2>3
  <1> QED
    BY <1>1, <1>2

\* The types of the chat room, and with them that the count of the registered
\* clients stays between 0 and MAX_CLIENTS.
THEOREM ChatTypeTheorem == Spec => []TypeOK
  <1>1. RoomInv => TypeOK
    BY DEF RoomInv
  <1> QED
    BY <1>1, InitRoom, RoomNext, PTL DEF Spec

\* A registered connection is in one slot, under its thread's own descriptor.
LEMMA OneSlot ==
  ASSUME RegistryInv, Serving, NEW c \in Clients, In(c)
  PROVE  /\ Cardinality(Registered(c)) = 1
         /\ Registered(c) = Holding(client_sock[c])
         /\ refers[client_sock[c]] = c
  <1> USE DEF RegistryInv
  <1>1. PICK i \in Slots : clients[i] = client_sock[c]
    BY DEF Entered
  <1>2. client_sock[c] # None /\ refers[client_sock[c]] = c
    BY DEF OwnDescriptor, In, Holds, Outside
  <1>3. Holding(client_sock[c]) = {i}
    BY <1>1, <1>2 DEF SlotsRight, Holding
  <1>4. Registered(c) = {i}
    <2>1. i \in Registered(c)
      BY <1>1, <1>2 DEF Registered
    <2>2. ASSUME NEW j \in Registered(c)
          PROVE  clients[j] = client_sock[c]
      <3>1. j \in Slots /\ clients[j] # None /\ refers[clients[j]] = c
        BY <2>2 DEF Registered
      <3>2. ~(main = "create" /\ clients[j] = client_fd)
        BY <3>1 DEF Newcomers, In, Outside
      <3> QED
        BY <3>1, <3>2 DEF SlotsRight
    <2>3. \A j \in Registered(c) : j = i
      BY <1>1, <1>2, <2>2 DEF SlotsRight, Registered
    <2> QED
      BY <2>1, <2>3
  <1> QED
    BY <1>2, <1>3, <1>4, FS_Singleton

LEMMA ExactRegistry == RoomInv => RegistryExact
  <1> SUFFICES ASSUME RoomInv, Serving
               PROVE  RegistryExact
    BY DEF Serving, RegistryExact
  <1> USE DEF RoomInv, RegistryInv
  <1>1. client_count = Cardinality(Slots \ Holding(None))
    BY DEF CountRight, Used
  <1>2. \A i \in Slots : clients[i] # None => refers[clients[i]] # None
    BY DEF SlotsRight
  <1>3. ASSUME NEW c \in Clients, at[c] \in {"recv", "lock", "sending", "remove"}
        PROVE  /\ Cardinality(Registered(c)) = 1
               /\ Registered(c) = Holding(client_sock[c])
    BY <1>3, OneSlot DEF In, Outside
  <1>4. ASSUME NEW c \in Clients, at[c] \notin {"recv", "lock", "sending", "remove"},
               Registered(c) # {}
        PROVE  main = "create" /\ Registered(c) = Holding(client_fd)
    <2>1. at[c] \in Outside
      BY <1>4 DEF TypeOK, Steps, Outside
    <2>2. \A i \in Registered(c) : main = "create" /\ clients[i] = client_fd
      BY <2>1 DEF Registered, SlotsRight
    <2>3. client_fd # None /\ main = "create"
      BY <1>4, <2>2 DEF Newcomers
    <2>4. PICK i \in Slots : clients[i] = client_fd /\ refers[client_fd] = c
      BY <1>4, <2>2 DEF Registered
    <2>5. Holding(client_fd) \subseteq Registered(c)
      BY <2>3, <2>4 DEF Holding, Registered
    <2>6. Registered(c) \subseteq Holding(client_fd)
      BY <2>2 DEF Holding, Registered
    <2> QED
      BY <2>3, <2>5, <2>6
  <1>5. \A c \in Clients :
          at[c] \in Steps \ {"none", "done"} => refers[client_sock[c]] = c
    BY DEF OwnDescriptor, Holds
  <1> QED
    BY <1>1, <1>2, <1>3, <1>4, <1>5 DEF RegistryExact

\* For any number of clients, slots and descriptors, reused at once: until main
\* closes everything a client is in one slot while its thread serves it, in none
\* before and after, and the count is the number of full slots.
THEOREM RegistryTheorem == Spec => []RegistryExact
  BY InitRoom, RoomNext, ExactRegistry, PTL DEF Spec
-----------------------------------------------------------------------------
(***************************************************************************)
(* The room is AtomicChat.                                                 *)
(***************************************************************************)
LEMMA ChosenOne ==
  ASSUME NEW x
  PROVE  (CHOOSE b \in {x} : TRUE) = x
  OBVIOUS

\* Nobody is being broadcast to while the mutex is free; and only one thread
\* broadcasts.
LEMMA Silent ==
  ASSUME RoomInv, Available, NEW b \in Clients
  PROVE  Awaiting(b) = {}
  <1> USE DEF RoomInv
  <1>1. CASE clients_mutex = None
    BY <1>1, DescriptorsAreNumbers DEF MutexInv, Awaiting
  <1>2. CASE clients_mutex = Destroyed
    <2>1. ToSend(b) = {}
      BY <1>2 DEF MutexInv, RegistryInv, SlotsRight, Serving, ToSend
    <2> QED
      BY <2>1 DEF Awaiting
  <1> QED
    BY <1>1, <1>2 DEF Available

LEMMA OneBroadcaster ==
  ASSUME RoomInv, NEW b \in Clients, NEW d \in Clients \ {b},
         at[b] = "sending", ToSend(b) # {}
  PROVE  at[d] # "sending" /\ clients_mutex = b
  <1>1. clients_mutex # Destroyed
    BY DEF RoomInv, MutexInv, RegistryInv, SlotsRight, Serving, ToSend
  <1> QED
    BY <1>1 DEF RoomInv, MutexInv

\* What is heard, when c alone may be broadcasting.
LEMMA HeardAlone ==
  ASSUME NEW c \in Clients, \A b \in Clients \ {c} : Awaiting(b) = {},
         NEW d \in Clients
  PROVE  Heard(d) = IF d \in Awaiting(c) THEN Append(stream[d], Message(c))
                    ELSE stream[d]
  <1>1. {b \in Clients : d \in Awaiting(b)} = IF d \in Awaiting(c) THEN {c} ELSE {}
    OBVIOUS
  <1> QED
    BY <1>1, ChosenOne DEF Heard

LEMMA HeardAlonePrime ==
  ASSUME NEW c \in Clients, \A b \in Clients \ {c} : Awaiting(b)' = {},
         NEW d \in Clients
  PROVE  Heard(d)' = IF d \in Awaiting(c)' THEN Append(stream'[d], Message(c)')
                     ELSE stream'[d]
  <1>1. {b \in Clients : d \in Awaiting(b)'} = IF d \in Awaiting(c)' THEN {c} ELSE {}
    OBVIOUS
  <1> QED
    BY <1>1, ChosenOne DEF Heard

\* A connection is registered in one slot.
LEMMA OneSlotEach ==
  ASSUME RoomInv, NEW i \in Slots, NEW j \in Slots,
         clients[i] # None, clients[j] # None, refers[clients[i]] = refers[clients[j]]
  PROVE  i = j
  <1>1. clients[i] = clients[j]
    BY DEF RoomInv, RegistryInv, SlotsRight, Newcomers, Outside
  <1> QED
    BY <1>1 DEF RoomInv, RegistryInv, SlotsRight

LEMMA SameMembers ==
  ASSUME clients' = clients,
         \A i \in Slots : clients[i] # None => refers'[clients[i]] = refers[clients[i]]
  PROVE  Members' = Members
  <1>1. \A c \in Clients : Registered(c)' = Registered(c)
    BY DEF Registered
  <1> QED
    BY <1>1 DEF Members

\* The abstract state, and a step that does not show in it.
heardBar  == [c \in Clients |-> Heard(c)]
numberBar == [c \in Clients |-> Begun(c)]

LEMMA HeardSame ==
  ASSUME RoomInv, stream' = stream,
         \A b \in Clients : Awaiting(b)' = Awaiting(b),
         \A b \in Clients : Awaiting(b) # {} => taken'[b] = taken[b]
  PROVE  heardBar' = heardBar
  <1>1. ASSUME NEW d \in Clients
        PROVE  Heard(d)' = Heard(d)
    <2>1. CASE \A b \in Clients : Awaiting(b) = {}
      BY <2>1, HeardAlone, HeardAlonePrime
    <2>2. ASSUME NEW c \in Clients, Awaiting(c) # {}
          PROVE  Heard(d)' = Heard(d)
      <3>1. \A b \in Clients \ {c} : Awaiting(b) = {}
        BY <2>2, OneBroadcaster DEF Awaiting
      <3>2. Message(c)' = Message(c)
        BY <2>2 DEF Message
      <3> QED
        BY <3>1, <3>2, HeardAlone, HeardAlonePrime
    <2> QED
      BY <2>1, <2>2
  <1> QED
    BY <1>1 DEF heardBar

LEMMA Unnoticed ==
  ASSUME RoomInv, NEW c \in Clients, NEW step,
         clients' = clients,
         \A i \in Slots : clients[i] # None => refers'[clients[i]] = refers[clients[i]],
         stream' = stream,
         at' = [at EXCEPT ![c] = step],
         step = at[c] \/ (step # "sending" /\ Awaiting(c) = {}),
         step = at[c] => /\ client_sock'[c] = client_sock[c] /\ slot'[c] = slot[c]
                         /\ taken'[c] = taken[c],
         \A b \in Clients \ {c} : /\ client_sock'[b] = client_sock[b]
                                  /\ slot'[b] = slot[b] /\ taken'[b] = taken[b],
         Begun(c)' = Begun(c)
  PROVE  Members' = Members /\ heardBar' = heardBar /\ numberBar' = numberBar
  <1>1. Members' = Members
    BY SameMembers
  <1>2. at'[c] = step /\ \A b \in Clients \ {c} : at'[b] = at[b]
    BY DEF RoomInv, TypeOK
  <1>3. ASSUME NEW b \in Clients
        PROVE  Awaiting(b)' = Awaiting(b)
    <2>1. CASE b = c /\ step # at[c]
      BY <1>2, <2>1 DEF Awaiting
    <2>2. CASE b # c \/ step = at[c]
      <3>1. client_sock'[b] = client_sock[b] /\ slot'[b] = slot[b] /\ at'[b] = at[b]
        BY <1>2, <2>2
      <3>2. ToSend(b)' = ToSend(b)
        BY <3>1 DEF ToSend
      <3>3. \A i \in ToSend(b) : refers'[clients'[i]] = refers[clients[i]]
        BY DEF ToSend
      <3>4. {refers'[clients'[i]] : i \in ToSend(b)'} = {refers[clients[i]] : i \in ToSend(b)}
        BY <3>2, <3>3
      <3> QED
        BY <3>1, <3>4 DEF Awaiting
    <2> QED
      BY <2>1, <2>2
  <1>4. \A b \in Clients : Awaiting(b) # {} => taken'[b] = taken[b]
    OBVIOUS
  <1>5. heardBar' = heardBar
    BY <1>3, <1>4, HeardSame
  <1>6. \A b \in Clients : Begun(b)' = Begun(b)
    BY <1>2 DEF Begun
  <1> QED
    BY <1>1, <1>5, <1>6 DEF numberBar

LEMMA InitAtomic == Init => Atomic!AInit
  <1> SUFFICES ASSUME Init PROVE Atomic!AInit
    OBVIOUS
  <1>1. Members = {}
    BY DescriptorsAreNumbers DEF Init, Members, Registered
  <1>2. \A b \in Clients : Awaiting(b) = {} /\ Begun(b) = 0
    BY DEF Init, Awaiting, Begun
  <1>3. \A d \in Clients : Heard(d) = <<>>
    BY <1>2 DEF Heard, Init
  <1> QED
    BY <1>1, <1>2, <1>3 DEF Atomic!AInit

\* add_client: somebody joins.
LEMMA RegistersJoins ==
  ASSUME RoomInv, Registers, NEW c \in Clients, c = refers[client_fd]
  PROVE  Atomic!Joins(c)
  <1> USE DEF RoomInv, RegistryInv
  <1>1. /\ main = "add" /\ client_fd \in Descriptors /\ client_fd # None
        /\ at[c] = "none"
    BY DescriptorsAreNumbers DEF Registers, Newcomers, RegistryTypes
  <1>2. PICK i \in Slots : /\ clients[i] = None
                           /\ clients' = [clients EXCEPT ![i] = client_fd]
    BY FirstHolding DEF Registers, add_client, Full
  <1>3. /\ UNCHANGED <<refers, threads, network, clients_mutex>>
        /\ clients_mutex = None
    BY <1>1 DEF Registers, Available, MutexInv
  <1>4. \A b \in Clients : Awaiting(b) = {} /\ Awaiting(b)' = {}
    BY <1>3, DescriptorsAreNumbers DEF MutexInv, Awaiting, threads
  <1>5. c \notin Members
    BY <1>1 DEF Members, Registered, SlotsRight, Outside
  <1>6. Members' = Members \cup {c}
    <2>1. clients'[i] = client_fd /\ \A j \in Slots \ {i} : clients'[j] = clients[j]
      BY <1>2 DEF RegistryTypes
    <2>2. i \in Registered(c)'
      BY <1>1, <1>2, <1>3, <2>1 DEF Registered
    <2>3. \A d \in Clients \ {c} : Registered(d)' = Registered(d)
      BY <1>2, <1>3, <2>1 DEF Registered
    <2>4. \A d \in Clients : d \in Members' <=> d \in Members \/ d = c
      BY <2>2, <2>3 DEF Members
    <2> QED
      BY <1>1, <2>4 DEF Members
  <1>7. \A d \in Clients : Heard(d)' = Heard(d) /\ Begun(d)' = Begun(d)
    BY <1>3, <1>4 DEF Heard, Begun, threads, network
  <1> QED
    BY <1>5, <1>6, <1>7 DEF Atomic!Joins

\* remove_client, of a registered client: it leaves.
LEMMA ForgetsLeaves ==
  ASSUME RoomInv, NEW c \in Clients, NEW i \in Slots,
         clients[i] # None, refers[clients[i]] = c,
         clients' = [clients EXCEPT ![i] = None],
         \A j \in Slots \ {i} : clients[j] # None => refers'[clients[j]] = refers[clients[j]],
         \A b \in Clients : at[b] # "sending" /\ at'[b] # "sending",
         UNCHANGED <<stream, taken>>,
         \A b \in Clients : Begun(b)' = Begun(b)
  PROVE  Atomic!Leaves(c)
  <1>1. \A b \in Clients : Awaiting(b) = {} /\ Awaiting(b)' = {}
    BY DEF Awaiting
  <1>2. clients'[i] = None /\ \A j \in Slots \ {i} : clients'[j] = clients[j]
    BY DEF RoomInv, TypeOK
  <1>3. c \in Members
    BY DEF Members, Registered
  <1>4. Members' = Members \ {c}
    <2>1. ASSUME NEW j \in Slots, clients'[j] # None
          PROVE  refers'[clients'[j]] = refers[clients[j]] /\ refers[clients[j]] # c
      BY <1>2, <2>1, OneSlotEach
    <2>2. Registered(c)' = {}
      BY <2>1 DEF Registered
    <2>3. ASSUME NEW d \in Clients \ {c}
          PROVE  Registered(d)' = Registered(d)
      BY <1>2, <2>1 DEF Registered
    <2> QED
      BY <2>2, <2>3 DEF Members
  <1>5. \A d \in Clients : Heard(d)' = Heard(d)
    BY <1>1 DEF Heard
  <1> QED
    BY <1>3, <1>4, <1>5 DEF Atomic!Leaves

LEMMA CreateFailsLeaves ==
  ASSUME RoomInv, CreateFails
  PROVE  Atomic!Leaves(refers[client_fd])
  <1> USE DEF RoomInv, RegistryInv
  <1>1. main = "create" /\ client_fd \in Descriptors /\ Serving
    BY NewcomerAlone DEF CreateFails
  <1>2. refers[client_fd] \in Clients
    BY <1>1 DEF Newcomers, RegistryTypes
  <1>3. Holding(client_fd) # {}
    BY <1>1 DEF Entered, Holding
  <1>4. PICK i \in Slots : /\ clients[i] = client_fd /\ Holding(client_fd) = {i}
                           /\ clients' = [clients EXCEPT ![i] = None]
    BY <1>1, <1>3, RemoveEffect DEF CreateFails
  <1>5. \A n \in Descriptors \ {client_fd} : refers'[n] = refers[n]
    BY <1>1, CloseEffect DEF CreateFails
  <1>6. \A j \in Slots \ {i} : clients[j] # None => refers'[clients[j]] = refers[clients[j]]
    BY <1>4, <1>5 DEF Holding, RegistryTypes
  <1>7. UNCHANGED <<threads, stream>> /\ clients_mutex = None
    BY <1>1 DEF CreateFails, Available, MutexInv
  <1>8. \A b \in Clients : at[b] # "sending" /\ at'[b] # "sending"
    BY <1>7, DescriptorsAreNumbers DEF MutexInv, threads
  <1>9. \A b \in Clients : Begun(b)' = Begun(b)
    BY <1>7 DEF Begun, threads
  <1>10. client_fd # None
    BY <1>1, DescriptorsAreNumbers
  <1> QED
    BY <1>2, <1>4, <1>6, <1>7, <1>8, <1>9, <1>10, ForgetsLeaves DEF threads

\* A thread removes its client; after a shutdown there is nothing to remove.
LEMMA RemovesLeaves ==
  ASSUME RoomInv, NEW c \in Clients, Removes(c)
  PROVE  \/ Atomic!Leaves(c)
         \/ Members' = Members /\ heardBar' = heardBar /\ numberBar' = numberBar
  <1> USE DEF RoomInv, RegistryInv
  <1>1. /\ at[c] = "remove" /\ at' = [at EXCEPT ![c] = "close"]
        /\ UNCHANGED <<refers, clients_mutex, client_sock, slot, taken, stream>>
    BY DEF Removes, Go, network
  <1>2. In(c) /\ client_sock[c] # None /\ client_sock[c] \in Descriptors
    BY <1>1 DEF In, Holds, Outside, OwnDescriptor, RegistryTypes
  <1>3. \A b \in Clients : Begun(b)' = Begun(b)
    BY <1>1 DEF Begun, TypeOK
  <1>4. CASE Serving
    <2>1. PICK i \in Slots : /\ clients[i] = client_sock[c]
                             /\ clients' = [clients EXCEPT ![i] = None]
      <3>1. Holding(client_sock[c]) # {}
        BY <1>2, <1>4 DEF Entered, Holding
      <3> QED
        BY <1>2, <3>1, RemoveEffect DEF Removes
    <2>2. refers[client_sock[c]] = c
      BY <1>2, <1>4, OneSlot
    <2>3. clients_mutex = None
      BY <1>4 DEF Removes, Available, MutexInv, Serving
    <2>4. \A b \in Clients : at[b] # "sending" /\ at'[b] # "sending"
      BY <1>1, <2>3, DescriptorsAreNumbers DEF MutexInv, TypeOK
    <2> QED
      BY <1>1, <1>2, <1>3, <2>1, <2>2, <2>4, ForgetsLeaves
  <1>5. CASE ~Serving
    <2>1. Holding(client_sock[c]) = {}
      BY <1>2, <1>5 DEF SlotsRight, Holding
    <2>2. clients' = clients
      BY <2>1 DEF Removes, remove_client, registry
    <2>3. Awaiting(c) = {}
      BY <1>1 DEF Awaiting
    <2> QED
      BY <1>1, <1>3, <2>2, <2>3, Unnoticed
  <1> QED
    BY <1>4, <1>5

LEMMA ClosesAllLeave ==
  ASSUME RoomInv, ClosesAll
  PROVE  Atomic!AllLeave
  <1>1. clients_mutex = None /\ UNCHANGED <<threads, stream>>
    BY DEF ClosesAll, Available, RoomInv, MutexInv
  <1>2. \A b \in Clients : Awaiting(b) = {} /\ Awaiting(b)' = {}
    BY <1>1, DescriptorsAreNumbers DEF RoomInv, MutexInv, Awaiting, threads
  <1>3. \A d \in Clients : Heard(d)' = Heard(d) /\ Begun(d)' = Begun(d)
    BY <1>1, <1>2 DEF Heard, Begun, threads
  <1>4. Members' = {}
    BY DescriptorsAreNumbers DEF ClosesAll, Members, Registered
  <1> QED
    BY <1>3, <1>4 DEF Atomic!AllLeave

\* A broadcast begins: what a member says is heard by all the others; after a
\* shutdown nobody is left to hear it.
LEMMA LocksSays ==
  ASSUME RoomInv, NEW c \in Clients, Locks(c)
  PROVE  Atomic!Says(c) \/ Atomic!SaysTooLate(c)
  <1> USE DEF RoomInv, RegistryInv
  <1>1. /\ at[c] = "lock" /\ at'[c] = "sending"
        /\ \A b \in Clients \ {c} : at'[b] = at[b]
        /\ UNCHANGED <<refers, registry, client_sock, slot, taken, stream>>
    BY DEF Locks, Go, TypeOK, network
  <1>2. \A b \in Clients : Awaiting(b) = {}
    BY Silent DEF Locks
  <1>3. \A b \in Clients \ {c} : Awaiting(b)' = {}
    <2>1. ASSUME NEW b \in Clients
          PROVE  ToSend(b)' = ToSend(b)
      BY <1>1 DEF ToSend, registry
    <2>2. ASSUME NEW b \in Clients \ {c}
          PROVE  Awaiting(b)' = Awaiting(b)
      BY <1>1, <2>1 DEF Awaiting, registry
    <2> QED
      BY <1>2, <2>2
  <1>4. Awaiting(c)' = {refers[clients[i]] : i \in ToSend(c)}
    BY <1>1 DEF Awaiting, ToSend, registry
  <1>5. Members' = Members
    BY <1>1, SameMembers DEF registry
  <1>6. \A d \in Clients : Heard(d) = stream[d]
    BY <1>2, HeardAlone
  <1>7. \A d \in Clients :
          Heard(d)' = IF d \in Awaiting(c)' THEN Append(stream[d], <<c, taken[c]>>)
                      ELSE stream[d]
    BY <1>1, <1>3, HeardAlonePrime DEF Message
  <1>8. /\ Begun(c)' = taken[c] /\ Begun(c)' = Begun(c) + 1
        /\ \A b \in Clients \ {c} : Begun(b)' = Begun(b)
    BY <1>1 DEF Begun, TypeOK
  <1>9. numberBar' = [numberBar EXCEPT ![c] = @ + 1]
    BY <1>8 DEF numberBar
  <1>10. numberBar'[c] = taken[c]
    BY <1>8 DEF numberBar
  <1>11. CASE Serving
    <2>1. /\ Registered(c) = Holding(client_sock[c]) /\ Registered(c) # {}
          /\ refers[client_sock[c]] = c
      BY <1>1, <1>11, OneSlot, FS_EmptySet DEF In, Outside
    <2>2. c \in Members
      BY <2>1 DEF Members
    <2>3. ToSend(c) = {i \in Slots : clients[i] \notin {None, client_sock[c]}}
      BY <1>1 DEF ToSend, MutexInv, Slots
    <2>4. ASSUME NEW d \in Clients
          PROVE  d \in Awaiting(c)' <=> d \in Members \ {c}
      <3>1. ASSUME NEW i \in ToSend(c), d = refers[clients[i]]
            PROVE  d \in Members \ {c}
        BY <2>1, <2>3, <3>1 DEF Registered, Members, Holding
      <3>2. ASSUME NEW i \in Registered(d), d # c
            PROVE  i \in ToSend(c) /\ d = refers[clients[i]]
        BY <2>1, <2>3, <3>2 DEF Registered
      <3> QED
        BY <1>4, <3>1, <3>2 DEF Members
    <2>5. heardBar' = [d \in Clients |->
                         IF d \in Members \ {c}
                         THEN Append(heardBar[d], <<c, numberBar'[c]>>)
                         ELSE heardBar[d]]
      BY <1>6, <1>7, <1>10, <2>4 DEF heardBar
    <2> QED
      BY <1>5, <1>9, <2>2, <2>5 DEF Atomic!Says, heardBar, numberBar
  <1>12. CASE ~Serving
    <2>1. \A i \in Slots : clients[i] = None
      BY <1>12 DEF SlotsRight
    <2>2. Members = {} /\ ToSend(c) = {}
      BY <2>1 DEF Members, Registered, ToSend
    <2>3. heardBar' = heardBar
      BY <1>4, <1>6, <1>7, <2>2 DEF heardBar
    <2> QED
      BY <1>5, <1>9, <2>2, <2>3 DEF Atomic!SaysTooLate, heardBar, numberBar
  <1> QED
    BY <1>11, <1>12

\* One send of a broadcast: what the receiver was taken to have heard.
LEMMA SendsUnnoticed ==
  ASSUME RoomInv, NEW c \in Clients, Sends(c)
  PROVE  Members' = Members /\ heardBar' = heardBar /\ numberBar' = numberBar
  <1> USE DEF RoomInv, RegistryInv
  <1> DEFINE first == Min(ToSend(c))
             d     == Receiver(c)
  <1>1. /\ at[c] = "sending" /\ ToSend(c) # {} /\ at' = at
        /\ UNCHANGED <<refers, registry, client_sock, taken>>
    BY DEF Sends, Go, TypeOK
  <1>2. /\ first \in ToSend(c) /\ \A i \in ToSend(c) : first <= i
        /\ d \in Clients
    BY <1>1, ToSendType
  <1>3. stream' = [stream EXCEPT ![d] = Append(@, Message(c))]
    BY DEF Sends
  <1>4. slot' = [slot EXCEPT ![c] = first + 1] /\ first \in Nat
    BY <1>2, SlotSets DEF Sends, ToSend
  <1>5. Members' = Members
    BY <1>1, SameMembers DEF registry
  <1>6. \A b \in Clients \ {c} : Awaiting(b) = {} /\ Awaiting(b)' = {}
    BY <1>1, OneBroadcaster DEF Awaiting
  <1>7. ToSend(c)' = ToSend(c) \ {first}
    <2>1. slot'[c] = first + 1 /\ slot[c] \in Nat /\ slot[c] <= first
      BY <1>2, <1>4, SlotSets DEF TypeOK, ToSend
    <2>2. Slots \in SUBSET Nat
      BY SlotSets
    <2>3. ASSUME NEW i \in Slots
          PROVE  i >= first + 1 <=> i >= slot[c] /\ i >= first /\ i # first
      BY <1>4, <2>1, <2>2
    <2>4. \A i \in Slots : i \in ToSend(c)' <=> i \in ToSend(c) /\ i # first
      BY <1>1, <1>2, <2>1, <2>3 DEF ToSend, registry
    <2> QED
      BY <2>4 DEF ToSend
  <1>8. /\ Awaiting(c)  = {refers[clients[i]] : i \in ToSend(c)}
        /\ Awaiting(c)' = {refers[clients[i]] : i \in ToSend(c) \ {first}}
    BY <1>1, <1>7 DEF Awaiting, registry
  <1>9. \A i \in ToSend(c) : refers[clients[i]] = d => i = first
    BY <1>2, OneSlotEach DEF Receiver, ToSend
  <1>10. Message(c)' = Message(c)
    BY <1>1 DEF Message
  <1>11. ASSUME NEW e \in Clients
         PROVE  Heard(e)' = Heard(e)
    <2>1. CASE e = d
      <3>1. e \in Awaiting(c) /\ e \notin Awaiting(c)'
        BY <1>2, <1>8, <1>9, <2>1 DEF Receiver
      <3>2. stream'[e] = Append(stream[e], Message(c))
        BY <1>3, <2>1 DEF TypeOK
      <3> QED
        BY <1>6, <3>1, <3>2, HeardAlone, HeardAlonePrime
    <2>2. CASE e # d
      <3>1. e \in Awaiting(c) <=> e \in Awaiting(c)'
        BY <1>2, <1>8, <2>2 DEF Receiver
      <3>2. stream'[e] = stream[e]
        BY <1>2, <1>3, <2>2 DEF TypeOK
      <3> QED
        BY <1>6, <1>10, <3>1, <3>2, HeardAlone, HeardAlonePrime
    <2> QED
      BY <2>1, <2>2
  <1>12. \A b \in Clients : Begun(b)' = Begun(b)
    BY <1>1 DEF Begun
  <1> QED
    BY <1>5, <1>11, <1>12 DEF heardBar, numberBar

\* The other steps of a thread.
LEMMA ThreadUnnoticed ==
  ASSUME RoomInv, NEW c \in Clients,
         Receives(c) \/ Ends(c) \/ Unlocks(c) \/ ClosesOwn(c) \/ CreatesThread(c)
  PROVE  Members' = Members /\ heardBar' = heardBar /\ numberBar' = numberBar
  <1> USE DEF RoomInv, RegistryInv
  <1>1. CASE Receives(c)
    <2>1. /\ at[c] = "recv" /\ at' = [at EXCEPT ![c] = "lock"]
          /\ taken' = [taken EXCEPT ![c] = @ + 1]
          /\ UNCHANGED <<refers, registry, client_sock, slot, stream>>
      BY <1>1 DEF Receives, Go, network
    <2>2. Begun(c)' = Begun(c) /\ Awaiting(c) = {}
      BY <2>1 DEF Begun, TypeOK, Awaiting
    <2>3. \A b \in Clients \ {c} : taken'[b] = taken[b]
      BY <2>1 DEF TypeOK
    <2> QED
      BY <2>1, <2>2, <2>3, Unnoticed DEF registry
  <1>2. CASE Ends(c)
    <2>1. /\ at[c] = "recv" /\ at' = [at EXCEPT ![c] = "remove"]
          /\ UNCHANGED <<refers, registry, client_sock, slot, taken, stream>>
      BY <1>2 DEF Ends, Go
    <2>2. Begun(c)' = Begun(c) /\ Awaiting(c) = {}
      BY <2>1 DEF Begun, TypeOK, Awaiting
    <2> QED
      BY <2>1, <2>2, Unnoticed DEF registry
  <1>3. CASE Unlocks(c)
    <2>1. /\ at[c] = "sending" /\ at' = [at EXCEPT ![c] = "recv"]
          /\ slot' = [slot EXCEPT ![c] = 1] /\ ToSend(c) = {}
          /\ UNCHANGED <<refers, registry, client_sock, taken, stream>>
      BY <1>3 DEF Unlocks, Go, network
    <2>2. Begun(c)' = Begun(c) /\ Awaiting(c) = {}
      BY <2>1 DEF Begun, TypeOK, Awaiting
    <2>3. \A b \in Clients \ {c} : slot'[b] = slot[b]
      BY <2>1 DEF TypeOK
    <2> QED
      BY <2>1, <2>2, <2>3, Unnoticed DEF registry
  <1>4. CASE ClosesOwn(c)
    <2>1. /\ at[c] = "close" /\ at' = [at EXCEPT ![c] = "done"]
          /\ client_sock' = [client_sock EXCEPT ![c] = None]
          /\ UNCHANGED <<registry, slot, taken, stream>>
      BY <1>4 DEF ClosesOwn, Go
    <2>2. client_sock[c] \in Descriptors
      BY <2>1 DEF OwnDescriptor, Holds, RegistryTypes
    <2>3. \A n \in Descriptors \ {client_sock[c]} : refers'[n] = refers[n]
      BY <1>4, <2>2, CloseEffect DEF ClosesOwn
    <2>4. \A i \in Slots : clients[i] # client_sock[c]
      BY <2>1, <2>2, DescriptorsAreNumbers
      DEF SlotsRight, OwnDescriptor, Holds, Outside, Newcomers
    <2>5. \A i \in Slots : clients[i] # None => refers'[clients[i]] = refers[clients[i]]
      BY <2>3, <2>4 DEF RegistryTypes
    <2>6. Begun(c)' = Begun(c) /\ Awaiting(c) = {}
      BY <2>1 DEF Begun, TypeOK, Awaiting
    <2>7. \A b \in Clients \ {c} : client_sock'[b] = client_sock[b]
      BY <2>1 DEF TypeOK
    <2> QED
      BY <2>1, <2>5, <2>6, <2>7, Unnoticed DEF registry
  <1>5. CASE CreatesThread(c)
    <2>1. /\ main = "create" /\ refers[client_fd] = c
          /\ at' = [at EXCEPT ![c] = "recv"]
          /\ client_sock' = [client_sock EXCEPT ![c] = client_fd]
          /\ UNCHANGED <<refers, registry, slot, taken, stream>>
      BY <1>5 DEF CreatesThread, network
    <2>2. at[c] = "none"
      BY <2>1 DEF Newcomers
    <2>3. Begun(c)' = Begun(c) /\ Awaiting(c) = {}
      BY <2>1, <2>2 DEF Begun, TypeOK, Awaiting
    <2>4. \A b \in Clients \ {c} : client_sock'[b] = client_sock[b]
      BY <2>1 DEF TypeOK
    <2> QED
      BY <2>1, <2>2, <2>3, <2>4, Unnoticed DEF registry
  <1> QED
    BY <1>1, <1>2, <1>3, <1>4, <1>5

\* The steps of main that no member sees, and those of the clients.
LEMMA OthersUnnoticed ==
  ASSUME RoomInv,
         \/ Checks \/ AcceptFails \/ Rejects \/ Destroys \/ Exits \/ handle_sigint
         \/ \E c \in Clients :
              \/ Accepts(c) \/ SigPipe(c)
              \/ ClientSays(c) \/ ClientReads(c) \/ ClientLeaves(c)
         \/ UNCHANGED vars
  PROVE  Members' = Members /\ heardBar' = heardBar /\ numberBar' = numberBar
  <1> USE DEF RoomInv, RegistryInv
  <1>1. UNCHANGED <<registry, threads, stream>>
    BY DEF Checks, AcceptFails, Rejects, Destroys, Exits, handle_sigint, Accepts,
           SigPipe, ClientSays, ClientReads, ClientLeaves, vars, network
  <1>2. \A i \in Slots : clients[i] # None => refers'[clients[i]] = refers[clients[i]]
    <2>1. CASE Rejects
      <3>1. client_fd \in Descriptors /\ Holding(client_fd) = {}
        BY <2>1, NewcomerAlone DEF Rejects
      <3>2. \A n \in Descriptors \ {client_fd} : refers'[n] = refers[n]
        BY <2>1, <3>1, CloseEffect DEF Rejects
      <3> QED
        BY <3>1, <3>2 DEF Holding, RegistryTypes
    <2>2. ASSUME NEW c \in Clients, Accepts(c)
          PROVE  \A i \in Slots :
                   clients[i] # None => refers'[clients[i]] = refers[clients[i]]
      <3> DEFINE fds == {n \in Descriptors : refers[n] = None}
                 fd  == Min(fds)
      <3>1. fd \in fds
        BY <2>2, DescriptorsAreNumbers, MinIsLeast DEF Accepts
      <3>2. refers' = [refers EXCEPT ![fd] = c]
        BY <2>2 DEF Accepts
      <3> QED
        BY <3>1, <3>2 DEF SlotsRight, RegistryTypes
    <2>3. CASE UNCHANGED refers
      BY <2>3
    <2> QED
      BY <2>1, <2>2, <2>3
      DEF Checks, AcceptFails, Destroys, Exits, handle_sigint,
          SigPipe, ClientSays, ClientReads, ClientLeaves, vars
  <1>3. Members' = Members
    BY <1>1, <1>2, SameMembers DEF registry
  <1>4. ASSUME NEW b \in Clients
        PROVE  Awaiting(b)' = Awaiting(b)
    <2>1. ToSend(b)' = ToSend(b)
      BY <1>1 DEF ToSend, registry, threads
    <2>2. \A i \in ToSend(b) : refers'[clients'[i]] = refers[clients[i]]
      BY <1>1, <1>2 DEF ToSend, registry
    <2>3. {refers'[clients'[i]] : i \in ToSend(b)'} = {refers[clients[i]] : i \in ToSend(b)}
      BY <2>1, <2>2
    <2> QED
      BY <1>1, <2>3 DEF Awaiting, threads
  <1>5. heardBar' = heardBar
    BY <1>1, <1>4, HeardSame DEF threads
  <1>6. numberBar' = numberBar
    BY <1>1 DEF numberBar, Begun, threads
  <1> QED
    BY <1>3, <1>5, <1>6

LEMMA NextAtomic ==
  RoomInv /\ [Next]_vars => [Atomic!ANext]_(Atomic!avars)
  <1> SUFFICES ASSUME RoomInv, [Next]_vars
               PROVE  \/ Atomic!ANext
                      \/ Members' = Members /\ heardBar' = heardBar
                         /\ numberBar' = numberBar
    BY DEF Atomic!avars, heardBar, numberBar
  <1>1. ASSUME NEW c \in Clients, ClientThread(c) \/ CreatesThread(c)
        PROVE  \/ Atomic!ANext
               \/ Members' = Members /\ heardBar' = heardBar /\ numberBar' = numberBar
    BY <1>1, RemovesLeaves, LocksSays, SendsUnnoticed, ThreadUnnoticed, OthersUnnoticed
    DEF ClientThread, Atomic!ANext
  <1>2. CASE Registers
    <2>1. refers[client_fd] \in Clients
      BY <1>2 DEF Registers, RoomInv, RegistryInv, Newcomers, RegistryTypes
    <2> QED
      BY <1>2, <2>1, RegistersJoins DEF Atomic!ANext
  <1>3. CASE CreateFails
    <2>1. refers[client_fd] \in Clients
      BY <1>3 DEF CreateFails, RoomInv, RegistryInv, Newcomers, RegistryTypes
    <2> QED
      BY <1>3, <2>1, CreateFailsLeaves DEF Atomic!ANext
  <1>4. CASE ClosesAll
    BY <1>4, ClosesAllLeave DEF Atomic!ANext
  <1> QED
    BY <1>1, <1>2, <1>3, <1>4, OthersUnnoticed DEF Next, MainThread

\* The chat room implements AtomicChat, for any number of clients and messages:
\* while a broadcast is held up by a full connection, others join, leave and are
\* removed, and yet what it sends counts as heard by all the members at once.
THEOREM AtomicTheorem == Spec => AtomicSpec
  BY InitRoom, RoomNext, InitAtomic, NextAtomic, PTL DEF Spec, AtomicSpec, Atomic!ASpec
-----------------------------------------------------------------------------
(***************************************************************************)
(* The order of messages: what AtomicChat promises of what is heard, every *)
(* stream, being a beginning of it, has too.                               *)
(***************************************************************************)
Sequences(h) == h \in [Clients -> Seq(Clients \X Int)]

\* Nothing heard is newer than what its sender has begun to say.
Numbered(h, n) ==
  \A d \in Clients : \A i \in DOMAIN h[d] :
    h[d][i][1] # d /\ h[d][i][2] <= n[h[d][i][1]]

Rising(h) ==
  \A d \in Clients : \A i, j \in DOMAIN h[d] :
    i < j /\ h[d][i][1] = h[d][j][1] => h[d][i][2] < h[d][j][2]

InOrder(h) ==
  \A d, e \in Clients : \A i, j \in DOMAIN h[d], k, l \in DOMAIN h[e] :
    h[d][i] = h[e][k] /\ h[d][j] = h[e][l] => (i < j <=> k < l)

OrderInv(h, n) == Sequences(h) /\ Numbered(h, n) /\ Rising(h) /\ InOrder(h)

\* What c says next, at the end of what others hear.
HeardBy(others, h, n, c) ==
  [d \in Clients |-> IF d \in others THEN Append(h[d], <<c, n[c] + 1>>) ELSE h[d]]

OneMore(n, c) == [n EXCEPT ![c] = @ + 1]

\* It comes after everything.
LEMMA SaysInOrder ==
  ASSUME NEW h, NEW n \in [Clients -> Int], OrderInv(h, n), NEW c \in Clients,
         NEW others \in SUBSET (Clients \ {c})
  PROVE  OrderInv(HeardBy(others, h, n, c), OneMore(n, c))
  <1> DEFINE new == <<c, n[c] + 1>>
             g == HeardBy(others, h, n, c)
             m == OneMore(n, c)
             Old(u, x) == x \in DOMAIN h[u] /\ g[u][x] = h[u][x] /\ g[u][x] # new
             Last(u, x) == u \in others /\ x = Len(h[u]) + 1 /\ g[u][x] = new
  <1> USE DEF OrderInv
  <1>1. /\ new \in Clients \X Int /\ new[1] = c /\ new[2] = n[c] + 1
        /\ m[c] = n[c] + 1 /\ \A d \in Clients : n[d] \in Int /\ m[d] \in Int /\ n[d] <= m[d]
        /\ \A d \in Clients : g[d] = IF d \in others THEN Append(h[d], new) ELSE h[d]
        /\ DOMAIN g = Clients /\ g = [d \in Clients |-> g[d]]
    BY DEF HeardBy, OneMore
  <1> HIDE DEF new, g, m
  <1>2. \A d \in Clients : /\ h[d] \in Seq(Clients \X Int) /\ Len(h[d]) \in Nat
                           /\ DOMAIN h[d] = 1..Len(h[d])
    BY LenProperties DEF Sequences
  <1>3. ASSUME NEW d \in Clients
        PROVE  /\ g[d] \in Seq(Clients \X Int)
               /\ \A i \in DOMAIN g[d] :
                    \/ i \in DOMAIN h[d] /\ g[d][i] = h[d][i]
                    \/ d \in others /\ i = Len(h[d]) + 1 /\ g[d][i] = new
    <2>1. CASE d \notin others
      BY <1>1, <1>2, <2>1
    <2>2. CASE d \in others
      <3>1. g[d] = Append(h[d], new)
        BY <1>1, <2>2
      <3>2. /\ g[d] \in Seq(Clients \X Int) /\ Len(g[d]) = Len(h[d]) + 1
            /\ \A i \in 1..Len(h[d]) : g[d][i] = h[d][i]
            /\ g[d][Len(h[d]) + 1] = new
        <4>1. new \in Clients \X Int /\ h[d] \in Seq(Clients \X Int)
          BY <1>1, <1>2
        <4> QED
          BY <3>1, <4>1, AppendProperties
      <3>3. DOMAIN g[d] = 1..(Len(h[d]) + 1)
        BY <3>2, LenProperties
      <3>4. ASSUME NEW i \in DOMAIN g[d]
            PROVE  \/ i \in DOMAIN h[d] /\ g[d][i] = h[d][i]
                   \/ d \in others /\ i = Len(h[d]) + 1 /\ g[d][i] = new
        <4>1. i \in 1..Len(h[d]) \/ i = Len(h[d]) + 1
          BY <1>2, <3>3
        <4> QED
          BY <1>2, <2>2, <3>2, <4>1
      <3> QED
        BY <3>2, <3>4
    <2> QED
      BY <2>1, <2>2
  <1>4. ASSUME NEW d \in Clients, NEW i \in DOMAIN h[d]
        PROVE  /\ i \in Int /\ i < Len(h[d]) + 1
               /\ h[d][i] \in Clients \X Int /\ h[d][i] # new
               /\ h[d][i][1] # d
               /\ h[d][i][2] <= n[h[d][i][1]] /\ h[d][i][2] <= m[h[d][i][1]]
    <2>1. i \in Int /\ i < Len(h[d]) + 1 /\ h[d][i] \in Clients \X Int
      BY <1>2
    <2>2. h[d][i][1] # d /\ h[d][i][2] <= n[h[d][i][1]]
      BY DEF Numbered
    <2>3. h[d][i][1] \in Clients /\ h[d][i][2] \in Int
      BY <2>1
    <2>4. h[d][i] # new
      BY <1>1, <2>2, <2>3
    <2>5. h[d][i][2] <= m[h[d][i][1]]
      BY <1>1, <2>2, <2>3
    <2> QED
      BY <2>1, <2>2, <2>4, <2>5
  <1>5. Sequences(g)
    <2>1. \A d \in Clients : g[d] \in Seq(Clients \X Int)
      BY <1>3
    <2> QED
      BY <1>1, <2>1 DEF Sequences
  <1>6. ASSUME NEW d \in Clients, NEW i \in DOMAIN g[d]
        PROVE  Old(d, i) \/ Last(d, i)
    BY <1>3, <1>4
  <1>7. Numbered(g, m)
    <2> SUFFICES ASSUME NEW d \in Clients, NEW i \in DOMAIN g[d]
                 PROVE  g[d][i][1] # d /\ g[d][i][2] <= m[g[d][i][1]]
      BY DEF Numbered
    <2>1. CASE Old(d, i)
      BY <1>4, <2>1
    <2>2. CASE Last(d, i)
      BY <1>1, <2>2
    <2> QED
      BY <1>6, <2>1, <2>2
  <1>8. Rising(g)
    <2> SUFFICES ASSUME NEW d \in Clients, NEW i \in DOMAIN g[d], NEW j \in DOMAIN g[d],
                        i < j, g[d][i][1] = g[d][j][1]
                 PROVE  g[d][i][2] < g[d][j][2]
      BY DEF Rising
    <2>1. Old(d, i)
      <3>1. CASE Last(d, i) /\ Last(d, j)
        BY <1>2, <3>1
      <3>2. CASE Last(d, i) /\ Old(d, j)
        BY <1>2, <1>4, <3>2
      <3> QED
        BY <1>6, <3>1, <3>2
    <2>2. CASE Old(d, j)
      BY <2>1, <2>2 DEF Rising
    <2>3. CASE Last(d, j)
      <3>1. h[d][i] \in Clients \X Int /\ h[d][i][2] <= n[h[d][i][1]]
        BY <1>4, <2>1
      <3>2. h[d][i][1] = c /\ g[d][j][2] = n[c] + 1
        BY <1>1, <2>1, <2>3
      <3>3. h[d][i][2] \in Int /\ n[c] \in Int /\ h[d][i][2] <= n[c]
        BY <1>1, <3>1, <3>2
      <3>4. h[d][i][2] < n[c] + 1
        BY <3>3
      <3> QED
        BY <2>1, <3>2, <3>4
    <2> QED
      BY <1>6, <2>2, <2>3
  <1>9. ASSUME NEW d \in Clients, NEW e \in Clients,
               NEW i \in DOMAIN g[d], NEW j \in DOMAIN g[d],
               NEW k \in DOMAIN g[e], NEW l \in DOMAIN g[e],
               g[d][i] = g[e][k], g[d][j] = g[e][l]
        PROVE  i < j <=> k < l
    <2>1. (Old(d, i) /\ Old(e, k)) \/ (Last(d, i) /\ Last(e, k))
      BY <1>6, <1>9
    <2>2. (Old(d, j) /\ Old(e, l)) \/ (Last(d, j) /\ Last(e, l))
      BY <1>6, <1>9
    <2>3. CASE Old(d, i) /\ Old(e, k) /\ Old(d, j) /\ Old(e, l)
      <3>1. h[d][i] = h[e][k] /\ h[d][j] = h[e][l]
        BY <1>9, <2>3
      <3> QED
        BY <2>3, <3>1 DEF InOrder
    <2>4. CASE Old(d, i) /\ Old(e, k) /\ Last(d, j) /\ Last(e, l)
      BY <1>4, <2>4
    <2>5. CASE Last(d, i) /\ Last(e, k) /\ Old(d, j) /\ Old(e, l)
      <3>1. j \in Int /\ j < i /\ l \in Int /\ l < k
        BY <1>4, <2>5
      <3>2. i \in Int /\ k \in Int
        BY <1>2, <2>5
      <3> QED
        BY <3>1, <3>2
    <2>6. CASE Last(d, i) /\ Last(e, k) /\ Last(d, j) /\ Last(e, l)
      BY <1>2, <2>6
    <2> QED
      BY <2>1, <2>2, <2>3, <2>4, <2>5, <2>6
  <1>10. InOrder(g)
    <2>1. \A d, e \in Clients : \A i, j \in DOMAIN g[d], k, l \in DOMAIN g[e] :
            g[d][i] = g[e][k] /\ g[d][j] = g[e][l] => (i < j <=> k < l)
      BY <1>9
    <2> QED
      BY Zenon, <2>1 DEF InOrder
  <1> QED
    BY <1>5, <1>7, <1>8, <1>10 DEF g, m

HeardInv == numberBar \in [Clients -> Int] /\ OrderInv(heardBar, numberBar)

\* AtomicChat keeps the order, whatever it is refined by.
LEMMA AtomicInOrder ==
  ASSUME HeardInv, [Atomic!ANext]_(Atomic!avars)
  PROVE  HeardInv'
  <1>1. CASE UNCHANGED <<heardBar, numberBar>>
    BY <1>1 DEF HeardInv, OrderInv, Sequences, Numbered, Rising, InOrder
  <1>2. ASSUME NEW c \in Clients, Atomic!Says(c)
        PROVE  HeardInv'
    <2>1. /\ numberBar' = OneMore(numberBar, c)
          /\ heardBar' = [d \in Clients |->
                            IF d \in Members \ {c}
                            THEN Append(heardBar[d], <<c, numberBar'[c]>>)
                            ELSE heardBar[d]]
      BY <1>2 DEF Atomic!Says, heardBar, numberBar, OneMore
    <2>2. numberBar'[c] = numberBar[c] + 1
      BY <2>1 DEF HeardInv, OneMore
    <2>3. heardBar' = HeardBy(Members \ {c}, heardBar, numberBar, c)
      BY <2>1, <2>2 DEF HeardBy
    <2>4. Members \ {c} \in SUBSET (Clients \ {c})
      BY DEF Members
    <2>5. OrderInv(heardBar', numberBar')
      <3> DEFINE others == Members \ {c}
      <3>1. OrderInv(HeardBy(others, heardBar, numberBar, c), OneMore(numberBar, c))
        <4>1. others \in SUBSET (Clients \ {c})
          BY <2>4
        <4> HIDE DEF others
        <4> QED
          BY <4>1, SaysInOrder DEF HeardInv
      <3>2. numberBar' = OneMore(numberBar, c)
        BY <2>1
      <3> HIDE DEF others
      <3> QED
        BY <2>3, <3>1, <3>2 DEF others
    <2>6. numberBar' \in [Clients -> Int]
      BY <2>1 DEF HeardInv, OneMore
    <2> QED
      BY <2>5, <2>6 DEF HeardInv, OrderInv, Sequences, Numbered, Rising, InOrder
  <1>3. ASSUME NEW c \in Clients, Atomic!SaysTooLate(c)
        PROVE  HeardInv'
    <2>1. numberBar' = OneMore(numberBar, c) /\ heardBar' = heardBar
      BY <1>3 DEF Atomic!SaysTooLate, heardBar, numberBar, OneMore
    <2> DEFINE nobody == {}
    <2>2. heardBar' = HeardBy(nobody, heardBar, numberBar, c)
      BY <2>1 DEF HeardBy, heardBar
    <2>3. OrderInv(heardBar', numberBar')
      <3>1. nobody \in SUBSET (Clients \ {c})
        OBVIOUS
      <3>2. numberBar' = OneMore(numberBar, c)
        BY <2>1
      <3>3. OrderInv(HeardBy(nobody, heardBar, numberBar, c), OneMore(numberBar, c))
        <4> HIDE DEF nobody
        <4> QED
          BY <3>1, SaysInOrder DEF HeardInv
      <3> HIDE DEF nobody
      <3> QED
        BY <2>2, <3>2, <3>3
    <2>4. numberBar' \in [Clients -> Int]
      BY <2>1 DEF HeardInv, OneMore
    <2> QED
      BY <2>3, <2>4 DEF HeardInv, OrderInv, Sequences, Numbered, Rising, InOrder
  <1> QED
    BY <1>1, <1>2, <1>3
    DEF Atomic!ANext, Atomic!avars, Atomic!Joins, Atomic!Leaves, Atomic!AllLeave,
        heardBar, numberBar

LEMMA InitHeard ==
  Init => HeardInv
  <1> SUFFICES ASSUME Init PROVE HeardInv
    OBVIOUS
  <1>1. Atomic!AInit
    BY InitAtomic
  <1>2. heardBar = [c \in Clients |-> <<>>] /\ numberBar = [c \in Clients |-> 0]
    BY <1>1 DEF Atomic!AInit, heardBar, numberBar
  <1>3. Sequences(heardBar) /\ \A d \in Clients : DOMAIN heardBar[d] = {}
    BY <1>2, EmptySeq DEF Sequences
  <1> QED
    BY <1>2, <1>3 DEF HeardInv, OrderInv, Numbered, Rising, InOrder

LEMMA HeardOrdersStreams ==
  RoomInv /\ HeardInv => SameOrder
  <1> SUFFICES ASSUME RoomInv, HeardInv PROVE SameOrder
    OBVIOUS
  <1>1. ASSUME NEW c \in Clients, NEW i \in DOMAIN stream[c]
        PROVE  i \in DOMAIN heardBar[c] /\ heardBar[c][i] = stream[c][i]
    <2>1. heardBar[c] = Heard(c) /\ stream[c] \in Seq(Clients \X Nat)
      BY DEF heardBar, RoomInv, TypeOK
    <2>2. CASE Heard(c) = stream[c]
      BY <2>1, <2>2
    <2>3. ASSUME NEW b \in Clients, Heard(c) = Append(stream[c], Message(b))
          PROVE  i \in DOMAIN Heard(c) /\ Heard(c)[i] = stream[c][i]
      <3>1. stream[c] \in Seq((Clients \X Nat) \cup {Message(b)})
        BY <2>1, SeqMonotonic
      <3>2. /\ Len(stream[c]) \in Nat /\ DOMAIN stream[c] = 1..Len(stream[c])
            /\ Heard(c) \in Seq((Clients \X Nat) \cup {Message(b)})
            /\ Len(Heard(c)) = Len(stream[c]) + 1
            /\ \A k \in 1..Len(stream[c]) : Heard(c)[k] = stream[c][k]
        <4>1. Message(b) \in (Clients \X Nat) \cup {Message(b)}
          OBVIOUS
        <4> QED
          BY <2>3, <3>1, <4>1, AppendProperties, LenProperties
      <3>3. DOMAIN Heard(c) = 1..(Len(stream[c]) + 1)
        BY <3>2, LenProperties
      <3> QED
        BY <3>2, <3>3
    <2>4. Heard(c) = stream[c] \/ \E b \in Clients : Heard(c) = Append(stream[c], Message(b))
      <3>1. CASE {b \in Clients : c \in Awaiting(b)} = {}
        BY <3>1 DEF Heard
      <3>2. CASE {b \in Clients : c \in Awaiting(b)} # {}
        <4>1. (CHOOSE b \in {b \in Clients : c \in Awaiting(b)} : TRUE) \in Clients
          BY <3>2
        <4> QED
          BY <3>2, <4>1 DEF Heard
      <3> QED
        BY <3>1, <3>2
    <2> QED
      BY <2>1, <2>2, <2>3, <2>4
  <1>2. InOrder(heardBar) /\ Rising(heardBar) /\ Numbered(heardBar, numberBar)
    BY DEF HeardInv, OrderInv
  <1>3. ASSUME NEW c \in Clients, NEW d \in Clients,
               NEW i \in DOMAIN stream[c], NEW j \in DOMAIN stream[c],
               NEW k \in DOMAIN stream[d], NEW l \in DOMAIN stream[d],
               stream[c][i] = stream[d][k], stream[c][j] = stream[d][l]
        PROVE  i < j <=> k < l
    <2>1. /\ i \in DOMAIN heardBar[c] /\ j \in DOMAIN heardBar[c]
          /\ k \in DOMAIN heardBar[d] /\ l \in DOMAIN heardBar[d]
          /\ heardBar[c][i] = heardBar[d][k] /\ heardBar[c][j] = heardBar[d][l]
      BY <1>1, <1>3
    <2> QED
      BY <1>2, <2>1 DEF InOrder
  <1>4. ASSUME NEW c \in Clients, NEW i \in DOMAIN stream[c], NEW j \in DOMAIN stream[c],
               i < j, stream[c][i][1] = stream[c][j][1]
        PROVE  stream[c][i][2] < stream[c][j][2]
    <2>1. /\ i \in DOMAIN heardBar[c] /\ j \in DOMAIN heardBar[c]
          /\ heardBar[c][i] = stream[c][i] /\ heardBar[c][j] = stream[c][j]
      BY <1>1
    <2> QED
      BY <1>2, <1>4, <2>1 DEF Rising
  <1>5. ASSUME NEW c \in Clients, NEW i \in DOMAIN stream[c]
        PROVE  stream[c][i][1] # c
    <2>1. i \in DOMAIN heardBar[c] /\ heardBar[c][i] = stream[c][i]
      BY <1>1
    <2> QED
      BY <1>2, <2>1 DEF Numbered
  <1> QED
    BY <1>3, <1>4, <1>5 DEF SameOrder

\* One order for the whole room, for any number of clients: the mutex of
\* broadcast_message (multithread_chatroom.c:66) is held to the last send.
THEOREM OrderTheorem ==
  Spec => []SameOrder
  <1>1. HeardInv /\ [Atomic!ANext]_(Atomic!avars) => HeardInv'
    BY AtomicInOrder
  <1> QED
    BY <1>1, InitRoom, RoomNext, NextAtomic, InitHeard, HeardOrdersStreams, PTL DEF Spec
=============================================================================
