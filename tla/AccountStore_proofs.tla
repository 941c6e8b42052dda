------------------------ MODULE AccountStore_proofs -------------------------
(***************************************************************************)
(* What the account file is worth, for every table of default accounts and *)
(* every file an administrator may write.  The loops over lines and        *)
(* accounts are recursive functions; that they are defined, and what they  *)
(* compute, is shown by the least index at which it would not be so.       *)
(***************************************************************************)
EXTENDS AccountStore, SequenceTheorems, WellFoundedInduction, TLAPS

Less == {pair \in Nat \X Nat : pair[1] < pair[2]}

LEMMA LeastNumber ==
  ASSUME NEW S \in SUBSET Nat, S # {}
  PROVE  \E n \in S : \A m \in S : n <= m
  <1>1. OpToRel(<, Nat) = Less
    BY Zenon DEF OpToRel, Less
  <1>2. IsWellFoundedOn(Less, Nat)
    BY <1>1, NatLessThanWellFounded
  <1>3. PICK n \in S : \A m \in S : <<m, n>> \notin Less
    BY <1>2, WFMin
  <1>4. n \in Nat /\ \A m \in S : ~(m < n)
    BY <1>3 DEF Less
  <1> QED
    BY <1>4

\* Induction up to N, over a set: what the first number has, and each next one
\* if the one before does, all of them have.
LEMMA UpTo ==
  ASSUME NEW N \in Nat, NEW S, 0 \in S,
         \A n \in 0..(N - 1) : n \in S => n + 1 \in S
  PROVE  \A n \in 0..N : n \in S
  <1> DEFINE Bad == {n \in 0..N : n \notin S}
  <1>1. SUFFICES ASSUME Bad # {} PROVE FALSE
    OBVIOUS
  <1>2. Bad \in SUBSET Nat
    OBVIOUS
  <1>3. PICK n \in Bad : \A m \in Bad : n <= m
    <2> HIDE DEF Bad
    <2> QED
      BY <1>1, <1>2, LeastNumber
  <1>4. n # 0 /\ n - 1 \in 0..(N - 1) /\ n - 1 \in 0..N
    OBVIOUS
  <1>5. n - 1 \in S
    <2>1. n - 1 \notin Bad
      <3>1. n \in Nat
        BY <1>2
      <3> HIDE DEF Bad
      <3> QED
        BY <1>3, <3>1
    <2> QED
      BY <1>4, <2>1
  <1> QED
    BY <1>4, <1>5

\* f[n] is what a loop has made of base after n of its N steps.
IsLoop(f, N, T, base, step) ==
  /\ f \in [0..N -> T] /\ f[0] = base
  /\ \A n \in 1..N : f[n] = step[n][f[n - 1]]

IsStep(step, N, T) == \A n \in 1..N : \A x \in T : step[n][x] \in T

\* A loop of N steps is defined: there is a function that says what it has made
\* after each step.
LEMMA LoopDefined ==
  ASSUME NEW N \in Nat, NEW T, NEW base \in T, NEW step, IsStep(step, N, T)
  PROVE  \E f : IsLoop(f, N, T, base, step)
  <1> USE DEF IsLoop, IsStep
  <1> DEFINE Made(m, f) == IsLoop(f, m, T, base, step)
             Good == {m \in 0..N : \E f : Made(m, f)}
  <1>1. 0 \in Good
    <2>1. Made(0, [n \in 0..0 |-> base])
      OBVIOUS
    <2>2. \E f : Made(0, f)
      BY <2>1
    <2> HIDE DEF Made
    <2> QED
      BY <2>2
  <1>2. ASSUME NEW k \in 0..(N - 1), k \in Good
        PROVE  k + 1 \in Good
    <2>1. PICK f : Made(k, f)
      BY <1>2
    <2> DEFINE m == k + 1
               g == [n \in 0..m |-> IF n = m THEN step[m][f[k]] ELSE f[n]]
    <2>2. f[k] \in T /\ step[m][f[k]] \in T /\ m \in 1..N
      BY <2>1
    <2>3. g \in [0..m -> T] /\ g[0] = base
      BY <2>1, <2>2
    <2>4. ASSUME NEW n \in 1..m
          PROVE  g[n] = step[n][g[n - 1]]
      <3>1. g[n - 1] = f[n - 1]
        BY <2>4
      <3>2. CASE n = m
        BY <3>1, <3>2
      <3>3. CASE n # m
        BY <2>1, <3>1, <3>3
      <3> QED
        BY <3>2, <3>3
    <2>5. \E h : Made(m, h)
      <3>1. Made(m, g)
        BY <2>3, <2>4
      <3> HIDE DEF Made, g
      <3> QED
        BY <3>1
    <2> HIDE DEF Made
    <2> QED
      BY <2>2, <2>5
  <1>3. \A n \in 0..N : n \in Good
    <2> HIDE DEF Good
    <2> QED
      BY <1>1, <1>2, UpTo
  <1>4. PICK f : Made(N, f)
    BY <1>3
  <1> QED
    BY <1>4
-----------------------------------------------------------------------------
(***************************************************************************)
(* The loops of load_accounts and of main.                                 *)
(***************************************************************************)
\* The step of load_accounts' loop.
Read(table, line) ==
  IF Len(table) < MAX_ACCOUNTS /\ IsAccount(line) THEN Append(table, Account(line))
  ELSE table

LEMMA ReadsLoop ==
  ASSUME NEW lines, Len(lines) \in Nat
  PROVE  /\ Reads(lines)[0] = <<>>
         /\ \A n \in 1..Len(lines) :
              Reads(lines)[n] = Read(Reads(lines)[n - 1], lines[n])
         /\ \A n \in 0..Len(lines) :
              Reads(lines)[n] \in Seq({Account(lines[m]) : m \in 1..Len(lines)})
  <1> DEFINE N == Len(lines)
             T == Seq({Account(lines[m]) : m \in 1..N})
             step == [n \in 1..N |-> [table \in T |-> Read(table, lines[n])]]
  <1>1. <<>> \in T
    BY EmptySeq
  <1>2. ASSUME NEW n \in 1..N, NEW table \in T
        PROVE  Read(table, lines[n]) \in T
    BY AppendProperties DEF Read
  <1>3. IsStep(step, N, T)
    <2> HIDE DEF T
    <2> QED
      BY <1>2 DEF IsStep
  <1>4. PICK f : /\ f \in [0..N -> T] /\ f[0] = <<>>
                 /\ \A n \in 1..N : f[n] = step[n][f[n - 1]]
    <2>1. N \in Nat
      OBVIOUS
    <2>2. \E f : IsLoop(f, N, T, <<>>, step)
      <3> HIDE DEF N, T, step
      <3> QED
        BY <1>1, <1>3, <2>1, LoopDefined
    <2> HIDE DEF N, T, step
    <2> QED
      BY <2>2 DEF IsLoop
  <1>5. \A n \in 1..N : n - 1 \in 0..N /\ f[n] = Read(f[n - 1], lines[n])
    <2>1. ASSUME NEW n \in 1..N
          PROVE  n - 1 \in 0..N /\ f[n - 1] \in T
      <3> HIDE DEF T
      <3> QED
        BY <1>4
    <2> HIDE DEF T
    <2> QED
      BY <1>4, <2>1
  <1>6. f = [n \in 0..N |-> IF n = 0 THEN <<>> ELSE Read(f[n - 1], lines[n])]
    <2> HIDE DEF T
    <2> QED
      BY <1>4, <1>5
  <1>7. \E g : g = [n \in 0..N |-> IF n = 0 THEN <<>> ELSE Read(g[n - 1], lines[n])]
    BY <1>6
  <1>8. Reads(lines) =
          [n \in 0..N |-> IF n = 0 THEN <<>> ELSE Read(Reads(lines)[n - 1], lines[n])]
    BY <1>7, Zenon DEF Reads, Read
  <1>9. /\ Reads(lines)[0] = <<>>
        /\ \A n \in 1..N : Reads(lines)[n] = Read(Reads(lines)[n - 1], lines[n])
    <2> HIDE DEF T, step
    <2> QED
      BY <1>8
  <1>10. \A n \in 0..N : Reads(lines)[n] \in T
    <2> DEFINE Typed == {n \in 0..N : Reads(lines)[n] \in T}
    <2>1. 0 \in Typed
      <3> HIDE DEF T
      <3> QED
        BY <1>1, <1>9
    <2>2. ASSUME NEW n \in 0..(N - 1), n \in Typed
          PROVE  n + 1 \in Typed
      <3>1. n + 1 \in 1..N /\ (n + 1) - 1 = n /\ Reads(lines)[n] \in T
        BY <2>2
      <3>2. Reads(lines)[n + 1] \in T
        BY <1>2, <1>9, <3>1
      <3> HIDE DEF T
      <3> QED
        BY <3>1, <3>2
    <2>3. \A n \in 0..N : n \in Typed
      <3>1. N \in Nat
        OBVIOUS
      <3> HIDE DEF N, Typed
      <3> QED
        BY <2>1, <2>2, <3>1, UpTo
    <2> QED
      BY <2>3
  <1> QED
    BY <1>9, <1>10

\* No more accounts are read than the table has room for.
LEMMA LoadBound ==
  ASSUME NEW lines, Len(lines) \in Nat
  PROVE  Len(load_accounts(lines)) <= MAX_ACCOUNTS
  <1> DEFINE N == Len(lines)
             T == Seq({Account(lines[m]) : m \in 1..N})
             Fits == {n \in 0..N : Len(Reads(lines)[n]) <= MAX_ACCOUNTS}
  <1>1. 0 \in Fits
    BY ReadsLoop, StoreAssumption
  <1>2. ASSUME NEW n \in 0..(N - 1), n \in Fits
        PROVE  n + 1 \in Fits
    <2>1. n + 1 \in 1..N /\ n + 1 \in 0..N /\ (n + 1) - 1 = n
      OBVIOUS
    <2>2. Reads(lines)[n + 1] = Read(Reads(lines)[n], lines[n + 1])
      BY <2>1, ReadsLoop
    <2>3. Reads(lines)[n] \in T
      <3>1. \A k \in 0..N : Reads(lines)[k] \in T
        BY ReadsLoop
      <3> HIDE DEF T
      <3> QED
        BY <3>1
    <2>4. Account(lines[n + 1]) \in {Account(lines[m]) : m \in 1..N}
      BY <2>1
    <2>5. Len(Read(Reads(lines)[n], lines[n + 1])) <= MAX_ACCOUNTS
      BY <1>2, <2>3, <2>4, AppendProperties, StoreAssumption DEF Read
    <2> QED
      BY <2>1, <2>2, <2>5
  <1>3. \A n \in 0..N : n \in Fits
    <2> HIDE DEF Fits
    <2> QED
      BY <1>1, <1>2, UpTo
  <1> QED
    BY <1>3 DEF load_accounts

LEMMA LoadNothing ==
  load_accounts(<<>>) = <<>>
  BY ReadsLoop DEF load_accounts

\* The least index is what its name says.
LEMMA FirstIs ==
  ASSUME NEW indices \in SUBSET Int, NEW i \in indices, \A j \in indices : i <= j
  PROVE  First(indices) = i
  <1>1. ASSUME NEW k \in indices, \A j \in indices : k <= j
        PROVE  k = i
    <2>1. k <= i /\ i <= k /\ k \in Int /\ i \in Int
      BY <1>1
    <2> QED
      BY <2>1
  <1> QED
    BY <1>1 DEF First

Record == [username : STRING, password : STRING, root_dir : STRING]

\* What strtok finds in a printed line: its three fields, in their order.
LEMMA LineIsAccount ==
  ASSUME NEW account \in Record, account.username \notin {Empty, Comment},
         account.password # Empty, account.root_dir # Empty
  PROVE  IsAccount(Line(account)) /\ Account(Line(account)) = account
  <1> DEFINE line == Line(account)
  <1>1. /\ Len(line) = 3 /\ DOMAIN line = 1..3
        /\ line[1] = account.username /\ line[2] = account.password
        /\ line[3] = account.root_dir
    BY DEF Line
  <1>2. ASSUME NEW i \in 0..2
        PROVE  strtok(line, i) = i + 1
    <2> DEFINE rest == {j \in DOMAIN line : j > i /\ line[j] # Empty} \cup {Len(line) + 1}
    <2>1. \A j \in 1..3 : line[j] # Empty
      BY <1>1
    <2>2. rest \in SUBSET Int /\ i + 1 \in rest /\ \A j \in rest : i + 1 <= j
      <3> HIDE DEF line
      <3> QED
        BY <1>1, <2>1
    <2>3. First(rest) = i + 1
      <3> HIDE DEF rest
      <3> QED
        BY <2>2, FirstIs
    <2> QED
      BY <2>3 DEF strtok
  <1>3. Username(line) = 1
    BY <1>2 DEF Username
  <1>4. Password(line) = 2
    BY <1>2, <1>3 DEF Password
  <1>5. RootDir(line) = 3
    BY <1>2, <1>4 DEF RootDir
  <1> HIDE DEF line
  <1>6. IsAccount(line)
    BY <1>1, <1>5 DEF IsAccount
  <1>7. Account(line) = account
    BY <1>1, <1>3, <1>4, <1>5 DEF Account, Record
  <1> QED
    BY <1>6, <1>7 DEF line

\* Nor is a line of the heading one.
LEMMA HeadingIsNoAccount ==
  ~IsAccount(<<Comment>>) /\ ~IsAccount(<<Empty>>)
  <1>1. ~IsAccount(<<Comment>>)
    BY DEF IsAccount
  <1> DEFINE line == <<Empty>>
  <1>2. ASSUME NEW i \in 0..2
        PROVE  strtok(line, i) = 2
    <2>1. {j \in DOMAIN line : j > i /\ line[j] # Empty} \cup {Len(line) + 1} = {2}
      OBVIOUS
    <2>2. First({2}) = 2
      BY FirstIs
    <2> QED
      BY <2>1, <2>2 DEF strtok
  <1>3. RootDir(line) = 2
    BY <1>2 DEF RootDir, Password, Username
  <1>4. ~IsAccount(line)
    BY <1>3 DEF IsAccount
  <1> QED
    BY <1>1, <1>4
-----------------------------------------------------------------------------
(***************************************************************************)
(* The default accounts, added, printed and read again.                    *)
(***************************************************************************)
LEMMA DefaultsAre ==
  ASSUME NEW n \in 1..Len(Defaults)
  PROVE  /\ Len(Defaults) \in Nat /\ DOMAIN Defaults = 1..Len(Defaults)
         /\ Defaults[n] \in Record
         /\ n - 1 \in 0..Len(Defaults)
         /\ SubSeq(Defaults, 1, n) = Append(SubSeq(Defaults, 1, n - 1), Defaults[n])
         /\ Len(SubSeq(Defaults, 1, n - 1)) = n - 1 /\ n - 1 < MAX_ACCOUNTS
  <1>1. Len(Defaults) \in Nat /\ DOMAIN Defaults = 1..Len(Defaults) /\ Defaults[n] \in Record
    <2>1. Defaults \in Seq(Record)
      BY StoreAssumption DEF Record
    <2> QED
      BY <2>1
  <1>2. SubSeq(Defaults, 1, n) = Append(SubSeq(Defaults, 1, n - 1), Defaults[n])
    BY StoreAssumption
  <1>3. Len(SubSeq(Defaults, 1, n - 1)) = n - 1 /\ n - 1 < MAX_ACCOUNTS
    BY StoreAssumption
  <1> QED
    BY <1>1, <1>2, <1>3

\* main's calls add every default account, in order.
LEMMA AddsAll ==
  Adds(Defaults)[Len(Defaults)] = Defaults
  <1> DEFINE N == Len(Defaults)
             f == [n \in 0..N |-> SubSeq(Defaults, 1, n)]
             Added == {n \in 0..N : Adds(Defaults)[n] = SubSeq(Defaults, 1, n)}
  <1>1. N \in Nat
    BY StoreAssumption
  <1>2. ASSUME NEW n \in 1..N
        PROVE  add_account(SubSeq(Defaults, 1, n - 1), Defaults[n]) = SubSeq(Defaults, 1, n)
    <2>1. ASSUME NEW i \in 1..(n - 1)
          PROVE  SubSeq(Defaults, 1, n - 1)[i].username # Defaults[n].username
      BY DefaultsAre, DefaultsAssumption, StoreAssumption
    <2>2. WithUsername(SubSeq(Defaults, 1, n - 1), Defaults[n].username) = {}
      <3>1. DOMAIN SubSeq(Defaults, 1, n - 1) = 1..(n - 1)
        BY StoreAssumption
      <3> QED
        BY <2>1, <3>1 DEF WithUsername
    <2> QED
      BY <2>2, DefaultsAre, StoreAssumption DEF add_account
  <1>3. SubSeq(Defaults, 1, 0) = <<>>
    BY StoreAssumption
  <1>4. f = [n \in 0..N |-> IF n = 0 THEN <<>> ELSE add_account(f[n - 1], Defaults[n])]
    <2>1. f[0] = <<>>
      BY <1>1, <1>3
    <2>2. ASSUME NEW n \in 1..N
          PROVE  f[n] = add_account(f[n - 1], Defaults[n])
      <3>1. f[n] = SubSeq(Defaults, 1, n)
        OBVIOUS
      <3>2. n - 1 \in 0..N
        BY <1>1
      <3>3. f[n - 1] = SubSeq(Defaults, 1, n - 1)
        BY <3>2
      <3> QED
        BY <1>2, <3>1, <3>3
    <2>3. f = [n \in 0..N |-> f[n]]
      OBVIOUS
    <2> HIDE DEF f
    <2>4. ASSUME NEW n \in 0..N
          PROVE  f[n] = IF n = 0 THEN <<>> ELSE add_account(f[n - 1], Defaults[n])
      BY <1>1, <2>1, <2>2
    <2> QED
      BY <2>3, <2>4
  <1>5. \E g : g = [n \in 0..N |-> IF n = 0 THEN <<>> ELSE add_account(g[n - 1], Defaults[n])]
    <2> HIDE DEF f
    <2> QED
      BY <1>4
  <1>6. Adds(Defaults) =
          [n \in 0..N |->
             IF n = 0 THEN <<>> ELSE add_account(Adds(Defaults)[n - 1], Defaults[n])]
    BY <1>5, Zenon DEF Adds
  <1>7. 0 \in Added
    BY <1>1, <1>3, <1>6
  <1>8. ASSUME NEW n \in 0..(N - 1), n \in Added
        PROVE  n + 1 \in Added
    <2>1. n + 1 \in 1..N /\ n + 1 \in 0..N /\ (n + 1) - 1 = n
      BY <1>1
    <2>2. Adds(Defaults)[n + 1] = add_account(Adds(Defaults)[n], Defaults[n + 1])
      BY <1>6, <2>1
    <2>3. Adds(Defaults)[n] = SubSeq(Defaults, 1, n)
      BY <1>8
    <2>4. Adds(Defaults)[n + 1] = SubSeq(Defaults, 1, n + 1)
      BY <1>2, <2>1, <2>2, <2>3
    <2> QED
      BY <2>1, <2>4
  <1>9. \A n \in 0..N : n \in Added
    <2> HIDE DEF N, Added
    <2> QED
      BY <1>1, <1>7, <1>8, UpTo
  <1> QED
    BY <1>1, <1>9, StoreAssumption

PrintedLines ==
  {<<Comment>>, <<Empty>>} \cup {Line(Defaults[i]) : i \in 1..Len(Defaults)}

\* What save_accounts has printed after its heading and some of the accounts.
IsPrinted(lines) ==
  /\ lines \in Seq(PrintedLines)
  /\ Len(lines) \in 3..(3 + Len(Defaults))
  /\ lines[1] = <<Comment>> /\ lines[2] = <<Comment>> /\ lines[3] = <<Empty>>
  /\ \A i \in 4..Len(lines) : lines[i] = Line(Defaults[i - 3])

\* Reading it back gives these accounts.
LEMMA ReadBack ==
  ASSUME NEW lines, IsPrinted(lines)
  PROVE  load_accounts(lines) = SubSeq(Defaults, 1, Len(lines) - 3)
  <1> DEFINE N == Len(lines)
             Before(n) == IF n <= 3 THEN <<>> ELSE SubSeq(Defaults, 1, n - 3)
             Right == {n \in 0..N : Reads(lines)[n] = Before(n)}
  <1>1. N \in Nat /\ N >= 3 /\ Len(Defaults) \in Nat /\ SubSeq(Defaults, 1, 0) = <<>>
    BY StoreAssumption DEF IsPrinted
  <1>2. 0 \in Right
    BY <1>1, ReadsLoop
  <1>3. ASSUME NEW n \in 0..(N - 1), n \in Right
        PROVE  n + 1 \in Right
    <2>1. n + 1 \in 1..N /\ n + 1 \in 0..N /\ (n + 1) - 1 = n
      BY <1>1
    <2>2. Reads(lines)[n + 1] = Read(Before(n), lines[n + 1])
      BY <1>1, <1>3, <2>1, ReadsLoop
    <2>3. CASE n <= 2
      <3>1. lines[n + 1] \in {<<Comment>>, <<Empty>>}
        <4>1. n + 1 = 1 \/ n + 1 = 2 \/ n + 1 = 3
          BY <1>1, <2>3
        <4>2. lines[1] = <<Comment>> /\ lines[2] = <<Comment>> /\ lines[3] = <<Empty>>
          BY DEF IsPrinted
        <4> QED
          BY <4>1, <4>2
      <3>2. Read(Before(n), lines[n + 1]) = <<>>
        BY <2>3, <3>1, HeadingIsNoAccount DEF Read
      <3> QED
        BY <2>1, <2>2, <2>3, <3>2
    <2>4. CASE n > 2
      <3> DEFINE k == n - 2
      <3>1. k \in 1..Len(Defaults) /\ n + 1 \in 4..N /\ (n + 1) - 3 = k /\ n - 3 = k - 1
        BY <1>1, <2>4 DEF IsPrinted
      <3>2. lines[n + 1] = Line(Defaults[k])
        BY <3>1 DEF IsPrinted
      <3>3. Before(n) = SubSeq(Defaults, 1, k - 1)
        BY <1>1, <2>4, <3>1
      <3>4. IsAccount(Line(Defaults[k])) /\ Account(Line(Defaults[k])) = Defaults[k]
        <4>1. Defaults[k] \in Record /\ k \in DOMAIN Defaults
          BY <3>1, DefaultsAre
        <4> HIDE DEF k
        <4> QED
          BY <4>1, LineIsAccount, DefaultsAssumption
      <3>5. Read(Before(n), lines[n + 1]) = SubSeq(Defaults, 1, k)
        <4> HIDE DEF k, Before
        <4> QED
          BY <3>1, <3>2, <3>3, <3>4, DefaultsAre DEF Read
      <3>6. Before(n + 1) = SubSeq(Defaults, 1, k)
        BY <2>4, <3>1
      <3> QED
        BY <2>1, <2>2, <3>5, <3>6
    <2> QED
      BY <2>3, <2>4
  <1>4. \A n \in 0..N : n \in Right
    <2> HIDE DEF N, Right
    <2> QED
      BY <1>1, <1>2, <1>3, UpTo
  <1>5. Reads(lines)[N] = Before(N)
    BY <1>1, <1>4
  <1> QED
    BY <1>1, <1>5 DEF load_accounts
-----------------------------------------------------------------------------
(***************************************************************************)
(* The invariant: a save writes the defaults, what a crash leaves of it is *)
(* nothing or the beginning of what it prints, and a server that serves    *)
(* has read the file, or has only the defaults.                            *)
(***************************************************************************)
Phases ==
  /\ phase \in {"down", "saving", "serving"}
  /\ Len(file) \in Nat
  /\ ~exists => ~edited

Tables ==
  /\ phase = "down" => g_accounts = <<>>
  /\ phase = "saving" => g_accounts = Defaults /\ IsPrinted(buffer) /\ exists
  /\ phase = "serving" =>
       g_accounts = IF exists THEN load_accounts(file) ELSE Defaults

Leftover == edited \/ file = <<>> \/ IsPrinted(file)

StoreInv == Phases /\ Tables /\ Leftover

LEMMA HeadingPrinted ==
  IsPrinted(Heading)
  <1>1. Heading \in Seq(PrintedLines) /\ Len(Heading) = 3
    <2>1. <<Comment>> \in PrintedLines /\ <<Empty>> \in PrintedLines
      BY DEF PrintedLines
    <2> QED
      BY <2>1 DEF Heading
  <1> QED
    BY <1>1, StoreAssumption DEF IsPrinted, Heading

LEMMA LinePrinted ==
  ASSUME IsPrinted(buffer), Len(buffer) < 3 + Len(Defaults)
  PROVE  IsPrinted(Append(buffer, Line(Defaults[Len(buffer) - 3 + 1])))
  <1> DEFINE k == Len(buffer) - 3 + 1
             line == Line(Defaults[k])
  <1>1. buffer \in Seq(PrintedLines) /\ Len(buffer) \in Nat /\ Len(buffer) >= 3 /\ k \in 1..Len(Defaults)
    BY StoreAssumption DEF IsPrinted
  <1>2. line \in PrintedLines
    BY <1>1 DEF PrintedLines
  <1>3. /\ Append(buffer, line) \in Seq(PrintedLines)
        /\ Len(Append(buffer, line)) = Len(buffer) + 1
        /\ \A i \in 1..Len(buffer) : Append(buffer, line)[i] = buffer[i]
        /\ Append(buffer, line)[Len(buffer) + 1] = line
    <2> HIDE DEF line
    <2> QED
      BY <1>1, <1>2, AppendProperties
  <1>4. \A i \in 4..(Len(buffer) + 1) : Append(buffer, line)[i] = Line(Defaults[i - 3])
    BY <1>1, <1>3 DEF IsPrinted
  <1> HIDE DEF line
  <1> QED
    BY <1>1, <1>3, <1>4 DEF IsPrinted, line

LEMMA StoreInit ==
  SInit => StoreInv
  BY DEF SInit, StoreInv, Phases, Tables, Leftover

LEMMA StoreStep ==
  StoreInv /\ [SNext]_svars => StoreInv'
  <1> SUFFICES ASSUME StoreInv, [SNext]_svars
               PROVE  StoreInv'
    OBVIOUS
  <1> USE DEF StoreInv, Phases, Tables, Leftover
  <1>1. CASE Loads
    BY <1>1 DEF Loads
  <1>2. CASE AddsDefaults
    <2>1. g_accounts' = Defaults /\ phase = "down" /\ ~exists /\ ~edited /\ ~edited'
      BY <1>2, AddsAll DEF AddsDefaults
    <2>2. CASE phase' = "saving" /\ exists' /\ file' = <<>> /\ buffer' = Heading
      <3>1. IsPrinted(buffer')
        BY <2>2, HeadingPrinted
      <3> QED
        BY <2>1, <2>2, <3>1
    <2>3. CASE phase' = "serving" /\ UNCHANGED <<exists, file, buffer>>
      <3>1. file' = file /\ (file = <<>> \/ IsPrinted(file))
        BY <2>1, <2>3
      <3> QED
        BY <2>1, <2>3, <3>1
    <2> QED
      BY <1>2, <2>2, <2>3 DEF AddsDefaults
  <1>3. CASE Prints
    <2>1. g_accounts = Defaults /\ IsPrinted(buffer) /\ Len(Heading) = 3
      BY <1>3 DEF Prints, Heading
    <2>2. IsPrinted(buffer')
      BY <1>3, <2>1, LinePrinted DEF Prints
    <2> QED
      BY <1>3, <2>2 DEF Prints
  <1>4. CASE Saved
    <2>1. g_accounts = Defaults /\ IsPrinted(buffer) /\ Len(Heading) = 3 /\ exists
      BY <1>4 DEF Saved, Heading
    <2>2. load_accounts(file') = g_accounts'
      <3>1. file' = buffer /\ g_accounts' = Defaults /\ Len(buffer) - 3 = Len(Defaults)
        BY <1>4, <2>1, StoreAssumption DEF Saved
      <3>2. SubSeq(Defaults, 1, Len(Defaults)) = Defaults
        BY StoreAssumption
      <3> QED
        BY <2>1, <3>1, <3>2, ReadBack
    <2>3. Len(file') \in Nat /\ IsPrinted(file')
      BY <1>4, <2>1 DEF Saved, IsPrinted
    <2> QED
      BY <1>4, <2>1, <2>2, <2>3 DEF Saved
  <1>5. CASE Interrupted
    <2>1. phase = "saving" => Len(buffer) \in Nat
      BY DEF IsPrinted
    <2> QED
      BY <1>5, <2>1 DEF Interrupted
  <1>6. CASE Killed
    BY <1>6 DEF Killed
  <1>7. CASE Edits
    BY <1>7, StoreAssumption DEF Edits, Files
  <1>8. CASE UNCHANGED svars
    BY <1>8 DEF svars, IsPrinted
  <1> QED
    BY <1>1, <1>2, <1>3, <1>4, <1>5, <1>6, <1>7, <1>8 DEF SNext

LEMMA StoreAlways ==
  SSpec => []StoreInv
  <1> QED
    BY StoreInit, StoreStep, PTL DEF SSpec

\* The table in memory fits its array, and is what the next start will read:
\* nothing that save_accounts wrote is lost or changed by load_accounts.
THEOREM StoreTableIsFile ==
  SSpec => []TableIsFile
  <1>1. StoreInv => TableIsFile
    <2> SUFFICES ASSUME StoreInv
                 PROVE  TableIsFile
      OBVIOUS
    <2>1. Len(file) \in Nat
      BY DEF StoreInv, Phases
    <2>2. Len(g_accounts) <= MAX_ACCOUNTS
      BY <2>1, LoadBound, StoreAssumption DEF StoreInv, Phases, Tables
    <2> QED
      BY <2>2 DEF StoreInv, Tables, TableIsFile
  <1> QED
    BY <1>1, StoreAlways, PTL

\* Whatever step a save was stopped at, the next table is the beginning of the
\* default accounts.
THEOREM StorePrefixOfDefaults ==
  SSpec => []PrefixOfDefaults
  <1>1. StoreInv => PrefixOfDefaults
    <2> SUFFICES ASSUME StoreInv, phase = "serving", ~edited
                 PROVE  IsPrefix(g_accounts, Defaults)
      BY DEF PrefixOfDefaults
    <2>1. Len(Defaults) \in Nat /\ Defaults \in Seq(Record)
      BY StoreAssumption DEF Record
    <2>2. PICK k \in 0..Len(Defaults) : g_accounts = SubSeq(Defaults, 1, k)
      <3>1. CASE ~exists
        BY <2>1, <3>1 DEF StoreInv, Tables
      <3>2. CASE exists /\ file = <<>>
        <4>1. g_accounts = <<>> /\ SubSeq(Defaults, 1, 0) = <<>>
          BY <2>1, <3>2, LoadNothing DEF StoreInv, Tables
        <4> QED
          BY <2>1, <4>1
      <3>3. CASE exists /\ IsPrinted(file)
        <4>1. g_accounts = SubSeq(Defaults, 1, Len(file) - 3)
          BY <3>3, ReadBack DEF StoreInv, Tables
        <4>2. Len(file) - 3 \in 0..Len(Defaults)
          BY <2>1, <3>3 DEF IsPrinted
        <4> QED
          BY <4>1, <4>2
      <3> QED
        BY <3>1, <3>2, <3>3 DEF StoreInv, Leftover
    <2>3. /\ Len(g_accounts) = k
          /\ SubSeq(g_accounts, 1, k) = SubSeq(Defaults, 1, k)
      BY <2>1, <2>2
    <2> QED
      BY <2>1, <2>3 DEF IsPrefix
  <1> QED
    BY <1>1, StoreAlways, PTL
=============================================================================
