-------------------------- MODULE MCThreads_proofs --------------------------
(***************************************************************************)
(* Proofs about the parts MCThreads puts side by side: P, the semaphore    *)
(* that processes share (ProcessSync), and W, the manager of workers       *)
(* (WorkerManager).  They share no variable, and a step of MCThreads is a  *)
(* step of one of them or of the thread runner, so each has an invariant   *)
(* of its own, SemaphoreInv and ManagerInv.                                *)
(*                                                                         *)
(* Sum is a recursive function on sets of processes: what the proofs use   *)
(* of it is shown by taking a smallest set for which it would fail.        *)
(***************************************************************************)
EXTENDS MCThreads, FiniteSetTheorems, SequenceTheorems, WellFoundedInduction, TLAPS

-----------------------------------------------------------------------------
(* Least elements *)

\* A set of numbers that is not empty has a least one.
LEMMA Least ==
  ASSUME NEW S \in SUBSET Nat, S # {}
  PROVE  \E n \in S : \A m \in S : n <= m
<1> DEFINE R == OpToRel(<, Nat)
<1>1. IsWellFoundedOn(R, Nat)
      BY NatLessThanWellFounded, Zenon
<1>2. \A x, y \in Nat : x < y => <<x, y>> \in R
      BY Zenon DEF OpToRel
<1> HIDE DEF R
<1>3. PICK n \in S : \A m \in S : <<m, n>> \notin R
      BY <1>1, WFMin
<1>4. \A m \in S : m \in Nat /\ n \in Nat /\ ~(m < n)
      BY <1>2, <1>3
<1> QED
  BY <1>4

LEMMA FirstIn ==
  ASSUME NEW S \in SUBSET Name, S # {}
  PROVE  W!First(S) \in S
<1>1. S \in SUBSET Nat
      BY WorkerAssumption DEF W!WorkerConstants
<1> QED
  BY <1>1, Least DEF W!First

-----------------------------------------------------------------------------
(* Sums over the processes *)

PickOf(S) == CHOOSE p \in S : TRUE
Small(n) == {S \in SUBSET Process : Cardinality(S) <= n}

\* T[S] is the sum of f over S, for the sets S in D.
Table(f, D, T) ==
  /\ T \in [D -> Int]
  /\ \A S \in D : T[S] = IF S = {} THEN 0 ELSE f[PickOf(S)] + T[S \ {PickOf(S)}]

\* A set without one of its elements is finite and smaller.
LEMMA Smaller ==
  ASSUME NEW S \in SUBSET Process
  PROVE  /\ IsFiniteSet(S) /\ Cardinality(S) \in Nat
         /\ Cardinality(S) = 0 <=> S = {}
         /\ S # {} => /\ PickOf(S) \in S
                      /\ Cardinality(S \ {PickOf(S)}) = Cardinality(S) - 1
<1>1. IsFiniteSet(S) /\ Cardinality(S) \in Nat
  <2>1. IsFiniteSet(Process)
        BY ProcessAssumption
  <2>2. IsFiniteSet(S)
        BY <2>1, FS_Subset
  <2> QED
    BY <2>2, FS_CardinalityType
<1>2. Cardinality(S) = 0 <=> S = {}
      BY <1>1, FS_EmptySet
<1>3. S # {} => PickOf(S) \in S
      BY DEF PickOf
<1>4. S # {} => Cardinality(S \ {PickOf(S)}) = Cardinality(S) - 1
      BY <1>1, <1>3, FS_RemoveElement
<1> QED
  BY <1>1, <1>2, <1>3, <1>4

\* The least set of a collection: without one of its elements it is no longer there.
LEMMA LeastSet ==
  ASSUME NEW B \in SUBSET SUBSET Process, B # {}
  PROVE  \E S \in B : S = {} \/ S \ {PickOf(S)} \notin B
<1> DEFINE N == {Cardinality(S) : S \in B}
<1>1. N \in SUBSET Nat /\ N # {}
  <2>1. \A S \in B : Cardinality(S) \in Nat
        BY Smaller
  <2> QED
    BY <2>1
<1>2. PICK n \in N : \A m \in N : n <= m
      BY <1>1, Least
<1>3. PICK S \in B : n = Cardinality(S)
      BY <1>2
<1>4. ASSUME S # {}, S \ {PickOf(S)} \in B
      PROVE  FALSE
  <2>1. n <= Cardinality(S \ {PickOf(S)})
        BY <1>2, <1>4
  <2> QED
    BY <1>3, <1>4, <2>1, Smaller
<1> QED
  BY <1>3, <1>4

\* The recursion that defines a sum has a solution on the small sets.
LEMMA PartialTable ==
  ASSUME NEW f \in [Process -> Int], NEW n \in Nat
  PROVE  \E T : Table(f, Small(n), T)
<1> DEFINE Bad == {k \in Nat : ~\E T : Table(f, Small(k), T)}
<1>1. SUFFICES ASSUME Bad # {}
               PROVE  FALSE
      OBVIOUS
<1>2. PICK k \in Bad : \A m \in Bad : k <= m
      BY <1>1, Least
<1>3. CASE k = 0
  <2> DEFINE T == [S \in Small(0) |-> 0]
  <2>1. \A S \in Small(0) : S = {}
    <3>1. \A S \in SUBSET Process : Cardinality(S) \in Nat /\ (Cardinality(S) = 0 <=> S = {})
          BY Smaller
    <3> QED
      BY <3>1 DEF Small
  <2>2. Table(f, Small(0), T)
        BY <2>1 DEF Table
  <2> QED
    BY <1>2, <1>3, <2>2
<1>4. CASE k # 0
  <2>1. k - 1 \in Nat /\ k - 1 \notin Bad /\ k \in Nat
        BY <1>2, <1>4
  <2>2. PICK T : Table(f, Small(k - 1), T)
        BY <2>1
  <2> DEFINE V == [S \in Small(k) |-> IF S = {} THEN 0
                                      ELSE f[PickOf(S)] + T[S \ {PickOf(S)}]]
  <2>3. ASSUME NEW S \in Small(k), S # {}
        PROVE  S \ {PickOf(S)} \in Small(k - 1) /\ f[PickOf(S)] \in Int
        BY <2>1, <2>3, Smaller DEF Small
  <2>4. V \in [Small(k) -> Int]
        BY <2>2, <2>3 DEF Table
  <2>5. \A S \in Small(k - 1) : S \in Small(k) /\ V[S] = T[S]
    <3>1. \A S \in Small(k - 1) : S \in Small(k)
      <4>1. \A S \in SUBSET Process : Cardinality(S) \in Nat
            BY Smaller
      <4> QED
        BY <2>1, <4>1 DEF Small
    <3> QED
      BY <2>2, <3>1 DEF Table
  <2>6. \A S \in Small(k) : V[S] = IF S = {} THEN 0 ELSE f[PickOf(S)] + V[S \ {PickOf(S)}]
        BY <2>3, <2>5
  <2>7. Table(f, Small(k), V)
        BY <2>4, <2>6 DEF Table
  <2> QED
    BY <1>2, <2>7
<1> QED
  BY <1>3, <1>4

\* P!Sum is what its definition says.
LEMMA SumTable ==
  ASSUME NEW f \in [Process -> Int]
  PROVE  \E T : Table(f, SUBSET Process, T) /\ P!Sum(f) = T[Process]
<1> DEFINE Is(T) == T = [S \in SUBSET Process |->
                           IF S = {} THEN 0
                           ELSE LET p == CHOOSE q \in S : TRUE IN f[p] + T[S \ {p}]]
<1>1. Small(Cardinality(Process)) = SUBSET Process
  <2>1. IsFiniteSet(Process)
        BY ProcessAssumption
  <2>2. \A S \in SUBSET Process : Cardinality(S) <= Cardinality(Process)
        BY <2>1, FS_Subset
  <2> QED
    BY <2>2 DEF Small
<1>2. Cardinality(Process) \in Nat
      BY Smaller
<1>3. PICK U : Table(f, SUBSET Process, U)
      BY <1>1, <1>2, PartialTable
<1>4. Is(U)
      BY <1>3 DEF Table, PickOf
<1>5. Is(CHOOSE T : Is(T))
      BY <1>4
<1>6. P!Sum(f) = (CHOOSE T : Is(T))[Process]
      BY DEF P!Sum
<1> DEFINE T == CHOOSE T : Is(T)
<1> HIDE DEF T
<1>7. Is(T) /\ P!Sum(f) = T[Process]
      BY <1>5, <1>6 DEF T
<1>8. \A S \in SUBSET Process :
        T[S] = IF S = {} THEN 0 ELSE f[PickOf(S)] + T[S \ {PickOf(S)}]
      BY <1>7 DEF PickOf
<1>9. \A S \in SUBSET Process : T[S] = U[S]
  <2> DEFINE B == {S \in SUBSET Process : T[S] # U[S]}
  <2>1. SUFFICES ASSUME B # {}
                 PROVE  FALSE
        OBVIOUS
  <2>2. PICK S \in B : S = {} \/ S \ {PickOf(S)} \notin B
        BY <2>1, LeastSet
  <2>3. S \in SUBSET Process /\ T[S] # U[S] /\ S \ {PickOf(S)} \in SUBSET Process
        BY <2>2
  <2>4. S = {} \/ T[S \ {PickOf(S)}] = U[S \ {PickOf(S)}]
        BY <2>2, <2>3
  <2> QED
    BY <1>3, <1>8, <2>3, <2>4 DEF Table
<1>10. \E V : T = [S \in SUBSET Process |-> V[S]]
  <2> DEFINE V == [S \in SUBSET Process |->
                     IF S = {} THEN 0
                     ELSE LET p == CHOOSE q \in S : TRUE IN f[p] + T[S \ {p}]]
  <2>1. T = V
        BY <1>7
  <2>2. V = [S \in SUBSET Process |-> V[S]]
        OBVIOUS
  <2> QED
    BY <2>1, <2>2
<1>11. T \in [SUBSET Process -> Int]
      BY <1>3, <1>9, <1>10 DEF Table
<1> QED
  BY <1>7, <1>8, <1>11 DEF Table

\* f[x] for x in S, of a function that is 1 in G and 0 elsewhere.
One(G) == [p \in Process |-> IF p \in G THEN 1 ELSE 0]

LEMMA SumIsInt ==
  ASSUME NEW f \in [Process -> Int]
  PROVE  P!Sum(f) \in Int
<1> QED
  BY SumTable DEF Table

\* The sum of sums.
LEMMA SumPlus ==
  ASSUME NEW f \in [Process -> Int], NEW g \in [Process -> Int], NEW h \in [Process -> Int],
         \A p \in Process : h[p] = f[p] + g[p]
  PROVE  P!Sum(h) = P!Sum(f) + P!Sum(g)
<1>1. PICK F : Table(f, SUBSET Process, F) /\ P!Sum(f) = F[Process]
      BY SumTable
<1>2. PICK G : Table(g, SUBSET Process, G) /\ P!Sum(g) = G[Process]
      BY SumTable
<1>3. PICK H : Table(h, SUBSET Process, H) /\ P!Sum(h) = H[Process]
      BY SumTable
<1> DEFINE B == {S \in SUBSET Process : H[S] # F[S] + G[S]}
<1>4. ASSUME B # {}
      PROVE  FALSE
  <2>1. PICK S \in B : S = {} \/ S \ {PickOf(S)} \notin B
        BY <1>4, LeastSet
  <2>2. S \in SUBSET Process /\ H[S] # F[S] + G[S] /\ S \ {PickOf(S)} \in SUBSET Process
        BY <2>1
  <2>3. CASE S = {}
    <3>1. H[S] = 0 /\ F[S] = 0 /\ G[S] = 0
          BY <1>1, <1>2, <1>3, <2>2, <2>3 DEF Table
    <3> QED
      BY <2>2, <3>1
  <2>4. CASE S # {}
    <3> DEFINE p == PickOf(S)
    <3> DEFINE R == S \ {p}
    <3>1. p \in Process /\ R \in SUBSET Process /\ H[R] = F[R] + G[R]
          BY <2>1, <2>2, <2>4, Smaller
    <3>2. /\ H[S] = h[p] + H[R] /\ F[S] = f[p] + F[R] /\ G[S] = g[p] + G[R]
          /\ F[R] \in Int /\ G[R] \in Int
          BY <1>1, <1>2, <1>3, <2>2, <2>4 DEF Table
    <3> HIDE DEF p, R
    <3>3. f[p] \in Int /\ g[p] \in Int /\ h[p] = f[p] + g[p]
          BY <3>1
    <3> QED
      BY <2>2, <3>1, <3>2, <3>3
  <2> QED
    BY <2>3, <2>4
<1>5. H[Process] = F[Process] + G[Process]
      BY <1>4
<1> QED
  BY <1>1, <1>2, <1>3, <1>5

\* Counting a set is summing its ones.
LEMMA SumOnes ==
  ASSUME NEW G \in SUBSET Process
  PROVE  P!Sum(One(G)) = Cardinality(G)
<1> DEFINE f == One(G)
<1>1. f \in [Process -> Int] /\ \A p \in Process : f[p] = IF p \in G THEN 1 ELSE 0
      BY DEF One
<1> HIDE DEF f
<1>2. PICK F : Table(f, SUBSET Process, F) /\ P!Sum(f) = F[Process]
      BY <1>1, SumTable
<1> DEFINE B == {S \in SUBSET Process : F[S] # Cardinality(S \cap G)}
<1>3. ASSUME B # {}
      PROVE  FALSE
  <2>1. PICK S \in B : S = {} \/ S \ {PickOf(S)} \notin B
        BY <1>3, LeastSet
  <2>2. S \in SUBSET Process /\ F[S] # Cardinality(S \cap G) /\ S \ {PickOf(S)} \in SUBSET Process
        BY <2>1
  <2>3. CASE S = {}
    <3>1. Cardinality({}) = 0
          BY FS_EmptySet
    <3> QED
      BY <1>2, <2>2, <2>3, <3>1 DEF Table
  <2>4. CASE S # {}
    <3> DEFINE p == PickOf(S)
    <3> DEFINE R == S \ {p}
    <3>1. p \in S /\ p \in Process /\ R \in SUBSET Process /\ F[R] = Cardinality(R \cap G)
          BY <2>1, <2>2, <2>4, Smaller
    <3>2. F[S] = f[p] + F[R]
          BY <1>2, <2>2, <2>4 DEF Table
    <3>3. /\ IsFiniteSet(S \cap G) /\ Cardinality(S \cap G) \in Nat
          /\ Cardinality(R \cap G) \in Nat
          BY <2>2, <3>1, Smaller
    <3>4. CASE p \in G
      <4>1. R \cap G = (S \cap G) \ {p} /\ p \in S \cap G
            BY <3>1, <3>4
      <4>2. Cardinality(R \cap G) = Cardinality(S \cap G) - 1
            BY <3>3, <4>1, FS_RemoveElement
      <4> HIDE DEF p, R
      <4> QED
        BY <1>1, <2>2, <3>1, <3>2, <3>3, <3>4, <4>2
    <3>5. CASE p \notin G
      <4>1. R \cap G = S \cap G
            BY <3>5
      <4> HIDE DEF p, R
      <4> QED
        BY <1>1, <2>2, <3>1, <3>2, <3>3, <3>5, <4>1
    <3> QED
      BY <3>4, <3>5
  <2> QED
    BY <2>3, <2>4
<1>4. F[Process] = Cardinality(Process \cap G) /\ Process \cap G = G
      BY <1>3
<1> QED
  BY <1>2, <1>4 DEF f

\* One process more or less.
LEMMA SumAt ==
  ASSUME NEW f \in [Process -> Int], NEW h \in [Process -> Int],
         NEW x \in Process, NEW d \in Int,
         h[x] = f[x] + d, \A p \in Process : p # x => h[p] = f[p]
  PROVE  P!Sum(h) = P!Sum(f) + d
<1> DEFINE g == [p \in Process |-> IF p = x THEN d ELSE 0]
<1>0. g \in [Process -> Int]
      OBVIOUS
<1>1. PICK F : Table(g, SUBSET Process, F) /\ P!Sum(g) = F[Process]
      BY <1>0, SumTable
<1> DEFINE B == {S \in SUBSET Process : F[S] # IF x \in S THEN d ELSE 0}
<1>2. ASSUME B # {}
      PROVE  FALSE
  <2>1. PICK S \in B : S = {} \/ S \ {PickOf(S)} \notin B
        BY <1>2, LeastSet
  <2>2. /\ S \in SUBSET Process /\ S \ {PickOf(S)} \in SUBSET Process
        /\ F[S] # IF x \in S THEN d ELSE 0
        BY <2>1
  <2>3. CASE S = {}
        BY <1>1, <2>2, <2>3 DEF Table
  <2>4. CASE S # {}
    <3> DEFINE p == PickOf(S)
    <3> DEFINE R == S \ {p}
    <3>1. /\ p \in S /\ p \in Process
          /\ F[R] = IF x \in R THEN d ELSE 0
          BY <2>1, <2>2, <2>4, Smaller
    <3>2. F[S] = g[p] + F[R]
          BY <1>1, <2>2, <2>4 DEF Table
    <3>3. g[p] = IF p = x THEN d ELSE 0
          BY <3>1
    <3>4. x \in R <=> x \in S /\ x # p
          OBVIOUS
    <3> HIDE DEF p, R, g
    <3> QED
      BY <2>2, <3>1, <3>2, <3>3, <3>4
  <2> QED
    BY <2>3, <2>4
<1>3. F[Process] = d
      BY <1>2
<1>4. /\ g \in [Process -> Int]
      /\ \A p \in Process : h[p] = f[p] + g[p]
      OBVIOUS
<1> HIDE DEF g
<1>5. P!Sum(h) = P!Sum(f) + P!Sum(g)
      BY <1>4, SumPlus
<1> QED
  BY <1>1, <1>3, <1>5

\* The sum of nothing.
LEMMA SumNone == P!Sum([p \in Process |-> 0]) = 0
<1>1. One({}) = [p \in Process |-> 0]
      BY DEF One
<1>2. P!Sum(One({})) = Cardinality({})
      BY SumOnes
<1> QED
  BY <1>1, <1>2, FS_EmptySet

-----------------------------------------------------------------------------
(* ComProcessMutex, ComProcessSem, ComProcessCondition: the inductive invariant *)

Place == {"off", "create", "setval", "ready", "inside", "blocked", "notify"}

SemaphoreTypes ==
  /\ id \in Nat /\ ids \in Nat /\ value \in Nat /\ base \in {0, 1}
  /\ waiting \in Seq(Process)
  /\ adjust \in [Process -> Int]
  /\ handle \in [Process -> Nat]
  /\ at \in [Process -> Place]
  /\ count \in [Process -> Nat]
  /\ disturbed \in BOOLEAN

\* No process knows a semaphore that is still to be made; without one nobody owes.
Handles ==
  /\ id <= ids /\ \A p \in Process : handle[p] <= ids
  /\ id = 0 => waiting = <<>> /\ adjust = [p \in Process |-> 0]

\* The queue holds exactly the blocked processes, each once.
Distinct(q) == \A i, j \in 1 .. Len(q) : q[i] = q[j] => i = j
Queue ==
  /\ Distinct(waiting)
  /\ \A p \in Process : p \in P!Waiters <=> at[p] = "blocked"
  /\ \A p \in P!Waiters : P!Valid(p)
  /\ \A p \in Process : at[p] = "notify" => class = "condition"

\* Exactly the processes of S owe one.
Owing(f, S) == \A p \in Process : f[p] = IF p \in S THEN 1 ELSE 0

Balance ==
  id # 0 /\ ~disturbed =>
    /\ value + P!Sum(adjust) = base
    /\ class = "mutex" => Owing(adjust, P!Holders)

SemaphoreInv == SemaphoreTypes /\ Handles /\ Queue /\ Balance

-----------------------------------------------------------------------------
(* The kernel's half *)

\* The first k processes of a queue are k.
LEMMA FirstAreMany ==
  ASSUME NEW q \in Seq(Process), Distinct(q), NEW k \in 0 .. Len(q)
  PROVE  Cardinality({q[i] : i \in 1 .. k}) = k
<1> DEFINE G == {q[i] : i \in 1 .. k}
<1> DEFINE f == [i \in 1 .. k |-> q[i]]
<1>1. f \in Bijection(1 .. k, G)
  <2>1. f \in [1 .. k -> G] /\ \A i \in 1 .. k : f[i] = q[i]
        OBVIOUS
  <2>2. \A i, j \in 1 .. k : f[i] = f[j] => i = j
        BY <2>1 DEF Distinct
  <2>3. \A x \in G : \E i \in 1 .. k : f[i] = x
        BY <2>1
  <2> HIDE DEF f, G
  <2> QED
    BY <2>1, <2>2, <2>3 DEF Bijection, Injection, IsInjective, Surjection
<1>2. IsFiniteSet(1 .. k) /\ Cardinality(1 .. k) = k
      BY FS_Interval
<1>3. ExistsBijection(1 .. k, G)
      BY <1>1 DEF ExistsBijection
<1> QED
  BY <1>2, <1>3, FS_Bijection

\* The processes of G get what they wait for, the others stay as in adj and where.
Granted(G, adj, where) ==
  \A p \in Process :
    /\ p \in G => adjust'[p] = adj[p] + 1 /\ at'[p] = P!Got
    /\ p \notin G => adjust'[p] = adj[p] /\ at'[p] = where[p]

\* What the semaphore gives to the queue q out of v: no token is lost or made, and
\* the queue goes on in order.
LEMMA Settling ==
  ASSUME NEW v \in Nat, NEW q \in Seq(Process), NEW adj \in [Process -> Int],
         NEW where \in [Process -> Place], P!Settle(v, q, adj, where), Distinct(q),
         \A p \in Process : p \in P!QueueSet(q) <=> where[p] = "blocked"
  PROVE  /\ value' \in Nat /\ waiting' \in Seq(Process) /\ Distinct(waiting')
         /\ adjust' \in [Process -> Int] /\ at' \in [Process -> Place]
         /\ \A p \in Process : p \in P!Waiters' <=> at'[p] = "blocked"
         /\ P!Waiters' \subseteq P!QueueSet(q)
         /\ \A p \in Process : at'[p] = "notify" => where[p] = "notify"
         /\ value' + P!Sum(adjust') = v + P!Sum(adj)
         /\ \E G \in SUBSET P!QueueSet(q) : Granted(G, adj, where)
<1> DEFINE k == P!AtMost(v, Len(q))
<1> DEFINE G == {q[i] : i \in 1 .. k}
<1>1. /\ value' = v - k /\ waiting' = SubSeq(q, k + 1, Len(q))
      /\ adjust' = [p \in Process |-> IF p \in G THEN adj[p] + 1 ELSE adj[p]]
      /\ at' = [p \in Process |-> IF p \in G THEN P!Got ELSE where[p]]
      BY DEF P!Settle
<1>2. k \in 0 .. Len(q) /\ k <= v /\ Len(q) \in Nat
      BY DEF P!AtMost
<1> HIDE DEF k
<1>3. /\ waiting' \in Seq(Process) /\ Len(waiting') = Len(q) - k
      /\ \A i \in 1 .. Len(q) - k : waiting'[i] = q[k + i]
  <2>1. \A i \in k + 1 .. Len(q) : q[i] \in Process
        BY <1>2
  <2>2. /\ SubSeq(q, k + 1, Len(q)) \in Seq(Process)
        /\ Len(SubSeq(q, k + 1, Len(q))) = IF k + 1 <= Len(q) THEN Len(q) - (k + 1) + 1 ELSE 0
        /\ \A i \in 1 .. Len(q) - (k + 1) + 1 : SubSeq(q, k + 1, Len(q))[i] = q[k + 1 + i - 1]
        BY <1>2, <2>1, SubSeqProperties
  <2> QED
    BY <1>1, <1>2, <2>2
<1>4. G \in SUBSET Process /\ Cardinality(G) = k
  <2>1. \A i \in 1 .. k : q[i] \in Process
        BY <1>2
  <2> QED
    BY <1>2, <2>1, FirstAreMany
<1>5. Distinct(waiting')
  <2> SUFFICES ASSUME NEW i \in 1 .. Len(q) - k, NEW j \in 1 .. Len(q) - k,
                      waiting'[i] = waiting'[j]
               PROVE  i = j
      BY <1>3 DEF Distinct
  <2>1. k + i \in 1 .. Len(q) /\ k + j \in 1 .. Len(q)
        BY <1>2
  <2>2. q[k + i] = q[k + j]
        BY <1>3
  <2>3. k + i = k + j
        BY <2>1, <2>2 DEF Distinct
  <2> QED
    BY <1>2, <2>3
<1>6. \A p \in Process : p \in P!Waiters' <=> p \in P!QueueSet(q) \ G
  <2> TAKE p \in Process
  <2>1. ASSUME p \in P!Waiters'
        PROVE  p \in P!QueueSet(q) \ G
    <3>1. PICK i \in 1 .. Len(q) - k : p = q[k + i]
          BY <1>3, <2>1 DEF P!Waiters
    <3>2. k + i \in 1 .. Len(q) /\ \A j \in 1 .. k : j # k + i /\ j \in 1 .. Len(q)
          BY <1>2
    <3> QED
      BY <3>1, <3>2 DEF P!QueueSet, Distinct
  <2>2. ASSUME p \in P!QueueSet(q) \ G
        PROVE  p \in P!Waiters'
    <3>1. PICK i \in 1 .. Len(q) : p = q[i]
          BY <2>2 DEF P!QueueSet
    <3>2. ~(i \in 1 .. k)
          BY <2>2, <3>1
    <3>3. i - k \in 1 .. Len(q) - k /\ k + (i - k) = i
          BY <1>2, <3>2
    <3>4. waiting'[i - k] = p
          BY <1>3, <3>1, <3>3
    <3> QED
      BY <1>3, <3>3, <3>4 DEF P!Waiters
  <2> QED
    BY <2>1, <2>2
<1>7. G \subseteq P!QueueSet(q)
      BY <1>2 DEF P!QueueSet
<1>8. P!Waiters' \subseteq Process
      BY <1>3 DEF P!Waiters
<1>9. P!Sum(adjust') = P!Sum(adj) + k
  <2>1. /\ One(G) \in [Process -> Int] /\ adjust' \in [Process -> Int]
        /\ \A p \in Process : adjust'[p] = adj[p] + One(G)[p]
        BY <1>1 DEF One
  <2>2. P!Sum(adjust') = P!Sum(adj) + P!Sum(One(G))
        BY <2>1, SumPlus
  <2> QED
    BY <1>4, <2>2, SumOnes
<1> HIDE DEF G
<1>10. P!Sum(adj) \in Int
      BY SumIsInt
<1>11. value' \in Nat /\ value' + P!Sum(adjust') = v + P!Sum(adj)
      BY <1>1, <1>2, <1>9, <1>10
<1>12. P!Got \in {"inside", "ready"} /\ (class = "mutex" => P!Got = "inside")
      BY DEF P!Got
<1>13. adjust' \in [Process -> Int] /\ at' \in [Process -> Place]
      BY <1>1, <1>12 DEF Place
<1>14. \A p \in Process : p \in P!Waiters' <=> at'[p] = "blocked"
      BY <1>1, <1>6, <1>7, <1>12
<1>15. \A p \in Process : at'[p] = "notify" => where[p] = "notify"
      BY <1>1, <1>12
<1>16. Granted(G, adj, where)
       BY <1>1 DEF Granted
<1> QED
  BY <1>3, <1>5, <1>6, <1>7, <1>8, <1>11, <1>13, <1>14, <1>15, <1>16

\* A process that leaves the queue: the others stay in their order.
LEMMA Leaving ==
  ASSUME SemaphoreInv, NEW p \in P!Waiters
  PROVE  /\ P!Without(p) \in Seq(Process) /\ Distinct(P!Without(p))
         /\ P!QueueSet(P!Without(p)) = P!Waiters \ {p}
<1> DEFINE i == CHOOSE i \in 1 .. Len(waiting) : waiting[i] = p
<1> DEFINE n == Len(waiting)
<1> DEFINE a == SubSeq(waiting, 1, i - 1)
<1> DEFINE b == SubSeq(waiting, i + 1, n)
<1> DEFINE w == a \o b
<1>1. i \in 1 .. n /\ waiting[i] = p /\ n \in Nat
      BY DEF P!Waiters, SemaphoreInv, SemaphoreTypes
<1>2. P!Without(p) = w
      BY DEF P!Without
<1> HIDE DEF i
<1>3. \A j \in 1 .. n : waiting[j] \in Process
      BY DEF SemaphoreInv, SemaphoreTypes
<1>4. /\ a \in Seq(Process) /\ Len(a) = i - 1
      /\ \A j \in 1 .. i - 1 : a[j] = waiting[j]
  <2>1. /\ a \in Seq(Process) /\ Len(a) = IF 1 <= i - 1 THEN i - 1 - 1 + 1 ELSE 0
        /\ \A j \in 1 .. i - 1 - 1 + 1 : a[j] = waiting[1 + j - 1]
        BY <1>1, <1>3, SubSeqProperties
  <2> QED
    BY <1>1, <2>1
<1>5. /\ b \in Seq(Process) /\ Len(b) = n - i
      /\ \A j \in 1 .. n - i : b[j] = waiting[i + j]
  <2>1. /\ b \in Seq(Process) /\ Len(b) = IF i + 1 <= n THEN n - (i + 1) + 1 ELSE 0
        /\ \A j \in 1 .. n - (i + 1) + 1 : b[j] = waiting[i + 1 + j - 1]
        BY <1>1, <1>3, SubSeqProperties
  <2> QED
    BY <1>1, <2>1
<1> HIDE DEF a, b
<1>6. /\ w \in Seq(Process) /\ Len(w) = n - 1
      /\ \A j \in 1 .. n - 1 : w[j] = IF j < i THEN waiting[j] ELSE waiting[j + 1]
  <2>1. /\ w \in Seq(Process) /\ Len(w) = Len(a) + Len(b)
        /\ \A j \in 1 .. Len(a) + Len(b) : w[j] = IF j <= Len(a) THEN a[j] ELSE b[j - Len(a)]
        BY <1>4, <1>5, ConcatProperties
  <2>2. Len(a) + Len(b) = n - 1
        BY <1>1, <1>4, <1>5
  <2> HIDE DEF w, n
  <2>3. ASSUME NEW j \in 1 .. n - 1
        PROVE  w[j] = IF j < i THEN waiting[j] ELSE waiting[j + 1]
    <3>1. CASE j < i
          BY <1>1, <1>4, <2>1, <2>2, <3>1
    <3>2. CASE ~(j < i)
      <4>1. j - (i - 1) \in 1 .. n - i /\ i + (j - (i - 1)) = j + 1 /\ ~(j <= Len(a))
            BY <1>1, <1>4, <3>2
      <4> QED
        BY <1>1, <1>4, <1>5, <2>1, <2>2, <3>2, <4>1
    <3> QED
      BY <3>1, <3>2
  <2> QED
    BY <2>1, <2>2, <2>3
<1>7. \A j, l \in 1 .. n : waiting[j] = waiting[l] => j = l
      BY DEF SemaphoreInv, Queue, Distinct
<1> HIDE DEF w, n
<1>8. Distinct(w)
  <2> SUFFICES ASSUME NEW j \in 1 .. n - 1, NEW l \in 1 .. n - 1, w[j] = w[l]
               PROVE  j = l
      BY <1>6 DEF Distinct
  <2> QED
    BY <1>1, <1>6, <1>7
<1>9. \A r : r \in P!QueueSet(w) <=> r \in P!Waiters \ {p}
  <2> TAKE r
  <2>1. ASSUME r \in P!QueueSet(w)
        PROVE  r \in P!Waiters \ {p}
    <3>1. PICK j \in 1 .. n - 1 : r = w[j]
          BY <1>6, <2>1 DEF P!QueueSet
    <3>2. PICK l \in 1 .. n : r = waiting[l] /\ l # i
          BY <1>1, <1>6, <3>1
    <3>3. r # p
          BY <1>1, <1>7, <3>2
    <3> QED
      BY <3>2, <3>3 DEF P!Waiters, n
  <2>2. ASSUME r \in P!Waiters \ {p}
        PROVE  r \in P!QueueSet(w)
    <3>1. PICK l \in 1 .. n : r = waiting[l]
          BY <2>2 DEF P!Waiters, n
    <3>2. l # i
          BY <1>1, <2>2, <3>1
    <3>3. \E j \in 1 .. n - 1 : w[j] = r
      <4>1. CASE l < i
            BY <1>1, <1>6, <3>1, <4>1
      <4>2. CASE l > i
        <5>1. l - 1 \in 1 .. n - 1 /\ ~(l - 1 < i) /\ l - 1 + 1 = l
              BY <1>1, <4>2
        <5> QED
          BY <1>6, <3>1, <5>1
      <4> QED
        BY <1>1, <3>2, <4>1, <4>2
    <3> QED
      BY <1>6, <3>3 DEF P!QueueSet
  <2> QED
    BY <2>1, <2>2
<1> QED
  BY <1>2, <1>6, <1>8, <1>9

-----------------------------------------------------------------------------
(* The operations *)

\* The types that no operation of the kernel touches, and Valid.
OthersKeep ==
  /\ id' \in Nat /\ ids' \in Nat /\ base' \in {0, 1} /\ disturbed' \in BOOLEAN
  /\ handle' \in [Process -> Nat] /\ count' \in [Process -> Nat]
  /\ id' <= ids' /\ \A p \in Process : handle'[p] <= ids'

\* A step that gives v tokens to the queue q leaves the invariant, if the sum is right
\* before it and the holders owe one before it.
LEMMA SettlingKeeps ==
  ASSUME NEW v \in Nat, NEW q \in Seq(Process), NEW adj \in [Process -> Int],
         NEW where \in [Process -> Place], P!Settle(v, q, adj, where), Distinct(q),
         \A p \in Process : p \in P!QueueSet(q) <=> where[p] = "blocked",
         \A p \in P!QueueSet(q) : P!Valid(p)',
         \A p \in Process : where[p] = "notify" => class = "condition",
         OthersKeep, class' = class,
         id' = 0 => q = <<>> /\ adj = [p \in Process |-> 0],
         id' # 0 /\ ~disturbed' =>
           /\ v + P!Sum(adj) = base'
           /\ class = "mutex" => \A p \in Process :
                adj[p] = IF where[p] = "inside" /\ P!Valid(p)' THEN 1 ELSE 0
  PROVE  SemaphoreInv'
<1> DEFINE V == {p \in Process : P!Valid(p)'}
<1>1. /\ value' \in Nat /\ waiting' \in Seq(Process) /\ Distinct(waiting')
      /\ adjust' \in [Process -> Int] /\ at' \in [Process -> Place]
      /\ \A p \in Process : p \in P!Waiters' <=> at'[p] = "blocked"
      /\ P!Waiters' \subseteq P!QueueSet(q)
      /\ \A p \in Process : at'[p] = "notify" => where[p] = "notify"
      /\ value' + P!Sum(adjust') = v + P!Sum(adj)
      BY Settling, SMTT(30)
<1>2. PICK G \in SUBSET P!QueueSet(q) : Granted(G, adj, where)
      BY Settling
<1>3. P!QueueSet(q) \subseteq V /\ V \in SUBSET Process
      BY DEF P!QueueSet
<1>4. SemaphoreTypes'
      BY <1>1 DEF SemaphoreTypes, OthersKeep
<1>5. Handles'
  <2>1. id' = 0 => waiting' = <<>> /\ adjust' = [p \in Process |-> 0]
    <3> HAVE id' = 0
    <3>1. P!QueueSet(q) = {} /\ q = <<>> /\ adj = [p \in Process |-> 0]
          BY DEF P!QueueSet
    <3>2. Len(waiting') = 0
      <4>1. ASSUME Len(waiting') # 0
            PROVE  waiting'[1] \in P!Waiters'
            BY <1>1, <4>1 DEF P!Waiters
      <4> QED
        BY <1>1, <3>1, <4>1
    <3>3. \A p \in Process : adjust'[p] = 0
          BY <1>2, <3>1 DEF Granted
    <3> QED
      BY <1>1, <3>2, <3>3, EmptySeq
  <2> QED
    BY <2>1 DEF Handles, OthersKeep
<1>6. Queue'
      BY <1>1 DEF Queue, Distinct
<1>7. Balance'
  <2>1. SUFFICES ASSUME id' # 0, ~disturbed'
                 PROVE  /\ value' + P!Sum(adjust') = base'
                        /\ class' = "mutex" => Owing(adjust', P!Holders')
        BY DEF Balance, Owing, P!Sum
  <2>2. value' + P!Sum(adjust') = base'
        BY <1>1, <2>1
  <2>3. ASSUME class = "mutex"
        PROVE  Owing(adjust', P!Holders')
    <3>1. \A p \in Process : adj[p] = IF p \in V /\ where[p] = "inside" THEN 1 ELSE 0
          BY <2>1, <2>3
    <3>2. \A p \in Process : adjust'[p] = IF p \in V /\ at'[p] = "inside" THEN 1 ELSE 0
      <4>1. P!Got = "inside" /\ \A p \in G : p \in V /\ where[p] = "blocked"
            BY <1>3, <2>3 DEF P!Got
      <4> HIDE DEF V
      <4> QED
        BY <1>2, <3>1, <4>1 DEF Granted
    <3>3. \A p \in Process : p \in P!Holders' <=> p \in V /\ at'[p] = "inside"
          BY DEF P!Holders
    <3> QED
      BY <3>2, <3>3 DEF Owing
  <2> QED
    BY <2>2, <2>3
<1> QED
  BY <1>4, <1>5, <1>6, <1>7 DEF SemaphoreInv

\* The blocked processes hold a valid handle.
LEMMA WaitersFacts ==
  ASSUME SemaphoreInv
  PROVE  /\ P!Waiters \subseteq Process /\ P!QueueSet(waiting) = P!Waiters
         /\ \A q \in P!Waiters : at[q] = "blocked" /\ P!Valid(q)
<1>1. waiting \in Seq(Process) /\ Queue
      BY DEF SemaphoreInv, SemaphoreTypes
<1>2. P!Waiters \subseteq Process /\ P!QueueSet(waiting) = P!Waiters
      BY <1>1 DEF P!Waiters, P!QueueSet
<1> QED
  BY <1>1, <1>2 DEF Queue

\* A step that leaves the semaphore alone.
LEMMA PlacesKeep ==
  ASSUME SemaphoreInv, OthersKeep, at' \in [Process -> Place],
         UNCHANGED <<class, id, value, waiting, adjust, base, disturbed>>,
         \A p \in Process : at'[p] = "blocked" <=> at[p] = "blocked",
         \A p \in Process : at'[p] = "notify" => at[p] = "notify" \/ class = "condition",
         \A p \in P!Waiters : P!Valid(p)',
         \A p \in Process : class = "mutex" =>
           (at'[p] = "inside" /\ P!Valid(p)' <=> at[p] = "inside" /\ P!Valid(p))
  PROVE  SemaphoreInv'
<1>1. SemaphoreTypes'
      BY DEF SemaphoreInv, SemaphoreTypes, OthersKeep
<1>2. Handles'
      BY DEF SemaphoreInv, Handles, OthersKeep
<1>3. Queue'
      BY DEF SemaphoreInv, Queue, Distinct, P!Waiters
<1>4. Balance'
  <2>1. P!Sum(adjust)' = P!Sum(adjust)
        BY DEF P!Sum
  <2>2. class = "mutex" => P!Holders' = P!Holders
        BY DEF P!Holders
  <2> QED
    BY <2>1, <2>2 DEF SemaphoreInv, Balance, Owing
<1> QED
  BY <1>1, <1>2, <1>3, <1>4 DEF SemaphoreInv

LEMMA LookupKeeps ==
  ASSUME SemaphoreInv, NEW p \in Process, P!initLookup(p)
  PROVE  SemaphoreInv'
<1>1. OthersKeep
      BY DEF SemaphoreInv, SemaphoreTypes, Handles, OthersKeep, P!initLookup
<1>2. at' \in [Process -> Place]
      BY DEF SemaphoreInv, SemaphoreTypes, Place, P!initLookup, P!Goto
<1>3. \A q \in Process : /\ q # p => at'[q] = at[q] /\ (P!Valid(q)' <=> P!Valid(q))
                         /\ q = p => at'[q] \in {"ready", "create"} /\ at[q] = "off"
      BY DEF SemaphoreInv, SemaphoreTypes, P!initLookup, P!Goto, P!Valid
<1>4. UNCHANGED <<class, id, value, waiting, adjust, base, disturbed>>
      BY DEF P!initLookup
<1>5. \A q \in P!Waiters : P!Valid(q)'
      BY <1>3, WaitersFacts
<1> QED
  BY <1>1, <1>2, <1>3, <1>4, <1>5, PlacesKeep

LEMMA CreateKeepsBooks ==
  ASSUME SemaphoreInv, NEW p \in Process, P!initCreate(p)
  PROVE  SemaphoreInv'
<1>1. OthersKeep
  <2>1. CASE id # 0
        BY <2>1 DEF SemaphoreInv, SemaphoreTypes, Handles, OthersKeep, P!initCreate
  <2>2. CASE id = 0
    <3>1. /\ id' = ids + 1 /\ ids' = ids + 1 /\ base' = 0 /\ disturbed' = FALSE
          /\ handle' = [handle EXCEPT ![p] = ids + 1] /\ count' = count
          BY <2>2 DEF P!initCreate
    <3>2. /\ ids \in Nat /\ handle \in [Process -> Nat] /\ count \in [Process -> Nat]
          /\ \A q \in Process : handle[q] <= ids
          BY DEF SemaphoreInv, SemaphoreTypes, Handles
    <3>3. handle' \in [Process -> Nat] /\ \A q \in Process : handle'[q] <= ids'
          BY <3>1, <3>2
    <3> QED
      BY <3>1, <3>2, <3>3 DEF OthersKeep
  <2> QED
    BY <2>1, <2>2
<1>2. /\ at' \in [Process -> Place] /\ at'[p] \in {"ready", "setval"} /\ at[p] = "create"
      /\ \A q \in Process \ {p} : at'[q] = at[q] /\ handle'[q] = handle[q]
      /\ UNCHANGED <<class, waiting, adjust>>
      BY DEF SemaphoreInv, SemaphoreTypes, Place, P!initCreate, P!Goto
<1>3. CASE id # 0
  <2>1. UNCHANGED <<id, value, base, disturbed>>
        BY <1>3 DEF P!initCreate
  <2>2. \A q \in Process \ {p} : P!Valid(q)' <=> P!Valid(q)
        BY <1>2, <2>1 DEF P!Valid
  <2>3. \A q \in P!Waiters : q # p /\ q \in Process /\ P!Valid(q)
        BY <1>2, WaitersFacts
  <2> QED
    BY <1>1, <1>2, <2>1, <2>2, <2>3, PlacesKeep
<1>4. CASE id = 0
  <2>1. /\ id' = ids + 1 /\ value' = 0 /\ base' = 0 /\ waiting = <<>>
        /\ adjust = [q \in Process |-> 0]
        BY <1>4 DEF SemaphoreInv, Handles, P!initCreate
  <2>2. P!Waiters = {} /\ P!Waiters' = {}
        BY <1>2, <2>1 DEF P!Waiters
  <2>3. \A q \in Process \ {p} : ~P!Valid(q)'
        BY <1>2, <2>1 DEF SemaphoreInv, SemaphoreTypes, Handles, P!Valid
  <2>4. SemaphoreTypes' /\ Handles' /\ Queue'
    <3>1. SemaphoreTypes'
          BY <1>1, <1>2, <2>1 DEF SemaphoreInv, SemaphoreTypes, OthersKeep
    <3>2. Handles'
          BY <1>1, <1>2, <2>1 DEF SemaphoreInv, SemaphoreTypes, Handles, OthersKeep
    <3>3. Queue'
          BY <1>2, <2>2 DEF SemaphoreInv, Queue, Distinct
    <3> QED
      BY <3>1, <3>2, <3>3
  <2>5. Balance'
    <3>1. P!Sum(adjust)' = 0
          BY <1>2, <2>1, SumNone
    <3>2. P!Holders' = {}
          BY <1>2, <2>3 DEF P!Holders
    <3> QED
      BY <1>2, <2>1, <3>1, <3>2 DEF Balance, Owing
  <2> QED
    BY <2>4, <2>5 DEF SemaphoreInv
<1> QED
  BY <1>3, <1>4

\* SETVAL clears the adjustments; with operations in progress nothing is claimed.
LEMMA SetValueKeeps ==
  ASSUME SemaphoreInv, NEW v \in {0, 1}, NEW where \in [Process -> Place],
         P!SetValue(v, where), id # 0, UNCHANGED <<class, id, ids, handle, count>>,
         \A p \in Process : where[p] = at[p] \/ (where[p] = "ready" /\ at[p] # "blocked")
  PROVE  SemaphoreInv'
<1> DEFINE adj == [p \in Process |-> 0]
<1>1. OthersKeep
      BY DEF SemaphoreInv, SemaphoreTypes, Handles, OthersKeep, P!SetValue
<1>2. P!QueueSet(waiting) = P!Waiters /\ P!Waiters \subseteq Process
      BY DEF SemaphoreInv, SemaphoreTypes, P!QueueSet, P!Waiters
<1>3. \A p \in Process : P!Valid(p)' <=> P!Valid(p)
      BY DEF P!Valid
<1>4. ASSUME ~disturbed'
      PROVE  ~disturbed /\ \A p \in Process : adjust[p] = 0
      BY <1>4 DEF P!SetValue
<1>5. ASSUME ~disturbed', class = "mutex"
      PROVE  \A p \in Process : ~(where[p] = "inside" /\ P!Valid(p)')
  <2>1. Owing(adjust, P!Holders)
        BY <1>4, <1>5 DEF SemaphoreInv, Balance
  <2>2. \A p \in Process : p \notin P!Holders
        BY <1>4, <1>5, <2>1 DEF Owing
  <2> QED
    BY <1>3, <2>2 DEF P!Holders
<1>6. v + P!Sum(adj) = base'
      BY SumNone DEF P!SetValue
<1>7. /\ v \in Nat /\ waiting \in Seq(Process) /\ adj \in [Process -> Int] /\ Distinct(waiting)
      /\ P!Settle(v, waiting, adj, where) /\ id' # 0 /\ class' = class
      /\ \A p \in Process : p \in P!QueueSet(waiting) <=> where[p] = "blocked"
      /\ \A p \in P!QueueSet(waiting) : P!Valid(p)'
      /\ \A p \in Process : where[p] = "notify" => class = "condition"
      BY <1>2, <1>3 DEF SemaphoreInv, SemaphoreTypes, Queue, P!SetValue
<1>8. class = "mutex" /\ ~disturbed' => \A p \in Process :
        adj[p] = IF where[p] = "inside" /\ P!Valid(p)' THEN 1 ELSE 0
      BY <1>5
<1> HIDE DEF adj
<1> QED
  BY <1>1, <1>6, <1>7, <1>8, SettlingKeeps

LEMMA SetvalKeeps ==
  ASSUME SemaphoreInv, NEW p \in Process, P!initSetval(p)
  PROVE  SemaphoreInv'
<1>1. at[p] = "setval" /\ UNCHANGED <<class, id, ids, handle, count>>
      BY DEF P!initSetval
<1>2. CASE P!Valid(p)
  <2> DEFINE where == [at EXCEPT ![p] = "ready"]
  <2>1. P!SetValue(1, where) /\ id # 0
        BY <1>2 DEF P!initSetval, P!Valid
  <2>2. where \in [Process -> Place]
        BY DEF SemaphoreInv, SemaphoreTypes, Place
  <2>3. \A q \in Process : where[q] = at[q] \/ (where[q] = "ready" /\ at[q] # "blocked")
        BY <1>1 DEF SemaphoreInv, SemaphoreTypes
  <2> HIDE DEF where
  <2> QED
    BY <1>1, <2>1, <2>2, <2>3, SetValueKeeps
<1>3. CASE ~P!Valid(p)
  <2>1. /\ at' = [at EXCEPT ![p] = "ready"]
        /\ UNCHANGED <<value, waiting, adjust, base, disturbed>>
        BY <1>3 DEF P!initSetval, P!Goto
  <2>2. at' \in [Process -> Place] /\ OthersKeep
        BY <1>1, <2>1 DEF SemaphoreInv, SemaphoreTypes, Handles, OthersKeep, Place
  <2>3. \A q \in Process : /\ q # p => at'[q] = at[q]
                           /\ q = p => at'[q] = "ready"
                           /\ P!Valid(q)' <=> P!Valid(q)
        BY <1>1, <2>1 DEF SemaphoreInv, SemaphoreTypes, P!Valid
  <2>4. \A q \in P!Waiters : P!Valid(q)'
        BY <1>1, <2>3, WaitersFacts
  <2> QED
    BY <1>1, <2>1, <2>2, <2>3, <2>4, PlacesKeep
<1> QED
  BY <1>2, <1>3

LEMMA ResetKeeps ==
  ASSUME SemaphoreInv, NEW p \in Process, NEW v \in {0, 1}, P!reset(p, v)
  PROVE  SemaphoreInv'
<1>1. P!SetValue(v, at) /\ id # 0 /\ UNCHANGED <<class, id, ids, handle, count>>
      BY DEF P!reset, P!Valid
<1>2. at \in [Process -> Place]
      BY DEF SemaphoreInv, SemaphoreTypes
<1> QED
  BY <1>1, <1>2, SetValueKeeps

LEMMA UninitKeeps ==
  ASSUME SemaphoreInv, NEW p \in Process, NEW destroy \in BOOLEAN, P!uninit(p, destroy)
  PROVE  SemaphoreInv'
<1>1. /\ at[p] = "ready" /\ handle' = [handle EXCEPT ![p] = 0]
      /\ UNCHANGED <<class, ids, count, inits, base, disturbed>>
      BY DEF P!uninit
<1>2. CASE destroy /\ P!Valid(p)
  <2>1. /\ id' = 0 /\ value' = 0 /\ waiting' = <<>> /\ adjust' = [q \in Process |-> 0]
        /\ at' = [q \in Process |-> IF q = p THEN "off"
                                    ELSE IF q \in P!Waiters THEN "ready" ELSE at[q]]
        BY <1>2 DEF P!uninit
  <2>2. SemaphoreTypes' /\ Handles'
        BY <1>1, <2>1 DEF SemaphoreInv, SemaphoreTypes, Handles, Place
  <2>3. Queue'
    <3>1. P!Waiters' = {} /\ Distinct(waiting')
          BY <2>1 DEF P!Waiters, Distinct
    <3>2. \A q \in Process : at'[q] # "blocked" /\ (at'[q] = "notify" => at[q] = "notify")
          BY <2>1 DEF SemaphoreInv, Queue
    <3> QED
      BY <1>1, <3>1, <3>2 DEF SemaphoreInv, Queue
  <2>4. Balance'
        BY <2>1 DEF Balance
  <2> QED
    BY <2>2, <2>3, <2>4 DEF SemaphoreInv
<1>3. CASE ~(destroy /\ P!Valid(p))
  <2>1. at' = [at EXCEPT ![p] = "off"] /\ UNCHANGED <<id, value, waiting, adjust>>
        BY <1>3 DEF P!uninit, P!Goto
  <2>2. at' \in [Process -> Place] /\ OthersKeep
        BY <1>1, <2>1 DEF SemaphoreInv, SemaphoreTypes, Handles, OthersKeep, Place
  <2>3. \A q \in Process : /\ q # p => at'[q] = at[q] /\ (P!Valid(q)' <=> P!Valid(q))
                           /\ q = p => at'[q] = "off" /\ at[q] = "ready"
        BY <1>1, <2>1 DEF SemaphoreInv, SemaphoreTypes, P!Valid
  <2>4. \A q \in P!Waiters : P!Valid(q)'
        BY <1>1, <2>3, WaitersFacts
  <2> QED
    BY <1>1, <2>1, <2>2, <2>3, <2>4, PlacesKeep
<1> QED
  BY <1>2, <1>3

\* An operation that no handle changes with.
LEMMA SameHandles ==
  ASSUME SemaphoreInv, UNCHANGED <<class, id, ids, handle, base, disturbed>>,
         count' \in [Process -> Nat]
  PROVE  OthersKeep /\ \A q \in Process : P!Valid(q)' <=> P!Valid(q)
<1>1. OthersKeep
      BY DEF SemaphoreInv, SemaphoreTypes, Handles, OthersKeep
<1> QED
  BY <1>1 DEF P!Valid

\* semop(-1): the token is there, or the process joins the queue.
LEMMA TakeKeepsBooks ==
  ASSUME SemaphoreInv, NEW p \in Process, P!take(p)
  PROVE  SemaphoreInv'
<1>1. /\ at[p] = "ready" /\ P!Valid(p)
      /\ UNCHANGED <<class, id, ids, handle, count, base, disturbed>>
      BY DEF P!take
<1>2. /\ value \in Nat /\ waiting \in Seq(Process) /\ adjust \in [Process -> Int]
      /\ at \in [Process -> Place] /\ count \in [Process -> Nat] /\ Queue
      BY DEF SemaphoreInv, SemaphoreTypes
<1>3. OthersKeep /\ \A q \in Process : P!Valid(q)' <=> P!Valid(q)
      BY <1>1, <1>2, SameHandles
<1>4. CASE value > 0
  <2> DEFINE adj == [adjust EXCEPT ![p] = @ + 1]
  <2> DEFINE where == [at EXCEPT ![p] = P!Got]
  <2>1. P!Settle(value - 1, waiting, adj, where)
        BY <1>4 DEF P!take
  <2>2. /\ P!Got \in {"inside", "ready"} /\ (class = "mutex" => P!Got = "inside")
        /\ adj \in [Process -> Int] /\ where \in [Process -> Place] /\ value - 1 \in Nat
        BY <1>2, <1>4 DEF P!Got, Place
  <2>3. \A q \in Process : /\ q # p => where[q] = at[q] /\ adj[q] = adjust[q]
                           /\ q = p => where[q] = P!Got /\ adj[q] = adjust[p] + 1
        BY <1>2
  <2>4. P!Sum(adj) = P!Sum(adjust) + 1
    <3> HIDE DEF adj, where
    <3>1. \A d \in Int : adj[p] = adjust[p] + d => P!Sum(adj) = P!Sum(adjust) + d
          BY <1>2, <2>2, <2>3, SumAt
    <3> QED
      BY <2>3, <3>1
  <2> HIDE DEF adj, where
  <2>5. /\ \A q \in Process : q \in P!QueueSet(waiting) <=> where[q] = "blocked"
        /\ \A q \in P!QueueSet(waiting) : P!Valid(q)'
        /\ \A q \in Process : where[q] = "notify" => class = "condition"
    <3>1. P!QueueSet(waiting) = P!Waiters /\ P!Waiters \subseteq Process
          BY WaitersFacts
    <3> QED
      BY <1>1, <1>2, <1>3, <2>2, <2>3, <3>1 DEF Queue
  <2>6. ASSUME ~disturbed'
        PROVE  /\ value - 1 + P!Sum(adj) = base'
               /\ class = "mutex" => \A q \in Process :
                    adj[q] = IF where[q] = "inside" /\ P!Valid(q)' THEN 1 ELSE 0
    <3>1. /\ value + P!Sum(adjust) = base /\ P!Sum(adjust) \in Int
          /\ class = "mutex" => Owing(adjust, P!Holders)
          BY <1>1, <1>2, <2>6, SumIsInt DEF SemaphoreInv, Balance, P!Valid
    <3>2. value - 1 + P!Sum(adj) = base'
          BY <1>1, <1>2, <2>4, <3>1
    <3>3. ASSUME class = "mutex", NEW q \in Process
          PROVE  adj[q] = IF where[q] = "inside" /\ P!Valid(q)' THEN 1 ELSE 0
      <4>1. adjust[q] = IF at[q] = "inside" /\ P!Valid(q) THEN 1 ELSE 0
            BY <3>1, <3>3 DEF Owing, P!Holders
      <4> QED
        BY <1>1, <1>3, <2>2, <2>3, <3>3, <4>1
    <3> QED
      BY <3>2, <3>3
  <2>7. id' # 0
        BY <1>1 DEF P!Valid
  <2> QED
    BY <1>1, <1>2, <1>3, <2>1, <2>2, <2>5, <2>6, <2>7, SettlingKeeps DEF Queue
<1>5. CASE ~(value > 0)
  <2>1. /\ waiting' = Append(waiting, p) /\ at' = [at EXCEPT ![p] = "blocked"]
        /\ UNCHANGED <<value, adjust>>
        BY <1>5 DEF P!take, P!Goto
  <2>2. /\ waiting' \in Seq(Process) /\ Len(waiting') = Len(waiting) + 1
        /\ \A i \in 1 .. Len(waiting) : waiting'[i] = waiting[i]
        /\ waiting'[Len(waiting) + 1] = p /\ Len(waiting) \in Nat
        BY <1>2, <2>1
  <2>3. P!Waiters' = P!Waiters \cup {p}
    <3>1. P!Waiters' = {waiting'[i] : i \in 1 .. Len(waiting) + 1}
          BY <2>2 DEF P!Waiters
    <3>2. P!Waiters = {waiting[i] : i \in 1 .. Len(waiting)}
          BY DEF P!Waiters
    <3>3. 1 .. Len(waiting) + 1 = (1 .. Len(waiting)) \cup {Len(waiting) + 1}
          BY <2>2
    <3> QED
      BY <2>2, <3>1, <3>2, <3>3
  <2>4. \A i \in 1 .. Len(waiting) : waiting[i] # p
        BY <1>1, <1>2, WaitersFacts DEF P!Waiters
  <2>5. Distinct(waiting')
    <3> SUFFICES ASSUME NEW i \in 1 .. Len(waiting) + 1, NEW j \in 1 .. Len(waiting) + 1,
                        waiting'[i] = waiting'[j]
                 PROVE  i = j
        BY <2>2 DEF Distinct
    <3>1. \A k \in 1 .. Len(waiting) + 1 : k \in 1 .. Len(waiting) \/ k = Len(waiting) + 1
          BY <2>2
    <3>2. \A k, l \in 1 .. Len(waiting) : waiting[k] = waiting[l] => k = l
          BY <1>2 DEF Queue, Distinct
    <3> QED
      BY <2>2, <2>4, <3>1, <3>2
  <2>6. \A q \in Process : /\ q # p => at'[q] = at[q]
                           /\ q = p => at'[q] = "blocked"
        BY <1>2, <2>1
  <2>7. at' \in [Process -> Place]
        BY <1>2, <2>1 DEF Place
  <2>8. SemaphoreTypes'
        BY <1>2, <1>3, <2>1, <2>2, <2>7 DEF SemaphoreTypes, OthersKeep
  <2>9. Handles'
        BY <1>1, <1>3 DEF Handles, OthersKeep, P!Valid
  <2>10. Queue'
    <3>1. \A q \in Process : q \in P!Waiters' <=> at'[q] = "blocked"
          BY <1>2, <2>3, <2>6 DEF Queue
    <3>2. \A q \in P!Waiters' : P!Valid(q)'
          BY <1>1, <1>3, <2>3, WaitersFacts
    <3>3. \A q \in Process : at'[q] = "notify" => class' = "condition"
          BY <1>1, <1>2, <2>6 DEF Queue
    <3> QED
      BY <2>5, <3>1, <3>2, <3>3 DEF Queue
  <2>11. Balance'
    <3>1. P!Sum(adjust)' = P!Sum(adjust)
          BY <2>1 DEF P!Sum
    <3>2. P!Holders' = P!Holders
          BY <1>1, <1>3, <2>6 DEF P!Holders
    <3> QED
      BY <1>1, <2>1, <3>1, <3>2 DEF SemaphoreInv, Balance, Owing
  <2> QED
    BY <2>8, <2>9, <2>10, <2>11 DEF SemaphoreInv
<1> QED
  BY <1>4, <1>5

\* semop(+n): who gives owes n less, and a holder of the mutex owes no more.
LEMMA GivingKeeps ==
  ASSUME SemaphoreInv, NEW p \in Process, NEW n \in Nat,
         at[p] \in {"ready", "inside", "notify"},
         class = "mutex" => at[p] = "inside" /\ n = 1,
         IF P!Valid(p)
         THEN P!Settle(value + n, waiting, [adjust EXCEPT ![p] = @ - n],
                       [at EXCEPT ![p] = "ready"])
         ELSE P!Goto(p, "ready") /\ UNCHANGED <<value, waiting, adjust>>,
         UNCHANGED <<class, id, ids, handle, base, disturbed>>, count' \in [Process -> Nat]
  PROVE  SemaphoreInv'
<1>1. /\ value \in Nat /\ waiting \in Seq(Process) /\ adjust \in [Process -> Int]
      /\ at \in [Process -> Place] /\ Queue
      BY DEF SemaphoreInv, SemaphoreTypes
<1>2. OthersKeep /\ \A q \in Process : P!Valid(q)' <=> P!Valid(q)
      BY SameHandles
<1> DEFINE where == [at EXCEPT ![p] = "ready"]
<1>3. /\ where \in [Process -> Place]
      /\ \A q \in Process : /\ q # p => where[q] = at[q]
                            /\ q = p => where[q] = "ready"
      BY <1>1 DEF Place
<1>4. CASE P!Valid(p)
  <2> DEFINE adj == [adjust EXCEPT ![p] = @ - n]
  <2>1. P!Settle(value + n, waiting, adj, where)
        BY <1>4
  <2>2. /\ adj \in [Process -> Int] /\ value + n \in Nat
        /\ \A q \in Process : /\ q # p => adj[q] = adjust[q]
                              /\ q = p => adj[q] = adjust[p] + (-n)
        BY <1>1
  <2>3. P!Sum(adj) = P!Sum(adjust) + (-n)
    <3> HIDE DEF adj
    <3>1. \A d \in Int : adj[p] = adjust[p] + d => P!Sum(adj) = P!Sum(adjust) + d
          BY <1>1, <2>2, SumAt
    <3> QED
      BY <2>2, <3>1
  <2> HIDE DEF adj, where
  <2>4. /\ \A q \in Process : q \in P!QueueSet(waiting) <=> where[q] = "blocked"
        /\ \A q \in P!QueueSet(waiting) : P!Valid(q)'
        /\ \A q \in Process : where[q] = "notify" => class = "condition"
    <3>1. P!QueueSet(waiting) = P!Waiters /\ P!Waiters \subseteq Process
          BY WaitersFacts
    <3> QED
      BY <1>1, <1>2, <1>3, <3>1 DEF Queue
  <2>5. ASSUME ~disturbed'
        PROVE  /\ value + n + P!Sum(adj) = base'
               /\ class = "mutex" => \A q \in Process :
                    adj[q] = IF where[q] = "inside" /\ P!Valid(q)' THEN 1 ELSE 0
    <3>1. /\ value + P!Sum(adjust) = base /\ P!Sum(adjust) \in Int
          /\ class = "mutex" => Owing(adjust, P!Holders)
          BY <1>1, <1>4, <2>5, SumIsInt DEF SemaphoreInv, Balance, P!Valid
    <3>2. value + n + P!Sum(adj) = base'
          BY <1>1, <2>3, <3>1
    <3>3. ASSUME class = "mutex", NEW q \in Process
          PROVE  adj[q] = IF where[q] = "inside" /\ P!Valid(q)' THEN 1 ELSE 0
      <4>1. adjust[q] = IF at[q] = "inside" /\ P!Valid(q) THEN 1 ELSE 0
            BY <3>1, <3>3 DEF Owing, P!Holders
      <4> QED
        BY <1>2, <1>3, <1>4, <2>2, <3>3, <4>1
    <3> QED
      BY <3>2, <3>3
  <2>6. id' # 0
        BY <1>4 DEF P!Valid
  <2> QED
    BY <1>1, <1>2, <1>3, <2>1, <2>2, <2>4, <2>5, <2>6, SettlingKeeps DEF Queue
<1>5. CASE ~P!Valid(p)
  <2>1. at' = where /\ UNCHANGED <<value, waiting, adjust>>
        BY <1>5 DEF P!Goto
  <2> HIDE DEF where
  <2>2. \A q \in P!Waiters : P!Valid(q)'
        BY <1>2, WaitersFacts
  <2> QED
    BY <1>2, <1>3, <1>5, <2>1, <2>2, PlacesKeep
<1> QED
  BY <1>4, <1>5

LEMMA UnlockKeeps ==
  ASSUME SemaphoreInv, NEW p \in Process, P!unlock(p) \/ P!post(p)
  PROVE  SemaphoreInv'
<1>1. /\ at[p] \in {"ready", "inside"} /\ (class = "mutex" => at[p] = "inside")
      /\ P!give(p)
      BY DEF P!unlock, P!post
<1>2. count \in [Process -> Nat]
      BY DEF SemaphoreInv, SemaphoreTypes
<1> QED
  BY <1>1, <1>2, GivingKeeps DEF P!give

LEMMA NotifyPostKeeps ==
  ASSUME SemaphoreInv, NEW p \in Process, P!notifyPost(p)
  PROVE  SemaphoreInv'
<1>1. at[p] = "notify" /\ class = "condition"
      BY DEF SemaphoreInv, Queue, P!notifyPost
<1>2. count[p] \in Nat /\ count' \in [Process -> Nat]
      BY DEF SemaphoreInv, SemaphoreTypes, P!notifyPost
<1> QED
  BY <1>1, <1>2, GivingKeeps DEF P!notifyPost

LEMMA NotifyCountKeeps ==
  ASSUME SemaphoreInv, NEW p \in Process, NEW all \in BOOLEAN, P!notifyCount(p, all)
  PROVE  SemaphoreInv'
<1>1. /\ class = "condition" /\ at[p] = "ready" /\ at' = [at EXCEPT ![p] = "notify"]
      /\ UNCHANGED <<class, id, ids, value, waiting, adjust, handle, base, disturbed>>
      BY DEF P!notifyCount, P!Goto
<1>2. at \in [Process -> Place] /\ at' \in [Process -> Place] /\ count' \in [Process -> Nat]
      BY <1>1 DEF SemaphoreInv, SemaphoreTypes, Place, P!notifyCount
<1>3. OthersKeep /\ \A q \in Process : P!Valid(q)' <=> P!Valid(q)
      BY <1>1, <1>2, SameHandles
<1>4. \A q \in Process : /\ q # p => at'[q] = at[q]
                         /\ q = p => at'[q] = "notify"
      BY <1>1, <1>2
<1>5. \A q \in P!Waiters : P!Valid(q)'
      BY <1>3, WaitersFacts
<1> QED
  BY <1>1, <1>2, <1>3, <1>4, <1>5, PlacesKeep

LEMMA TimeoutKeeps ==
  ASSUME SemaphoreInv, NEW p \in Process, P!waitTimeout(p)
  PROVE  SemaphoreInv'
<1>1. /\ class # "mutex" /\ at[p] = "blocked" /\ at' = [at EXCEPT ![p] = "ready"]
      /\ waiting' = P!Without(p)
      /\ UNCHANGED <<class, id, ids, value, adjust, handle, count, base, disturbed>>
      BY DEF P!waitTimeout, P!Goto
<1>2. at \in [Process -> Place] /\ count \in [Process -> Nat] /\ Queue
      BY DEF SemaphoreInv, SemaphoreTypes
<1>3. OthersKeep /\ \A q \in Process : P!Valid(q)' <=> P!Valid(q)
      BY <1>1, <1>2, SameHandles
<1>4. p \in P!Waiters
      BY <1>1, <1>2 DEF Queue
<1>5. /\ waiting' \in Seq(Process) /\ Distinct(waiting')
      /\ P!QueueSet(P!Without(p)) = P!Waiters \ {p}
      BY <1>1, <1>4, Leaving
<1>6. P!Waiters' = P!Waiters \ {p}
      BY <1>1, <1>5 DEF P!Waiters, P!QueueSet
<1>7. \A q \in Process : /\ q # p => at'[q] = at[q]
                         /\ q = p => at'[q] = "ready"
      BY <1>1, <1>2
<1>8. at' \in [Process -> Place]
      BY <1>1, <1>2 DEF Place
<1>9. SemaphoreTypes'
      BY <1>1, <1>3, <1>5, <1>8 DEF SemaphoreInv, SemaphoreTypes, OthersKeep
<1>10. id # 0
       BY <1>4, WaitersFacts DEF P!Valid
<1>11. Handles'
       BY <1>1, <1>3, <1>10 DEF Handles, OthersKeep
<1>12. Queue'
  <2>1. \A q \in Process : q \in P!Waiters' <=> at'[q] = "blocked"
        BY <1>2, <1>6, <1>7 DEF Queue
  <2>2. \A q \in P!Waiters' : P!Valid(q)'
        BY <1>3, <1>6, WaitersFacts
  <2>3. \A q \in Process : at'[q] = "notify" => class' = "condition"
        BY <1>1, <1>2, <1>7 DEF Queue
  <2> QED
    BY <1>5, <2>1, <2>2, <2>3 DEF Queue
<1>13. Balance'
  <2>1. P!Sum(adjust)' = P!Sum(adjust)
        BY <1>1 DEF P!Sum
  <2> QED
    BY <1>1, <2>1 DEF SemaphoreInv, Balance
<1> QED
  BY <1>9, <1>11, <1>12, <1>13 DEF SemaphoreInv

\* The kernel adds what a dead process owes to the value; nothing is lost unless that
\* would fall below 0.
LEMMA DieKeeps ==
  ASSUME SemaphoreInv, NEW p \in Process, P!die(p)
  PROVE  SemaphoreInv'
<1> DEFINE v == IF value + adjust[p] < 0 THEN 0 ELSE value + adjust[p]
<1> DEFINE q == IF p \in P!Waiters THEN P!Without(p) ELSE waiting
<1> DEFINE adj == [adjust EXCEPT ![p] = 0]
<1> DEFINE where == [at EXCEPT ![p] = "off"]
<1>1. /\ P!Settle(v, q, adj, where)
      /\ disturbed' = (disturbed \/ value + adjust[p] < 0)
      /\ handle' = [handle EXCEPT ![p] = 0] /\ count' = [count EXCEPT ![p] = 0]
      /\ UNCHANGED <<class, id, ids, base>>
      BY DEF P!die
<1>2. /\ value \in Nat /\ waiting \in Seq(Process) /\ adjust \in [Process -> Int]
      /\ at \in [Process -> Place] /\ handle \in [Process -> Nat]
      /\ count \in [Process -> Nat] /\ disturbed \in BOOLEAN /\ Queue
      BY DEF SemaphoreInv, SemaphoreTypes
<1>3. /\ v \in Nat /\ adj \in [Process -> Int] /\ where \in [Process -> Place]
      /\ \A r \in Process : /\ r # p => adj[r] = adjust[r] /\ where[r] = at[r]
                            /\ r = p => adj[r] = 0 /\ where[r] = "off"
      BY <1>2 DEF Place
<1>4. /\ q \in Seq(Process) /\ Distinct(q) /\ P!QueueSet(q) = P!Waiters \ {p}
      /\ p \notin P!Waiters => q = waiting
  <2>1. CASE p \in P!Waiters
        BY <2>1, Leaving
  <2>2. CASE p \notin P!Waiters
        BY <1>2, <2>2, WaitersFacts DEF Queue
  <2> QED
    BY <2>1, <2>2
<1>5. P!Sum(adj) = P!Sum(adjust) + (0 - adjust[p]) /\ P!Sum(adjust) \in Int
  <2>1. 0 - adjust[p] \in Int /\ adj[p] = adjust[p] + (0 - adjust[p])
        BY <1>2, <1>3
  <2> HIDE DEF adj, where, v, q
  <2>2. \A d \in Int : adj[p] = adjust[p] + d => P!Sum(adj) = P!Sum(adjust) + d
        BY <1>2, <1>3, SumAt
  <2> QED
    BY <1>2, <2>1, <2>2, SumIsInt
<1>6. OthersKeep
  <2>1. handle' \in [Process -> Nat] /\ count' \in [Process -> Nat] /\ disturbed' \in BOOLEAN
        BY <1>1, <1>2
  <2>2. \A r \in Process : handle'[r] = handle[r] \/ handle'[r] = 0
        BY <1>1, <1>2
  <2>3. /\ id \in Nat /\ ids \in Nat /\ base \in {0, 1} /\ id <= ids
        /\ \A r \in Process : handle[r] <= ids
        BY DEF SemaphoreInv, SemaphoreTypes, Handles
  <2>4. \A r \in Process : handle'[r] <= ids
        BY <2>2, <2>3
  <2> QED
    BY <1>1, <2>1, <2>3, <2>4 DEF OthersKeep
<1>7. \A r \in Process \ {p} : P!Valid(r)' <=> P!Valid(r)
      BY <1>1, <1>2 DEF P!Valid
<1>8. id' = 0 => q = <<>> /\ adj = [r \in Process |-> 0]
  <2> HAVE id' = 0
  <2>1. waiting = <<>> /\ adjust = [r \in Process |-> 0] /\ p \notin P!Waiters
        BY <1>1, WaitersFacts DEF SemaphoreInv, Handles, P!Valid
  <2> QED
    BY <1>4, <2>1
<1> HIDE DEF q, adj, where
<1>9. /\ \A r \in Process : r \in P!QueueSet(q) <=> where[r] = "blocked"
      /\ \A r \in P!QueueSet(q) : P!Valid(r)'
      /\ \A r \in Process : where[r] = "notify" => class = "condition"
      BY <1>2, <1>3, <1>4, <1>7, WaitersFacts DEF Queue
<1>10. ASSUME id' # 0, ~disturbed'
       PROVE  /\ v + P!Sum(adj) = base'
              /\ class = "mutex" => \A r \in Process :
                   adj[r] = IF where[r] = "inside" /\ P!Valid(r)' THEN 1 ELSE 0
  <2>1. /\ value + P!Sum(adjust) = base /\ v = value + adjust[p]
        /\ class = "mutex" => Owing(adjust, P!Holders)
        BY <1>1, <1>10 DEF SemaphoreInv, Balance
  <2>2. v + P!Sum(adj) = base'
    <3>1. adjust[p] \in Int
          BY <1>2
    <3> HIDE DEF v
    <3> QED
      BY <1>1, <1>2, <1>5, <2>1, <3>1
  <2>3. ASSUME class = "mutex", NEW r \in Process
        PROVE  adj[r] = IF where[r] = "inside" /\ P!Valid(r)' THEN 1 ELSE 0
    <3>1. adjust[r] = IF at[r] = "inside" /\ P!Valid(r) THEN 1 ELSE 0
          BY <2>1, <2>3 DEF Owing, P!Holders
    <3> QED
      BY <1>3, <1>7, <3>1
  <2> QED
    BY <2>2, <2>3
<1> HIDE DEF v
<1> QED
  BY <1>1, <1>3, <1>4, <1>6, <1>8, <1>9, <1>10, SettlingKeeps

LEMMA SemaphoreNext ==
  ASSUME SemaphoreInv, P!Next
  PROVE  SemaphoreInv'
<1>1. PICK p \in Process :
        \/ P!initLookup(p) \/ P!initCreate(p) \/ P!initSetval(p)
        \/ (\E v \in {0, 1} : P!reset(p, v)) \/ (\E d \in BOOLEAN : P!uninit(p, d))
        \/ P!lock(p) \/ P!trylock(p) \/ P!unlock(p) \/ P!wait(p) \/ P!waitTimeout(p)
        \/ P!post(p) \/ (\E all \in BOOLEAN : P!notifyCount(p, all)) \/ P!notifyPost(p)
        \/ P!die(p)
      BY DEF P!Next
<1>2. P!lock(p) \/ P!trylock(p) \/ P!wait(p) => P!take(p)
      BY DEF P!lock, P!trylock, P!wait
<1> QED
  BY <1>1, <1>2, LookupKeeps, CreateKeepsBooks, SetvalKeeps, ResetKeeps, UninitKeeps,
     TakeKeepsBooks, UnlockKeeps, TimeoutKeeps, NotifyCountKeeps, NotifyPostKeeps, DieKeeps

LEMMA SemaphoreInit == P!Init => SemaphoreInv
<1> SUFFICES ASSUME P!Init
             PROVE  SemaphoreInv
    OBVIOUS
<1>1. SemaphoreTypes
  <2>1. <<>> \in Seq(Process)
        BY EmptySeq
  <2>2. /\ id = 0 /\ ids = 0 /\ value = 0 /\ base = 0 /\ disturbed = FALSE
        /\ adjust = [p \in Process |-> 0] /\ handle = [p \in Process |-> 0]
        /\ at = [p \in Process |-> "off"] /\ count = [p \in Process |-> 0]
        BY DEF P!Init
  <2>3. at \in [Process -> Place] /\ adjust \in [Process -> Int]
        BY <2>2 DEF Place
  <2>4. waiting \in Seq(Process)
        BY <2>1 DEF P!Init
  <2> QED
    BY <2>2, <2>3, <2>4 DEF SemaphoreTypes
<1>2. Handles
      BY DEF P!Init, Handles
<1>3. Queue
  <2>1. P!Waiters = {} /\ Distinct(waiting)
        BY DEF P!Init, P!Waiters, Distinct
  <2>2. \A p \in Process : at[p] = "off"
        BY DEF P!Init
  <2> QED
    BY <2>1, <2>2 DEF Queue
<1>4. Balance
      BY DEF P!Init, Balance
<1> QED
  BY <1>1, <1>2, <1>3, <1>4 DEF SemaphoreInv

\* Exactly one owes, so the sum is the number of holders.
LEMMA SemaphoreBalances == SemaphoreInv => UndoBalances
<1> SUFFICES ASSUME SemaphoreInv, id # 0, ~disturbed
             PROVE  /\ value + P!Sum(adjust) = base
                    /\ class = "mutex" =>
                         /\ \A p \in Process : adjust[p] = IF p \in P!Holders THEN 1 ELSE 0
                         /\ \A p, q \in P!Holders : p = q
    BY DEF UndoBalances, P!UndoBalances
<1>1. /\ value + P!Sum(adjust) = base
      /\ class = "mutex" => Owing(adjust, P!Holders)
      BY DEF SemaphoreInv, Balance
<1>2. ASSUME class = "mutex"
      PROVE  \A p, q \in P!Holders : p = q
  <2>1. P!Holders \in SUBSET Process
        BY DEF P!Holders
  <2>2. adjust = One(P!Holders)
        BY <1>1, <1>2 DEF SemaphoreInv, SemaphoreTypes, Owing, One
  <2>3. P!Sum(adjust) = Cardinality(P!Holders)
        BY <2>1, <2>2, SumOnes
  <2>4. /\ IsFiniteSet(P!Holders) /\ Cardinality(P!Holders) \in Nat
        /\ Cardinality(P!Holders) = 0 => P!Holders = {}
        BY <2>1, Smaller
  <2>5. value \in Nat /\ base \in {0, 1}
        BY DEF SemaphoreInv, SemaphoreTypes
  <2>6. Cardinality(P!Holders) = 0 \/ Cardinality(P!Holders) = 1
        BY <1>1, <2>3, <2>4, <2>5
  <2> QED
    BY <2>4, <2>6, FS_Singleton
<1> QED
  BY <1>1, <1>2 DEF Owing

LEMMA SemaphoreRests ==
  ASSUME SemaphoreInv, UNCHANGED processVars
  PROVE  SemaphoreInv'
<1> QED
  BY DEF processVars, SemaphoreInv, SemaphoreTypes, Handles, Queue, Distinct, Balance, Owing,
     P!Sum, P!Waiters, P!Valid, P!Holders

\* ComProcessMutex, ComProcessSem, ComProcessCondition, with any finite number of
\* processes that die at any step: what the value has and what the processes owe add
\* up to what SETVAL put there, and at most one process holds the mutex, until a
\* SETVAL or a cut-off adjustment meets operations in progress.
THEOREM BooksBalance == ThreadsSpec => []UndoBalances
<1>1. ThreadsInit => SemaphoreInv
      BY SemaphoreInit DEF ThreadsInit
<1>2. SemaphoreInv /\ [ThreadsNext]_<<among, vars, processVars, managerVars>> => SemaphoreInv'
      BY SemaphoreNext, SemaphoreRests DEF ThreadsNext
<1>3. SemaphoreInv => UndoBalances
      BY SemaphoreBalances
<1> QED
  BY <1>1, <1>2, <1>3, PTL DEF ThreadsSpec

-----------------------------------------------------------------------------
(* ComWorkerManager: the inductive invariant *)

ManagerTypes ==
  /\ workers \in [Name -> W!Worker \cup {0}]
  /\ mutex_workers \in W!Actor \cup {W!Free}
  /\ object \in [W!Worker -> Name \cup {0}]
  /\ deleted \subseteq W!Made /\ destroyed \subseteq W!Made
  /\ wrunning \in [W!Worker -> BOOLEAN]
  /\ wthread \in [W!Worker -> {"none", "run", "ask", "push", "ended"}]
  /\ requests \in Seq(Name)
  /\ wat \in [W!Actor -> {"idle", "find", "stop", "join", "hung", "all", "allJoin", "ended"}]
  /\ want \in [W!Actor -> SUBSET Name]
  /\ target \in [W!Actor -> W!Worker \cup {0}]

\* Workers are made in order, and the map leads to the youngest of a name.
Entries ==
  /\ \A w \in W!Worker : object[w] = 0 <=> wthread[w] = "none"
  /\ \A v, w \in W!Worker : v < w /\ object[w] # 0 => object[v] # 0
  /\ \A n \in W!Live : object[workers[n]] = n
  /\ \A n \in W!Live, v \in W!Worker : object[v] = n => v <= workers[n]

Sweeping(a) == wat[a] \in {"all", "allJoin"}

\* destroyWorkerAll keeps the mutex: the entries it has yet to stop are in the map and
\* not deleted, the others it has destroyed.
Sweeps ==
  /\ \A a \in W!Actor : Sweeping(a) =>
       /\ a \in Owner /\ mutex_workers = a /\ want[a] \subseteq W!Live
       /\ \A n \in want[a] : workers[n] \notin deleted
       /\ \A n \in W!Live \ want[a] : workers[n] \in destroyed
  /\ \A n \in W!Live : workers[n] \in deleted => \E a \in Owner : Sweeping(a)

\* Why a worker may be stopped.
Reason(w) ==
  \/ w \in destroyed
  \/ wthread[w] \in {"push", "ended"}
  \/ \E v \in destroyed : v < w /\ object[v] = object[w]

\* Who stops a worker has it for himself: out of the map, or under the mutex.
Targets ==
  /\ \A a \in W!Actor : target[a] # 0 <=> wat[a] \in {"stop", "join", "allJoin"}
  /\ \A a \in W!Actor : target[a] # 0 =>
       target[a] \in W!Made \ deleted /\ Reason(target[a])
  /\ \A a \in W!Actor : wat[a] \in {"stop", "join"} =>
       \A n \in Name : workers[n] # target[a]
  /\ \A a \in W!Actor : wat[a] = "allJoin" =>
       target[a] \in destroyed /\ \E n \in want[a] : target[a] = workers[n]
  /\ \A a, b \in W!Actor : a # b /\ target[a] # 0 => target[a] # target[b]

\* The request of a finished worker of the name n has not led to its entry yet.
Requested(n) == \E i \in 1 .. Len(requests) : requests[i] = n
Finding(n) == wat[W!Runner] = "find" /\ n \in want[W!Runner]

\* While the application has destroyed no worker of a name, a request for it is that
\* of the worker in the map, which has ended; a worker that has not is in the map.
Requests ==
  \A n \in Name : (\A v \in destroyed : object[v] # n) =>
    /\ Requested(n) \/ Finding(n) => n \in W!Live /\ wthread[workers[n]] = "ended"
    /\ ~(Requested(n) /\ Finding(n))
    /\ \A i, j \in 1 .. Len(requests) : requests[i] = n /\ requests[j] = n => i = j
    /\ \A w \in W!Worker : object[w] = n /\ wthread[w] # "ended" => workers[n] = w

Ended == /\ \A w \in deleted : wthread[w] = "ended"
         /\ \A w \in W!Made : ~wrunning[w] => Reason(w)

ManagerInv == ManagerTypes /\ Entries /\ Sweeps /\ Targets /\ Requests /\ Ended

LEMMA CreateKeeps ==
  ASSUME ManagerInv, NEW a \in Owner, NEW n \in Name, W!createWorker(a, n)
  PROVE  ManagerInv'
<1> USE WorkerAssumption DEF W!WorkerConstants, W!Worker, W!Actor, W!Runner, W!Free, W!Live, W!Made
<1>1. ManagerTypes'
      BY DEF ManagerInv, ManagerTypes, W!createWorker
<1>2. Entries'
      BY DEF ManagerInv, ManagerTypes, Entries, W!createWorker
<1>3. Sweeps'
      BY DEF ManagerInv, ManagerTypes, Sweeps, Sweeping, W!createWorker
<1>4. Targets'
      BY DEF ManagerInv, Targets, Reason, W!createWorker
<1>5. Requests'
      BY DEF ManagerInv, ManagerTypes, Entries, Requests, Requested, Finding, W!createWorker
<1>6. Ended'
      BY DEF ManagerInv, ManagerTypes, Ended, Reason, W!createWorker
<1> QED
  BY <1>1, <1>2, <1>3, <1>4, <1>5, <1>6 DEF ManagerInv

LEMMA CallKeeps ==
  ASSUME ManagerInv, NEW a \in Owner, NEW S \in SUBSET Name, W!callDestroy(a, S)
  PROVE  ManagerInv'
<1> USE WorkerAssumption DEF W!WorkerConstants, W!Worker, W!Actor, W!Runner, W!Free, W!Live, W!Made
<1>1. ManagerTypes'
      BY DEF ManagerInv, ManagerTypes, W!callDestroy, W!Goto
<1>2. Entries'
      BY DEF ManagerInv, Entries, W!callDestroy
<1>3. Sweeps'
      BY DEF ManagerInv, Sweeps, Sweeping, W!callDestroy, W!Goto
<1>4. Targets'
  <2>1. (\A b \in W!Actor : target[b] # 0 <=> wat[b] \in {"stop", "join", "allJoin"})'
        BY DEF ManagerInv, Targets, W!callDestroy, W!Goto
  <2>2. (\A b \in W!Actor : target[b] # 0 =>
            target[b] \in W!Made \ deleted /\ Reason(target[b]))'
        BY DEF ManagerInv, Targets, Reason, W!callDestroy
  <2>3. (\A b \in W!Actor : wat[b] \in {"stop", "join"} =>
            \A m \in Name : workers[m] # target[b])'
        BY DEF ManagerInv, Targets, W!callDestroy, W!Goto
  <2>4. (\A b \in W!Actor : wat[b] = "allJoin" =>
            target[b] \in destroyed /\ \E m \in want[b] : target[b] = workers[m])'
        BY DEF ManagerInv, Targets, W!callDestroy, W!Goto
  <2>5. (\A b, c \in W!Actor : b # c /\ target[b] # 0 => target[b] # target[c])'
        BY DEF ManagerInv, Targets, W!callDestroy
  <2> QED
    BY <2>1, <2>2, <2>3, <2>4, <2>5 DEF Targets
<1>5. Requests'
      BY DEF ManagerInv, Requests, Requested, Finding, W!callDestroy, W!Goto
<1>6. Ended'
      BY DEF ManagerInv, Ended, Reason, W!callDestroy
<1> QED
  BY <1>1, <1>2, <1>3, <1>4, <1>5, <1>6 DEF ManagerInv

LEMMA FindFirstKeeps ==
  ASSUME ManagerInv, NEW a \in W!Actor, W!findFirst(a)
  PROVE  ManagerInv'
<1> USE WorkerAssumption DEF W!WorkerConstants, W!Worker, W!Actor, W!Runner, W!Free, W!Live, W!Made
<1>1. PICK n \in Name, t \in W!Worker :
        /\ n # 0 /\ t \in W!Made \ deleted /\ object[t] = n /\ t = workers[n]
        /\ wat[a] = "find" /\ mutex_workers = "free" /\ n \in want[a]
        /\ target' = [target EXCEPT ![a] = t] /\ workers' = [workers EXCEPT ![n] = 0]
        /\ destroyed' = (IF a = "runner" THEN destroyed ELSE destroyed \cup {t})
        /\ want' = [want EXCEPT ![a] = {}] /\ wat' = [wat EXCEPT ![a] = "stop"]
        /\ UNCHANGED <<mutex_workers, object, deleted, wrunning, wthread, requests>>
  <2> DEFINE n == W!First(W!Live)
  <2>1. n \in W!Live
        BY FirstIn DEF W!findFirst
  <2>2. /\ wat[a] = "find" /\ mutex_workers = "free" /\ n \in want[a]
        /\ target' = [target EXCEPT ![a] = workers[n]] /\ workers' = [workers EXCEPT ![n] = 0]
        /\ destroyed' = (IF a = "runner" THEN destroyed ELSE destroyed \cup {workers[n]})
        /\ want' = [want EXCEPT ![a] = {}] /\ wat' = [wat EXCEPT ![a] = "stop"]
        /\ UNCHANGED <<mutex_workers, object, deleted, wrunning, wthread, requests>>
        BY DEF W!findFirst, W!Goto
  <2> HIDE DEF n
  <2>3. /\ n \in Name /\ n # 0 /\ workers[n] \in W!Made \ deleted
        /\ object[workers[n]] = n /\ workers[n] \in W!Worker
        BY <2>1, <2>2 DEF ManagerInv, ManagerTypes, Entries, Sweeps
  <2> QED
    BY <2>2, <2>3
<1>2. \A b \in W!Actor : ~Sweeping(b)
      BY <1>1 DEF ManagerInv, Sweeps
<1>3. Reason(t)'
  <2>1. CASE a # "runner"
        BY <1>1, <2>1 DEF Reason
  <2>2. CASE a = "runner" /\ \A v \in destroyed : object[v] # n
        BY <1>1, <2>2 DEF ManagerInv, Requests, Finding, Reason
  <2>3. CASE a = "runner" /\ \E v \in destroyed : object[v] = n
        BY <1>1, <2>3 DEF ManagerInv, ManagerTypes, Entries, Reason
  <2> QED
    BY <2>1, <2>2, <2>3
<1>4. \A w \in W!Worker : Reason(w) => Reason(w)'
      BY <1>1 DEF Reason
<1>5. ManagerTypes'
      BY <1>1 DEF ManagerInv, ManagerTypes
<1>6. Entries'
      BY <1>1 DEF ManagerInv, Entries
<1>7. Sweeps'
      BY <1>1 DEF ManagerInv, Sweeps, Sweeping
<1>8. Targets'
  <2>1. (\A b \in W!Actor : target[b] # 0 <=> wat[b] \in {"stop", "join", "allJoin"})'
        BY <1>1 DEF ManagerInv, ManagerTypes, Targets
  <2>2. (\A b \in W!Actor : target[b] # 0 =>
            target[b] \in W!Made \ deleted /\ Reason(target[b]))'
        BY <1>1, <1>3, <1>4 DEF ManagerInv, Targets
  <2>3. (\A b \in W!Actor : wat[b] \in {"stop", "join"} =>
            \A m \in Name : workers[m] # target[b])'
        BY <1>1 DEF ManagerInv, ManagerTypes, Targets, Entries
  <2>4. (\A b \in W!Actor : wat[b] = "allJoin" =>
            target[b] \in destroyed /\ \E m \in want[b] : target[b] = workers[m])'
        BY <1>1, <1>2 DEF ManagerInv, Sweeping
  <2>5. (\A b, c \in W!Actor : b # c /\ target[b] # 0 => target[b] # target[c])'
    <3>1. \A c \in W!Actor : target[c] # t
          BY <1>1, <1>2 DEF ManagerInv, Targets, Sweeping
    <3>2. \A c \in W!Actor \ {a} : target'[c] = target[c]
          BY <1>1 DEF ManagerInv
    <3>3. target'[a] = t
          BY <1>1 DEF ManagerInv, ManagerTypes
    <3> QED
      BY <3>1, <3>2, <3>3 DEF ManagerInv, Targets
  <2> QED
    BY <2>1, <2>2, <2>3, <2>4, <2>5 DEF Targets
<1>9. Requests'
      BY <1>1, SMTT(30) DEF ManagerInv, ManagerTypes, Requests, Ended, Reason, Requested, Finding
<1>10. Ended'
      BY <1>1 DEF ManagerInv, Ended, Reason
<1> QED
  BY <1>5, <1>6, <1>7, <1>8, <1>9, <1>10 DEF ManagerInv

LEMMA FindHangsKeeps ==
  ASSUME ManagerInv, NEW a \in W!Actor, W!findHangs(a)
  PROVE  ManagerInv'
<1> USE WorkerAssumption DEF W!WorkerConstants, W!Worker, W!Actor, W!Runner, W!Free, W!Live, W!Made
<1>1. ManagerTypes'
      BY DEF ManagerInv, ManagerTypes, W!findHangs, W!Goto
<1>2. Entries'
      BY DEF ManagerInv, Entries, W!findHangs
<1>3. Sweeps'
      BY DEF ManagerInv, Sweeps, Sweeping, W!findHangs, W!Goto
<1>4. Targets'
  <2>1. (\A b \in W!Actor : target[b] # 0 <=> wat[b] \in {"stop", "join", "allJoin"})'
        BY DEF ManagerInv, Targets, W!findHangs, W!Goto
  <2>2. (\A b \in W!Actor : target[b] # 0 =>
            target[b] \in W!Made \ deleted /\ Reason(target[b]))'
        BY DEF ManagerInv, Targets, Reason, W!findHangs
  <2>3. (\A b \in W!Actor : wat[b] \in {"stop", "join"} =>
            \A m \in Name : workers[m] # target[b])'
        BY DEF ManagerInv, Targets, W!findHangs, W!Goto
  <2>4. (\A b \in W!Actor : wat[b] = "allJoin" =>
            target[b] \in destroyed /\ \E m \in want[b] : target[b] = workers[m])'
        BY DEF ManagerInv, Targets, W!findHangs, W!Goto
  <2>5. (\A b, c \in W!Actor : b # c /\ target[b] # 0 => target[b] # target[c])'
        BY DEF ManagerInv, Targets, W!findHangs
  <2> QED
    BY <2>1, <2>2, <2>3, <2>4, <2>5 DEF Targets
<1>5. Requests'
      BY DEF ManagerInv, Requests, Requested, Finding, W!findHangs, W!Goto
<1>6. Ended'
      BY DEF ManagerInv, Ended, Reason, W!findHangs
<1> QED
  BY <1>1, <1>2, <1>3, <1>4, <1>5, <1>6 DEF ManagerInv

LEMMA FindNoneKeeps ==
  ASSUME ManagerInv, NEW a \in W!Actor, W!findNone(a)
  PROVE  ManagerInv'
<1> USE WorkerAssumption DEF W!WorkerConstants, W!Worker, W!Actor, W!Runner, W!Free, W!Live, W!Made
<1>1. ManagerTypes'
      BY DEF ManagerInv, ManagerTypes, W!findNone, W!Goto
<1>2. Entries'
      BY DEF ManagerInv, Entries, W!findNone
<1>3. Sweeps'
      BY DEF ManagerInv, Sweeps, Sweeping, W!findNone, W!Goto
<1>4. Targets'
      BY DEF ManagerInv, Targets, Reason, Requested, W!findNone, W!Goto
<1>5. Requests'
      BY DEF ManagerInv, Requests, Requested, Finding, W!findNone, W!Goto
<1>6. Ended'
      BY DEF ManagerInv, Ended, Reason, W!findNone
<1> QED
  BY <1>1, <1>2, <1>3, <1>4, <1>5, <1>6 DEF ManagerInv

LEMMA StopKeeps ==
  ASSUME ManagerInv, NEW a \in W!Actor, W!stop(a)
  PROVE  ManagerInv'
<1> USE WorkerAssumption DEF W!WorkerConstants, W!Worker, W!Actor, W!Runner, W!Free, W!Live, W!Made
<1>1. ManagerTypes'
      BY DEF ManagerInv, ManagerTypes, Targets, W!stop, W!Goto
<1>2. Entries'
      BY DEF ManagerInv, Entries, W!stop
<1>3. Sweeps'
      BY DEF ManagerInv, Sweeps, Sweeping, W!stop, W!Goto
<1>4. Targets'
      BY DEF ManagerInv, Targets, Reason, W!stop, W!Goto
<1>5. Requests'
      BY DEF ManagerInv, Requests, Reason, Requested, Finding, W!stop, W!Goto
<1>6. Ended'
      BY DEF ManagerInv, Targets, Ended, Reason, W!stop
<1> QED
  BY <1>1, <1>2, <1>3, <1>4, <1>5, <1>6 DEF ManagerInv

LEMMA JoinKeeps ==
  ASSUME ManagerInv, NEW a \in W!Actor, W!join(a)
  PROVE  ManagerInv'
<1> USE WorkerAssumption DEF W!WorkerConstants, W!Worker, W!Actor, W!Runner, W!Free, W!Live, W!Made
<1>0. target[a] \in W!Made
      BY DEF ManagerInv, Targets, W!join
<1>1. ManagerTypes'
  <2>1. deleted' \subseteq W!Made'
        BY <1>0 DEF ManagerInv, ManagerTypes, W!join
  <2>2. /\ wat' \in [W!Actor -> {"idle", "find", "stop", "join", "hung", "all", "allJoin", "ended"}]
        /\ target' \in [W!Actor -> W!Worker \cup {0}]
        /\ want' \in [W!Actor -> SUBSET Name]
        BY DEF ManagerInv, ManagerTypes, W!join, W!Goto
  <2> QED
    BY <2>1, <2>2 DEF ManagerInv, ManagerTypes, W!join
<1>2. Entries'
      BY DEF ManagerInv, Entries, W!join
<1>3. Sweeps'
      BY DEF ManagerInv, ManagerTypes, Sweeps, Targets, Sweeping, W!join, W!Goto
<1>4. Targets'
      BY DEF ManagerInv, ManagerTypes, Targets, Reason, W!join, W!Goto
<1>5. Requests'
      BY DEF ManagerInv, Sweeps, Requests, Sweeping, Requested, Finding, W!join, W!Goto
<1>6. Ended'
      BY DEF ManagerInv, Ended, Reason, W!join
<1> QED
  BY <1>1, <1>2, <1>3, <1>4, <1>5, <1>6 DEF ManagerInv

LEMMA SweepKeeps ==
  ASSUME ManagerInv, NEW a \in Owner, NEW stage \in {"up", "closing"}, W!destroyWorkerAll(a, stage)
  PROVE  ManagerInv'
<1> USE WorkerAssumption DEF W!WorkerConstants, W!Worker, W!Actor, W!Runner, W!Free, W!Live, W!Made
<1>1. ManagerTypes'
      BY DEF ManagerInv, ManagerTypes, W!destroyWorkerAll, W!Goto
<1>2. Entries'
      BY DEF ManagerInv, Entries, W!destroyWorkerAll
<1>3. Sweeps'
      BY DEF ManagerInv, ManagerTypes, Sweeps, Sweeping, W!destroyWorkerAll, W!Goto
<1>4. Targets'
      BY DEF ManagerInv, Targets, Reason, W!destroyWorkerAll, W!Goto
<1>5. Requests'
      BY DEF ManagerInv, Requests, Requested, Finding, W!destroyWorkerAll, W!Goto
<1>6. Ended'
      BY DEF ManagerInv, Ended, Reason, W!destroyWorkerAll
<1> QED
  BY <1>1, <1>2, <1>3, <1>4, <1>5, <1>6 DEF ManagerInv

LEMMA AllStopKeeps ==
  ASSUME ManagerInv, NEW a \in W!Actor, W!allStop(a)
  PROVE  ManagerInv'
<1> USE WorkerAssumption DEF W!WorkerConstants, W!Worker, W!Actor, W!Runner, W!Free, W!Live, W!Made
<1>0. PICK n \in Name, t \in W!Worker :
        /\ n # 0 /\ t \in W!Made \ deleted /\ object[t] = n /\ t = workers[n]
        /\ wat[a] = "all" /\ n \in want[a] /\ a \in Owner /\ mutex_workers = a
        /\ target' = [target EXCEPT ![a] = t] /\ wrunning' = [wrunning EXCEPT ![t] = FALSE]
        /\ destroyed' = destroyed \cup {t} /\ wat' = [wat EXCEPT ![a] = "allJoin"]
        /\ UNCHANGED <<workers, mutex_workers, object, deleted, wthread, requests, want>>
  <2> DEFINE n == W!First(want[a])
  <2>1. n \in want[a] /\ want[a] \in SUBSET Name
        BY FirstIn DEF ManagerInv, ManagerTypes, W!allStop
  <2>2. /\ wat[a] = "all"
        /\ target' = [target EXCEPT ![a] = workers[n]]
        /\ wrunning' = [wrunning EXCEPT ![workers[n]] = FALSE]
        /\ destroyed' = destroyed \cup {workers[n]} /\ wat' = [wat EXCEPT ![a] = "allJoin"]
        /\ UNCHANGED <<workers, mutex_workers, object, deleted, wthread, requests, want>>
        BY DEF W!allStop, W!Goto
  <2> HIDE DEF n
  <2>3. /\ n \in Name /\ n # 0 /\ workers[n] \in W!Made \ deleted
        /\ object[workers[n]] = n /\ workers[n] \in W!Worker /\ a \in Owner /\ mutex_workers = a
        BY <2>1, <2>2 DEF ManagerInv, ManagerTypes, Entries, Sweeps, Sweeping
  <2> QED
    BY <2>1, <2>2, <2>3
<1>1. ManagerTypes'
      BY <1>0 DEF ManagerInv, ManagerTypes
<1>2. Entries'
      BY <1>0 DEF ManagerInv, ManagerTypes, Entries
<1>3. Sweeps'
  <2>1. \A b \in W!Actor : Sweeping(b)' <=> Sweeping(b)
        BY <1>0 DEF ManagerInv, ManagerTypes, Sweeping
  <2>2. destroyed \subseteq destroyed'
        BY <1>0
  <2>3. Sweeps
        BY DEF ManagerInv
  <2> HIDE DEF W!Made, W!Worker, Sweeping
  <2> QED
    BY <1>0, <2>1, <2>2, <2>3 DEF Sweeps
<1>4. Targets'
  <2>1. (\A b \in W!Actor : target[b] # 0 <=> wat[b] \in {"stop", "join", "allJoin"})'
        BY <1>0 DEF ManagerInv, ManagerTypes, Targets
  <2>2. (\A b \in W!Actor : target[b] # 0 =>
            target[b] \in W!Made \ deleted /\ Reason(target[b]))'
        BY <1>0 DEF ManagerInv, Targets, Reason
  <2>3. (\A b \in W!Actor : wat[b] \in {"stop", "join"} =>
            \A m \in Name : workers[m] # target[b])'
        BY <1>0 DEF ManagerInv, Targets
  <2>4. (\A b \in W!Actor : wat[b] = "allJoin" =>
            target[b] \in destroyed /\ \E m \in want[b] : target[b] = workers[m])'
        BY <1>0 DEF ManagerInv, ManagerTypes, Targets
  <2>5. (\A b, c \in W!Actor : b # c /\ target[b] # 0 => target[b] # target[c])'
    <3>1. \A c \in W!Actor : target[c] # t
          BY <1>0 DEF ManagerInv, Targets, Sweeps, Sweeping
    <3>2. \A c \in W!Actor \ {a} : target'[c] = target[c]
          BY <1>0 DEF ManagerInv
    <3>3. target'[a] = t
          BY <1>0 DEF ManagerInv, ManagerTypes
    <3> QED
      BY <3>1, <3>2, <3>3 DEF ManagerInv, Targets
  <2> QED
    BY <2>1, <2>2, <2>3, <2>4, <2>5 DEF Targets
<1>5. Requests'
  <2>1. \A m \in Name : Requested(m)' <=> Requested(m)
        BY <1>0 DEF Requested
  <2>2. \A m \in Name : Finding(m)' <=> Finding(m)
        BY <1>0 DEF ManagerInv, ManagerTypes, Finding
  <2>3. destroyed \subseteq destroyed'
        BY <1>0
  <2>4. Requests
        BY DEF ManagerInv
  <2> HIDE DEF W!Made, W!Worker, Finding, Requested
  <2> QED
    BY <1>0, <2>1, <2>2, <2>3, <2>4 DEF Requests
<1>6. Ended'
      BY <1>0 DEF ManagerInv, Ended, Reason
<1> QED
  BY <1>1, <1>2, <1>3, <1>4, <1>5, <1>6 DEF ManagerInv

LEMMA AllJoinKeeps ==
  ASSUME ManagerInv, NEW a \in W!Actor, W!allJoin(a)
  PROVE  ManagerInv'
<1> USE WorkerAssumption DEF W!WorkerConstants, W!Worker, W!Actor, W!Runner, W!Free, W!Live, W!Made
<1>0. target[a] \in W!Made
      BY DEF ManagerInv, Targets, W!allJoin
<1>1. ManagerTypes'
  <2>1. deleted' \subseteq W!Made'
        BY <1>0 DEF ManagerInv, ManagerTypes, W!allJoin
  <2>2. /\ wat' \in [W!Actor -> {"idle", "find", "stop", "join", "hung", "all", "allJoin", "ended"}]
        /\ target' \in [W!Actor -> W!Worker \cup {0}]
        /\ want' \in [W!Actor -> SUBSET Name]
        BY DEF ManagerInv, ManagerTypes, W!allJoin, W!Goto
  <2> QED
    BY <2>1, <2>2 DEF ManagerInv, ManagerTypes, W!allJoin
<1>2. Entries'
      BY DEF ManagerInv, Entries, W!allJoin
<1>3. Sweeps'
      BY DEF ManagerInv, ManagerTypes, Entries, Sweeps, Targets, Sweeping, W!allJoin, W!Goto
<1>4. Targets'
      BY DEF ManagerInv, ManagerTypes, Targets, Reason, W!allJoin, W!Goto
<1>5. Requests'
      BY DEF ManagerInv, Requests, Sweeping, Requested, Finding, W!allJoin, W!Goto
<1>6. Ended'
      BY DEF ManagerInv, Ended, Reason, W!allJoin
<1> QED
  BY <1>1, <1>2, <1>3, <1>4, <1>5, <1>6 DEF ManagerInv

LEMMA AllEndKeeps ==
  ASSUME ManagerInv, NEW a \in W!Actor, W!allEnd(a)
  PROVE  ManagerInv'
<1> USE WorkerAssumption DEF W!WorkerConstants, W!Worker, W!Actor, W!Runner, W!Free, W!Live, W!Made
<1>1. ManagerTypes'
      BY DEF ManagerInv, ManagerTypes, W!allEnd, W!Goto
<1>2. Entries'
      BY DEF ManagerInv, Entries, W!allEnd
<1>3. Sweeps'
      BY DEF ManagerInv, ManagerTypes, Sweeps, Sweeping, W!allEnd, W!Goto
<1>4. Targets'
      BY DEF ManagerInv, Sweeps, Targets, Requests, Sweeping, Reason, W!allEnd, W!Goto
<1>5. Requests'
      BY DEF ManagerInv, Entries, Sweeps, Targets, Requests, Sweeping, Requested, Finding, W!allEnd, W!Goto
<1>6. Ended'
      BY DEF ManagerInv, Ended, Reason, W!allEnd
<1> QED
  BY <1>1, <1>2, <1>3, <1>4, <1>5, <1>6 DEF ManagerInv

LEMMA AskKeeps ==
  ASSUME ManagerInv, NEW w \in W!Worker, W!ask(w)
  PROVE  ManagerInv'
<1> USE WorkerAssumption DEF W!WorkerConstants, W!Worker, W!Actor, W!Runner, W!Free, W!Live, W!Made
<1>1. ManagerTypes'
      BY DEF ManagerInv, ManagerTypes, W!ask, W!threadFrame
<1>2. Entries'
      BY DEF ManagerInv, Entries, W!ask, W!threadFrame
<1>3. Sweeps'
      BY DEF ManagerInv, Sweeps, Sweeping, W!ask, W!threadFrame
<1>4. Targets'
      BY DEF ManagerInv, Targets, Reason, W!ask, W!threadFrame
<1>5. Requests'
      BY DEF ManagerInv, Requests, Requested, Finding, W!ask, W!threadFrame
<1>6. Ended'
      BY DEF ManagerInv, Ended, Reason, W!ask, W!threadFrame
<1> QED
  BY <1>1, <1>2, <1>3, <1>4, <1>5, <1>6 DEF ManagerInv

LEMMA AnsweredKeeps ==
  ASSUME ManagerInv, NEW w \in W!Worker, W!answered(w)
  PROVE  ManagerInv'
<1> USE WorkerAssumption DEF W!WorkerConstants, W!Worker, W!Actor, W!Runner, W!Free, W!Live, W!Made
<1>1. ManagerTypes'
      BY DEF ManagerInv, ManagerTypes, W!answered, W!threadFrame
<1>2. Entries'
      BY DEF ManagerInv, Entries, W!answered, W!threadFrame
<1>3. Sweeps'
      BY DEF ManagerInv, Sweeps, Sweeping, W!answered, W!threadFrame
<1>4. Targets'
      BY DEF ManagerInv, Targets, Reason, W!answered, W!threadFrame
<1>5. Requests'
      BY DEF ManagerInv, Requests, Requested, Finding, W!answered, W!threadFrame
<1>6. Ended'
      BY DEF ManagerInv, Ended, Reason, W!answered, W!threadFrame
<1> QED
  BY <1>1, <1>2, <1>3, <1>4, <1>5, <1>6 DEF ManagerInv

LEMMA ReturnKeeps ==
  ASSUME ManagerInv, NEW w \in W!Worker, W!return(w)
  PROVE  ManagerInv'
<1> USE WorkerAssumption DEF W!WorkerConstants, W!Worker, W!Actor, W!Runner, W!Free, W!Live, W!Made
<1>1. ManagerTypes'
      BY DEF ManagerInv, ManagerTypes, W!return, W!threadFrame
<1>2. Entries'
      BY DEF ManagerInv, Entries, W!return, W!threadFrame
<1>3. Sweeps'
      BY DEF ManagerInv, Sweeps, Sweeping, W!return, W!threadFrame
<1>4. Targets'
      BY DEF ManagerInv, Targets, Reason, W!return, W!threadFrame
<1>5. Requests'
      BY DEF ManagerInv, Requests, Requested, Finding, W!return, W!threadFrame
<1>6. Ended'
      BY DEF ManagerInv, Ended, Reason, W!return, W!threadFrame
<1> QED
  BY <1>1, <1>2, <1>3, <1>4, <1>5, <1>6 DEF ManagerInv

LEMMA PushKeeps ==
  ASSUME ManagerInv, NEW w \in W!Worker, W!pushRequest(w)
  PROVE  ManagerInv'
<1> USE WorkerAssumption DEF W!WorkerConstants, W!Worker, W!Actor, W!Runner, W!Free, W!Live, W!Made
<1>1. ManagerTypes'
      BY DEF ManagerInv, ManagerTypes, Entries, W!pushRequest, W!threadFrame
<1>2. Entries'
      BY DEF ManagerInv, Entries, W!pushRequest, W!threadFrame
<1>3. Sweeps'
      BY DEF ManagerInv, Sweeps, Sweeping, W!pushRequest, W!threadFrame
<1>4. Targets'
      BY DEF ManagerInv, Targets, Reason, W!pushRequest, W!threadFrame
<1>5. Requests'
      BY SMTT(30) DEF ManagerInv, ManagerTypes, Requests, Requested, Finding, W!pushRequest, W!threadFrame
<1>6. Ended'
      BY DEF ManagerInv, Ended, Reason, W!pushRequest, W!threadFrame
<1> QED
  BY <1>1, <1>2, <1>3, <1>4, <1>5, <1>6 DEF ManagerInv

LEMMA TakeKeeps ==
  ASSUME ManagerInv, W!takeRequest
  PROVE  ManagerInv'
<1> USE WorkerAssumption DEF W!WorkerConstants, W!Worker, W!Actor, W!Runner, W!Free, W!Live, W!Made
<1>1. ManagerTypes'
      BY DEF ManagerInv, ManagerTypes, W!takeRequest, W!Goto
<1>2. Entries'
      BY DEF ManagerInv, Entries, W!takeRequest
<1>3. Sweeps'
      BY DEF ManagerInv, Sweeps, Sweeping, W!takeRequest, W!Goto
<1>4. Targets'
      BY DEF ManagerInv, Entries, Targets, Sweeping, Reason, W!takeRequest, W!Goto
<1>5. Requests'
  <2>1. /\ wat["runner"] = "idle" /\ requests # <<>> /\ requests \in Seq(Name)
        /\ want' = [want EXCEPT !["runner"] = {Head(requests)}] /\ requests' = Tail(requests)
        /\ want \in [W!Actor -> SUBSET Name]
        /\ UNCHANGED <<workers, object, wthread, destroyed>>
        BY DEF ManagerInv, ManagerTypes, W!takeRequest
  <2>2. /\ Len(requests) \in Nat /\ Len(requests) >= 1 /\ Len(requests') = Len(requests) - 1
        /\ \A i \in 1 .. Len(requests') : i + 1 \in 1 .. Len(requests) /\ requests'[i] = requests[i + 1]
        BY <2>1
  <2>3. Requests
        BY DEF ManagerInv
  <2>4. \A m \in Name : Finding(m)' => m = requests[1]
        BY <2>1 DEF Finding
  <2>5. 1 \in 1 .. Len(requests) /\ \A m \in Name : ~Finding(m)
        BY <2>1, <2>2 DEF Finding
  <2>6. \A m \in Name : Requested(m)' \/ Finding(m)' => Requested(m)
        BY <2>2, <2>4, <2>5 DEF Requested
  <2>7. ASSUME NEW m \in Name, \A v \in destroyed : object[v] # m
        PROVE  /\ ~(Requested(m)' /\ Finding(m)')
               /\ \A i, j \in 1 .. Len(requests') : requests'[i] = m /\ requests'[j] = m => i = j
    <3>1. \A i, j \in 1 .. Len(requests) : requests[i] = m /\ requests[j] = m => i = j
          BY <2>3, <2>7 DEF Requests
    <3>2. \A i \in 1 .. Len(requests') : i + 1 # 1
          BY <2>2
    <3> QED
      BY <2>2, <2>4, <2>5, <3>1, <3>2, SMTT(30) DEF Requested
  <2> HIDE DEF W!Made, W!Worker, W!Actor
  <2> QED
    BY <2>1, <2>3, <2>6, <2>7 DEF Requests
<1>6. Ended'
      BY DEF ManagerInv, Ended, Reason, W!takeRequest
<1> QED
  BY <1>1, <1>2, <1>3, <1>4, <1>5, <1>6 DEF ManagerInv

LEMMA EndKeeps ==
  ASSUME ManagerInv, W!endRunner
  PROVE  ManagerInv'
<1> USE WorkerAssumption DEF W!WorkerConstants, W!Worker, W!Actor, W!Runner, W!Free, W!Live, W!Made
<1>1. ManagerTypes'
      BY DEF ManagerInv, ManagerTypes, W!endRunner, W!Goto
<1>2. Entries'
      BY DEF ManagerInv, Entries, W!endRunner
<1>3. Sweeps'
      BY DEF ManagerInv, Sweeps, Sweeping, W!endRunner, W!Goto
<1>4. Targets'
      BY DEF ManagerInv, Targets, Reason, W!endRunner, W!Goto
<1>5. Requests'
      BY DEF ManagerInv, Requests, Ended, Requested, Finding, W!endRunner, W!Goto
<1>6. Ended'
      BY DEF ManagerInv, Ended, Reason, W!endRunner
<1> QED
  BY <1>1, <1>2, <1>3, <1>4, <1>5, <1>6 DEF ManagerInv

LEMMA ManagerInit == W!Init => ManagerInv
<1> SUFFICES ASSUME W!Init
             PROVE  ManagerInv
    OBVIOUS
<1> USE WorkerAssumption DEF W!WorkerConstants, W!Worker, W!Actor, W!Runner, W!Free, W!Live, W!Made
<1>1. ManagerTypes
  <2>1. requests \in Seq(Name)
        BY EmptySeq DEF W!Init
  <2> QED
    BY <2>1 DEF W!Init, ManagerTypes
<1>2. Entries
      BY DEF W!Init, Entries
<1>3. Sweeps
      BY DEF W!Init, Sweeps, Sweeping
<1>4. Targets
      BY DEF W!Init, Targets
<1>5. Requests
  <2>1. /\ \A n \in Name : ~Requested(n) /\ ~Finding(n)
        /\ Len(requests) = 0
    <3>1. requests = <<>> /\ Len(requests) = 0
          BY EmptySeq DEF W!Init
    <3> QED
      BY <3>1 DEF W!Init, Requested, Finding
  <2>2. \A w \in W!Worker : object[w] = 0
        BY DEF W!Init
  <2> QED
    BY <2>1, <2>2 DEF Requests
<1>6. Ended
      BY DEF W!Init, Ended
<1> QED
  BY <1>1, <1>2, <1>3, <1>4, <1>5, <1>6 DEF ManagerInv

LEMMA ManagerRests ==
  ASSUME ManagerInv, UNCHANGED managerVars
  PROVE  ManagerInv'
<1> QED
  BY DEF managerVars, ManagerInv, ManagerTypes, Entries, Sweeps, Sweeping, Targets, Reason,
     Requests, Requested, Finding, Ended, W!Live, W!Made

LEMMA ManagerNext ==
  ASSUME ManagerInv, W!Next
  PROVE  ManagerInv'
<1>1. CASE \E a \in Owner, n \in Name : W!createWorker(a, n)
      BY <1>1, CreateKeeps
<1>2. CASE \E a \in Owner, S \in (SUBSET Name) \ {{}} : W!callDestroy(a, S)
      BY <1>2, CallKeeps
<1>3. CASE \E a \in Owner, stage \in {"up", "closing"} : W!destroyWorkerAll(a, stage)
      BY <1>3, SweepKeeps
<1>4. CASE \E a \in W!Actor : W!Destroying(a)
      BY <1>4, FindFirstKeeps, FindHangsKeeps, FindNoneKeeps, StopKeeps, JoinKeeps,
         AllStopKeeps, AllJoinKeeps, AllEndKeeps DEF W!Destroying
<1>5. CASE \E w \in W!Worker : W!ask(w) \/ W!answered(w) \/ W!return(w) \/ W!pushRequest(w)
      BY <1>5, AskKeeps, AnsweredKeeps, ReturnKeeps, PushKeeps
<1>6. CASE W!takeRequest
      BY <1>6, TakeKeeps
<1>7. CASE W!endRunner
      BY <1>7, EndKeeps
<1> QED
  BY <1>1, <1>2, <1>3, <1>4, <1>5, <1>6, <1>7 DEF W!Next

LEMMA ManagerSafe == ManagerInv => WorkerOutlivesThread
<1> SUFFICES ASSUME ManagerInv
             PROVE  W!WorkerOutlivesThread
    BY DEF WorkerOutlivesThread
<1>1. \A w \in deleted : wthread[w] = "ended"
      BY DEF ManagerInv, Ended
<1>2. \A n \in W!Live : /\ object[workers[n]] = n
                        /\ workers[n] \in deleted =>
                             \E a \in Owner : wat[a] \in {"all", "allJoin"} /\ mutex_workers = a
  <2> TAKE n \in W!Live
  <2>1. object[workers[n]] = n
        BY DEF ManagerInv, Entries
  <2>2. ASSUME workers[n] \in deleted
        PROVE  \E a \in Owner : wat[a] \in {"all", "allJoin"} /\ mutex_workers = a
        BY <2>2 DEF ManagerInv, Sweeps, Sweeping, W!Actor
  <2> QED
    BY <2>1, <2>2
<1>3. \A a, b \in W!Actor : a # b /\ target[a] # 0 =>
        target[a] # target[b] /\ target[a] \notin deleted
      BY DEF ManagerInv, Targets
<1>4. \A w \in W!Made : ~wrunning[w] =>
        \/ w \in destroyed
        \/ wthread[w] \in {"push", "ended"}
        \/ \E v \in destroyed : v < w /\ object[v] = object[w]
      BY DEF ManagerInv, Ended, Reason
<1> QED
  BY <1>1, <1>2, <1>3, <1>4 DEF W!WorkerOutlivesThread

\* ComWorkerManager, with any number of names, callers and workers, and whether the
\* workers' functions call the manager or not: a ComWorker is deleted by one thread
\* only and after its own has ended, the map does not lead to a deleted one, and a
\* worker is stopped only for a reason.
THEOREM DeletedHasEnded == ThreadsSpec => []WorkerOutlivesThread
<1>1. ThreadsInit => ManagerInv
      BY ManagerInit DEF ThreadsInit
<1>2. ManagerInv /\ [ThreadsNext]_<<among, vars, processVars, managerVars>> => ManagerInv'
      BY ManagerNext, ManagerRests DEF ThreadsNext
<1>3. ManagerInv => WorkerOutlivesThread
      BY ManagerSafe
<1> QED
  BY <1>1, <1>2, <1>3, PTL DEF ThreadsSpec

=============================================================================
