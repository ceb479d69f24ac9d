------------------------ MODULE TimerManager_proofs ------------------------
(***************************************************************************)
(* Proofs about TimerManager: a timer expires in its round, a one-shot     *)
(* timer once per start, and a stopped one not at all.                     *)
(***************************************************************************)
EXTENDS TimerManager, FiniteSetTheorems, SequenceTheorems, WellFoundedInduction, TLAPS

-----------------------------------------------------------------------------
(* A sequence of sequences, flattened *)

\* A set of numbers that is not empty has a least one.
LEMMA Least ==
  ASSUME NEW S \in SUBSET Nat, S # {}
  PROVE  \E n \in S : \A m \in S : n <= m
<1> DEFINE R == OpToRel(<, Nat)
<1>1. IsWellFoundedOn(R, Nat)
      BY NatLessThanWellFounded, Zenon
<1>2. \A x, y \in Nat : x < y => <<x, y>> \in R
      BY Zenon DEF OpToRel
<1> HIDE DEF R
<1>3. PICK n \in S : \A m \in S : <<m, n>> \notin R
      BY <1>1, WFMin
<1>4. \A m \in S : m \in Nat /\ n \in Nat /\ ~(m < n)
      BY <1>2, <1>3
<1> QED
  BY <1>4

\* F[i] is the concatenation of the first i sequences of s, for i up to n.
Joins(s, n, F) ==
  F = [i \in 1 .. n |-> IF i = 1 THEN s[i] ELSE F[i - 1] \o s[i]]

LEMMA JoinsExist ==
  ASSUME NEW s, NEW n \in Nat
  PROVE  \E F : Joins(s, n, F)
<1> DEFINE Bad == {k \in Nat : ~\E F : Joins(s, k, F)}
<1>1. SUFFICES ASSUME Bad # {}
               PROVE  FALSE
      OBVIOUS
<1>2. PICK k \in Bad : \A m \in Bad : k <= m
      BY <1>1, Least
<1>3. CASE k = 0
  <2> DEFINE F == [i \in 1 .. 0 |-> s]
  <2>1. Joins(s, 0, F)
        BY DEF Joins
  <2> HIDE DEF F
  <2> QED
    BY <1>2, <1>3, <2>1
<1>4. CASE k # 0
  <2>1. k - 1 \in Nat /\ k - 1 \notin Bad /\ k \in Nat
        BY <1>2, <1>4
  <2>2. PICK F : Joins(s, k - 1, F)
        BY <2>1
  <2>3. \A i \in 1 .. k - 1 : F[i] = IF i = 1 THEN s[i] ELSE F[i - 1] \o s[i]
        BY <2>2 DEF Joins
  <2> DEFINE G == [i \in 1 .. k |-> IF i < k THEN F[i]
                                    ELSE IF i = 1 THEN s[i] ELSE F[i - 1] \o s[i]]
  <2>4. \A i \in 1 .. k - 1 : i \in 1 .. k /\ i < k /\ G[i] = F[i]
        BY <2>1
  <2>5. ASSUME NEW i \in 1 .. k
        PROVE  G[i] = IF i = 1 THEN s[i] ELSE G[i - 1] \o s[i]
    <3>1. i # 1 => i - 1 \in 1 .. k - 1
          BY <2>1
    <3>2. CASE i < k
      <4>1. i \in 1 .. k - 1
            BY <2>1, <3>2
      <4> QED
        BY <2>3, <2>4, <3>1, <4>1
    <3>3. CASE ~(i < k)
          BY <2>4, <3>1, <3>3
    <3> QED
      BY <3>2, <3>3
  <2>6. G = [i \in 1 .. k |-> G[i]]
        OBVIOUS
  <2> HIDE DEF G
  <2>7. [i \in 1 .. k |-> G[i]] = [i \in 1 .. k |-> IF i = 1 THEN s[i] ELSE G[i - 1] \o s[i]]
        BY <2>5
  <2>8. Joins(s, k, G)
        BY <2>6, <2>7 DEF Joins
  <2> QED
    BY <1>2, <2>8
<1> QED
  BY <1>3, <1>4

\* Every place of q is a place of one of the first n sequences of s, and the other way
\* round: inner and outer say which.
Places(s, n, q, outer, inner) ==
  /\ \A k \in 1 .. Len(q) :
       /\ outer[k] \in 1 .. n /\ inner[k] \in 1 .. Len(s[outer[k]])
       /\ q[k] = s[outer[k]][inner[k]]
  /\ \A k, l \in 1 .. Len(q) : outer[k] = outer[l] /\ inner[k] = inner[l] => k = l
  /\ \A i \in 1 .. n : \A j \in 1 .. Len(s[i]) :
       \E k \in 1 .. Len(q) : outer[k] = i /\ inner[k] = j

LEMMA JoinsPlaces ==
  ASSUME NEW D, NEW n \in Nat, NEW s \in [1 .. n -> Seq(D)], NEW F, Joins(s, n, F),
         NEW m \in 1 .. n
  PROVE  F[m] \in Seq(D) /\ \E outer, inner : Places(s, m, F[m], outer, inner)
<1> DEFINE Good(k) == F[k] \in Seq(D) /\ \E outer, inner : Places(s, k, F[k], outer, inner)
<1> DEFINE Bad == {k \in 1 .. n : ~Good(k)}
<1>1. SUFFICES ASSUME Bad # {}
               PROVE  FALSE
      OBVIOUS
<1>2. PICK k \in Bad : \A l \in Bad : k <= l
  <2>1. Bad \in SUBSET Nat
        OBVIOUS
  <2> HIDE DEF Bad
  <2> QED
    BY <1>1, <2>1, Least
<1>3. k \in 1 .. n /\ ~Good(k)
      OBVIOUS
<1>4. F[k] = IF k = 1 THEN s[k] ELSE F[k - 1] \o s[k]
      BY <1>3 DEF Joins
<1>5. s[k] \in Seq(D)
      BY <1>3
<1>6. CASE k = 1
  <2> DEFINE outer == [l \in 1 .. Len(s[1]) |-> 1]
  <2> DEFINE inner == [l \in 1 .. Len(s[1]) |-> l]
  <2>1. Places(s, 1, s[1], outer, inner)
        BY DEF Places
  <2> HIDE DEF outer, inner
  <2> QED
    BY <1>3, <1>4, <1>5, <1>6, <2>1
<1>7. CASE k # 1
  <2>1. k - 1 \in 1 .. n /\ k - 1 \notin Bad
    <3> HIDE DEF Bad
    <3>1. k - 1 \in 1 .. n /\ ~(k <= k - 1)
          BY <1>3, <1>7
    <3> QED
      BY <1>2, <3>1
  <2>2. Good(k - 1)
        BY <2>1
  <2> DEFINE p == F[k - 1]
  <2> DEFINE q == F[k]
  <2>3. PICK outer, inner : Places(s, k - 1, p, outer, inner)
        BY <2>2
  <2>4. p \in Seq(D) /\ Len(p) \in Nat /\ Len(s[k]) \in Nat
        BY <1>5, <2>2
  <2>5. q = p \o s[k]
        BY <1>4, <1>7
  <2>6. /\ q \in Seq(D) /\ Len(q) = Len(p) + Len(s[k])
        /\ \A l \in 1 .. Len(p) + Len(s[k]) :
             q[l] = IF l <= Len(p) THEN p[l] ELSE s[k][l - Len(p)]
        BY <1>5, <2>4, <2>5, ConcatProperties
  <2> DEFINE out == [l \in 1 .. Len(q) |-> IF l <= Len(p) THEN outer[l] ELSE k]
  <2> DEFINE inn == [l \in 1 .. Len(q) |-> IF l <= Len(p) THEN inner[l] ELSE l - Len(p)]
  <2>7. \A l \in 1 .. Len(q) :
          /\ out[l] = IF l <= Len(p) THEN outer[l] ELSE k
          /\ inn[l] = IF l <= Len(p) THEN inner[l] ELSE l - Len(p)
        OBVIOUS
  <2> HIDE DEF p, q, out, inn, Bad
  <2>8. ASSUME NEW l \in 1 .. Len(q)
        PROVE  /\ out[l] \in 1 .. k /\ inn[l] \in 1 .. Len(s[out[l]])
               /\ q[l] = s[out[l]][inn[l]]
    <3>1. CASE l <= Len(p)
      <4>1. l \in 1 .. Len(p)
            BY <2>4, <2>6, <3>1
      <4>2. /\ outer[l] \in 1 .. k - 1 /\ inner[l] \in 1 .. Len(s[outer[l]])
            /\ p[l] = s[outer[l]][inner[l]]
            BY <2>3, <4>1 DEF Places
      <4>3. outer[l] \in 1 .. k
            BY <1>3, <4>2
      <4> QED
        BY <2>6, <2>7, <3>1, <4>2, <4>3
    <3>2. CASE ~(l <= Len(p))
      <4>1. l - Len(p) \in 1 .. Len(s[k]) /\ k \in 1 .. k
            BY <1>3, <2>4, <2>6, <3>2
      <4> QED
        BY <2>6, <2>7, <3>2, <4>1
    <3> QED
      BY <3>1, <3>2
  <2>9. ASSUME NEW l \in 1 .. Len(q), NEW r \in 1 .. Len(q), out[l] = out[r], inn[l] = inn[r]
        PROVE  l = r
    <3>1. \A t \in 1 .. Len(q) : t <= Len(p) => t \in 1 .. Len(p) /\ outer[t] # k
      <4> TAKE t \in 1 .. Len(q)
      <4> HAVE t <= Len(p)
      <4>1. t \in 1 .. Len(p)
            BY <2>4, <2>6
      <4>2. outer[t] \in 1 .. k - 1
            BY <2>3, <4>1 DEF Places
      <4> QED
        BY <1>3, <4>1, <4>2
    <3>2. CASE l <= Len(p)
      <4>1. r <= Len(p)
            BY <2>7, <2>9, <3>1, <3>2
      <4> QED
        BY <2>3, <2>7, <2>9, <3>1, <3>2, <4>1 DEF Places
    <3>3. CASE ~(l <= Len(p))
      <4>1. ~(r <= Len(p))
            BY <2>7, <2>9, <3>1, <3>3
      <4>2. l - Len(p) = r - Len(p)
            BY <2>7, <2>9, <3>3, <4>1
      <4> QED
        BY <2>4, <2>6, <4>2
    <3> QED
      BY <3>2, <3>3
  <2>10. ASSUME NEW i \in 1 .. k, NEW j \in 1 .. Len(s[i])
         PROVE  \E l \in 1 .. Len(q) : out[l] = i /\ inn[l] = j
    <3>1. CASE i = k
      <4> DEFINE l == Len(p) + j
      <4>1. l \in 1 .. Len(q) /\ ~(l <= Len(p)) /\ l - Len(p) = j
            BY <2>4, <2>6, <3>1
      <4> HIDE DEF l
      <4>2. out[l] = k /\ inn[l] = j
            BY <2>7, <4>1
      <4> QED
        BY <3>1, <4>1, <4>2
    <3>2. CASE i # k
      <4>1. i \in 1 .. k - 1
            BY <1>3, <3>2
      <4>2. PICK l \in 1 .. Len(p) : outer[l] = i /\ inner[l] = j
            BY <2>3, <4>1 DEF Places
      <4>3. l \in 1 .. Len(q) /\ l <= Len(p)
            BY <2>4, <2>6
      <4> QED
        BY <2>7, <4>2, <4>3
    <3> QED
      BY <3>1, <3>2
  <2>11. Places(s, k, q, out, inn)
         BY <2>8, <2>9, <2>10 DEF Places
  <2>12. Good(k)
         BY <2>6, <2>11 DEF q
  <2> QED
    BY <1>3, <2>12
<1> QED
  BY <1>6, <1>7

\* FlattenSeq keeps every element of the inner sequences, each in a place of its own.
LEMMA Flattened ==
  ASSUME NEW D, NEW n \in Nat, NEW s \in [1 .. n -> Seq(D)]
  PROVE  /\ FlattenSeq(s) \in Seq(D)
         /\ \E outer, inner : Places(s, n, FlattenSeq(s), outer, inner)
<1>1. s \in Seq(Seq(D)) /\ Len(s) = n
      OBVIOUS
<1>2. CASE n = 0
  <2>1. FlattenSeq(s) = s /\ s = <<>>
        BY <1>1, <1>2, EmptySeq DEF FlattenSeq
  <2>2. FlattenSeq(s) \in Seq(D) /\ Len(FlattenSeq(s)) = 0
        BY <2>1, EmptySeq
  <2>3. Places(s, 0, FlattenSeq(s), s, s)
        BY <2>2 DEF Places
  <2> QED
    BY <1>2, <2>2, <2>3
<1>3. CASE n # 0
  <2> DEFINE F == CHOOSE F : Joins(s, n, F)
  <2>1. Joins(s, n, F)
        BY JoinsExist
  <2>2. FlattenSeq(s) = F[n]
        BY <1>1, <1>3 DEF FlattenSeq, Joins
  <2> HIDE DEF F
  <2>3. n \in 1 .. n
        BY <1>3
  <2> QED
    BY <2>1, <2>2, <2>3, JoinsPlaces
<1> QED
  BY <1>2, <1>3

-----------------------------------------------------------------------------
(* The inductive invariant *)

\* Objects have uuids of their own, and entries have one that an object has or had.
Names ==
  /\ \A o \in Timer : obj[o].uuid[1] = o
  /\ \A i \in 1 .. Len(timers) : timers[i].uuid[2] <= obj[timers[i].uuid[1]].uuid[2]

Single == \A i, j \in 1 .. Len(timers) : timers[i].uuid = timers[j].uuid => i = j

\* An entry's interval is what is left of it, and it has somebody to tell.
Counts(t, rounds) ==
  /\ t.interval_set > 0 /\ t.to # {}
  /\ t.interval = IF t.immediate THEN 0
                  ELSE t.interval_set - rounds * TIMER_INTERVAL_MIN_MS
Counting == \A i \in 1 .. Len(timers) : Counts(timers[i], age[timers[i].uuid])

\* An entry that does not repeat has its message still to make.
Shots == \A u \in UUID, d \in Dest : fired[u][d] + (IF OneShot(u) THEN 1 ELSE 0) <= starts[u]

Silent == \A o \in stopped : ~isTimerExist(obj[o].uuid)

IInv == TypeOK /\ Names /\ Single /\ Counting /\ Shots /\ Silent

-----------------------------------------------------------------------------
(* The list *)

Object == [uuid : UUID, interval_set : Interval \cup {0}, repeat : BOOLEAN, to : SUBSET Dest]

LEMMA Typed ==
  ASSUME IInv
  PROVE  /\ obj \in [Timer -> [uuid : UUID, interval_set : Interval \cup {0}, repeat : BOOLEAN,
                               to : SUBSET Dest]]
         /\ timers \in Seq(Entry) /\ Len(timers) \in Nat
         /\ \A i \in 1 .. Len(timers) : timers[i] \in Entry
         /\ age \in [UUID -> Nat] /\ starts \in [UUID -> Nat] /\ fired \in [UUID -> [Dest -> Nat]]
         /\ stopped \subseteq Timer /\ calls \in Nat /\ opc \in [Timer -> {"idle", "stop"}]
<1> QED
  BY DEF IInv, TypeOK

LEMMA Numbers ==
  /\ TIMER_INTERVAL_MIN_MS \in Nat \ {0}
  /\ \A x \in Interval : x \in Int
  /\ MaxUUID \in Nat \ {0}
  /\ \A u \in UUID : u[1] \in Timer /\ u[2] \in 1 .. MaxUUID /\ u = <<u[1], u[2]>>
<1> QED
  BY IntervalAssumption DEF UUID

\* A sequence without its m-th element.
LEMMA Removed ==
  ASSUME NEW D, NEW q \in Seq(D), NEW m \in 1 .. Len(q)
  PROVE  /\ RemoveAt(q, m) \in Seq(D) /\ Len(RemoveAt(q, m)) = Len(q) - 1
         /\ \A j \in 1 .. Len(q) - 1 :
              RemoveAt(q, m)[j] = IF j < m THEN q[j] ELSE q[j + 1]
<1> DEFINE n == Len(q)
<1> DEFINE a == SubSeq(q, 1, m - 1)
<1> DEFINE b == SubSeq(q, m + 1, n)
<1> DEFINE w == a \o b
<1>1. m \in 1 .. n /\ n \in Nat /\ \A j \in 1 .. n : q[j] \in D
      OBVIOUS
<1>2. RemoveAt(q, m) = w
      BY DEF RemoveAt
<1>3. /\ a \in Seq(D) /\ Len(a) = m - 1
      /\ \A j \in 1 .. m - 1 : a[j] = q[j]
  <2>1. /\ a \in Seq(D) /\ Len(a) = IF 1 <= m - 1 THEN m - 1 - 1 + 1 ELSE 0
        /\ \A j \in 1 .. m - 1 - 1 + 1 : a[j] = q[1 + j - 1]
        BY <1>1, SubSeqProperties
  <2> QED
    BY <1>1, <2>1
<1>4. /\ b \in Seq(D) /\ Len(b) = n - m
      /\ \A j \in 1 .. n - m : b[j] = q[m + j]
  <2>1. /\ b \in Seq(D) /\ Len(b) = IF m + 1 <= n THEN n - (m + 1) + 1 ELSE 0
        /\ \A j \in 1 .. n - (m + 1) + 1 : b[j] = q[m + 1 + j - 1]
        BY <1>1, SubSeqProperties
  <2> QED
    BY <1>1, <2>1
<1> HIDE DEF a, b
<1>5. /\ w \in Seq(D) /\ Len(w) = Len(a) + Len(b)
      /\ \A j \in 1 .. Len(a) + Len(b) : w[j] = IF j <= Len(a) THEN a[j] ELSE b[j - Len(a)]
      BY <1>3, <1>4, ConcatProperties
<1>6. Len(a) + Len(b) = n - 1
      BY <1>1, <1>3, <1>4
<1> HIDE DEF w, n
<1>7. ASSUME NEW j \in 1 .. n - 1
      PROVE  w[j] = IF j < m THEN q[j] ELSE q[j + 1]
  <2>1. CASE j < m
        BY <1>1, <1>3, <1>5, <1>6, <2>1
  <2>2. CASE ~(j < m)
    <3> DEFINE i == j - Len(a)
    <3>1. i \in 1 .. n - m /\ m + i = j + 1 /\ ~(j <= Len(a))
          BY <1>1, <1>3, <2>2
    <3>2. w[j] = b[i]
          BY <1>5, <1>6, <3>1
    <3> HIDE DEF i
    <3>3. b[i] = q[j + 1]
          BY <1>4, <3>1
    <3> QED
      BY <2>2, <3>2, <3>3
  <2> QED
    BY <2>1, <2>2
<1> QED
  BY <1>2, <1>5, <1>6, <1>7 DEF n

\* Where the entries of w come from, and that those of u are not among them.
Rest(w, u) ==
  /\ w \in Seq(Entry)
  /\ \A j \in 1 .. Len(w) :
       \E i \in 1 .. Len(timers) : w[j] = timers[i] /\ timers[i].uuid # u
  /\ \A j, k \in 1 .. Len(w) : w[j].uuid = w[k].uuid => j = k

LEMMA WithoutRest ==
  ASSUME IInv, NEW u
  PROVE  Rest(Without(u), u)
<1> DEFINE M == {i \in 1 .. Len(timers) : timers[i].uuid = u}
<1>1. /\ timers \in Seq(Entry) /\ Len(timers) \in Nat
      /\ \A i, j \in 1 .. Len(timers) : timers[i].uuid = timers[j].uuid => i = j
      BY Typed DEF IInv, Single
<1>2. CASE M = {}
  <2>1. Without(u) = timers
        BY <1>2 DEF Without, RemoveFirstMatch
  <2> QED
    BY <1>1, <1>2, <2>1 DEF Rest
<1>3. CASE M # {}
  <2>1. Without(u) = RemoveAt(timers, Min(M))
        BY <1>3 DEF Without, RemoveFirstMatch, SelectInSeq
  <2>2. Min(M) \in M
    <3>1. M \in SUBSET Nat
          OBVIOUS
    <3>2. \E m \in M : \A x \in M : m <= x
      <4> HIDE DEF M
      <4> QED
        BY <1>3, <3>1, Least
    <3> QED
      BY <3>2 DEF Min
  <2>3. PICK m \in 1 .. Len(timers) : m = Min(M) /\ timers[m].uuid = u
        BY <2>2
  <2>4. PICK w : w = Without(u)
        OBVIOUS
  <2>5. /\ w \in Seq(Entry) /\ Len(w) = Len(timers) - 1
        /\ \A j \in 1 .. Len(timers) - 1 : w[j] = IF j < m THEN timers[j] ELSE timers[j + 1]
    <3>1. w = RemoveAt(timers, m)
          BY <2>1, <2>3, <2>4
    <3>2. /\ RemoveAt(timers, m) \in Seq(Entry) /\ Len(RemoveAt(timers, m)) = Len(timers) - 1
          /\ \A j \in 1 .. Len(timers) - 1 :
               RemoveAt(timers, m)[j] = IF j < m THEN timers[j] ELSE timers[j + 1]
          BY <1>1, <2>3, Removed
    <3> QED
      BY <3>1, <3>2
  <2>6. ASSUME NEW j \in 1 .. Len(timers) - 1
        PROVE  \E i \in 1 .. Len(timers) : /\ w[j] = timers[i] /\ i # m
                                           /\ i = IF j < m THEN j ELSE j + 1
        BY <1>1, <2>5
  <2>7. \A j \in 1 .. Len(w) :
          \E i \in 1 .. Len(timers) : w[j] = timers[i] /\ timers[i].uuid # u
        BY <1>1, <2>3, <2>5, <2>6, SMTT(20)
  <2>8. ASSUME NEW j \in 1 .. Len(w), NEW k \in 1 .. Len(w), w[j].uuid = w[k].uuid
        PROVE  j = k
    <3>1. PICK i \in 1 .. Len(timers) : w[j] = timers[i] /\ i = IF j < m THEN j ELSE j + 1
          BY <2>5, <2>6
    <3>2. PICK l \in 1 .. Len(timers) : w[k] = timers[l] /\ l = IF k < m THEN k ELSE k + 1
          BY <2>5, <2>6
    <3>3. i = l
          BY <1>1, <2>8, <3>1, <3>2
    <3> QED
      BY <3>1, <3>2, <3>3
  <2> QED
    BY <2>4, <2>5, <2>7, <2>8 DEF Rest
<1> QED
  BY <1>2, <1>3

-----------------------------------------------------------------------------
(* ComTimer *)

\* A step of ComTimer does not touch the loop.
LEMMA UseTypes ==
  ASSUME IInv, obj' \in [Timer -> Object], opc' \in [Timer -> {"idle", "stop"}],
         timers' \in Seq(Entry), calls' \in {calls, calls + 1}, age' \in [UUID -> Nat],
         starts' \in [UUID -> Nat], fired' = fired, stopped' \subseteq Timer,
         UNCHANGED <<running_loop, tpc, timeout_msgs, mpc>>
  PROVE  TypeOK'
<1>1. calls' \in Nat
      BY Typed
<1>2. fired' \in [UUID -> [Dest -> Nat]]
      BY Typed
<1>3. /\ running_loop' \in BOOLEAN /\ tpc' \in {"scan", "send", "ended"}
      /\ timeout_msgs' \in Seq([uuid : UUID, to : Dest])
      /\ (tpc' # "send" => timeout_msgs' = <<>>) /\ mpc' \in {"idle", "join", "stopped"}
      BY DEF IInv, TypeOK
<1> QED
  BY <1>1, <1>2, <1>3 DEF TypeOK, Object

\* A step that leaves the list and the uuids alone.
LEMMA ListRests ==
  ASSUME IInv, TypeOK', UNCHANGED <<timers, age, fired, starts>>,
         \A o \in Timer : obj'[o].uuid = obj[o].uuid,
         \A o \in stopped' : o \in stopped \/ ~isTimerExist(obj[o].uuid)
  PROVE  IInv'
<1>1. Names'
  <2>1. \A i \in 1 .. Len(timers) : timers[i].uuid[1] \in Timer
        BY Typed, Numbers DEF Entry
  <2> QED
    BY <2>1 DEF IInv, Names
<1>2. Single' /\ Counting'
      BY DEF IInv, Single, Counting, Counts
<1>3. Shots'
      BY DEF IInv, Shots, OneShot, Again
<1>4. Silent'
  <2>1. stopped' \subseteq Timer
        BY DEF TypeOK
  <2> QED
    BY <2>1 DEF IInv, Silent, isTimerExist
<1> QED
  BY <1>1, <1>2, <1>3, <1>4 DEF IInv

LEMMA SetTypeKeeps ==
  ASSUME IInv, NEW o \in Timer, NEW d \in Dest, setType(o, d)
  PROVE  IInv'
<1>1. /\ calls' = calls + 1 /\ obj[o].uuid[2] < MaxUUID
      /\ obj' = [obj EXCEPT ![o].to = @ \cup {d}, ![o].uuid = <<o, @[2] + 1>>]
      /\ UNCHANGED <<opc, timers, running_loop, tpc, timeout_msgs, age, fired, mpc, starts,
                     stopped>>
      BY DEF setType, Call, loopVars
<1>2. obj \in [Timer -> Object]
      BY Typed DEF Object
<1>3. PICK n \in 1 .. MaxUUID : obj[o].uuid = <<o, n>> /\ n + 1 \in 1 .. MaxUUID
  <2>1. obj[o].uuid \in UUID /\ obj[o].uuid[1] = o
        BY <1>2 DEF Object, IInv, Names
  <2> QED
    BY <1>1, <2>1, Numbers
<1>4. PICK t : t = [obj[o] EXCEPT !.to = @ \cup {d}, !.uuid = <<o, n + 1>>]
      OBVIOUS
<1>5. obj' = [obj EXCEPT ![o] = t]
      BY <1>1, <1>2, <1>3, <1>4 DEF Object
<1>6. t \in Object /\ t.uuid = <<o, n + 1>>
  <2>1. <<o, n + 1>> \in UUID
        BY <1>3 DEF UUID
  <2> QED
    BY <1>2, <1>4, <2>1 DEF Object
<1>7. /\ obj' \in [Timer -> Object] /\ obj'[o].uuid = <<o, n + 1>>
      /\ \A x \in Timer \ {o} : obj'[x] = obj[x]
      BY <1>2, <1>5, <1>6
<1>8. TypeOK'
      BY <1>1, <1>7, UseTypes, Typed
<1>9. \A x \in Timer : obj[x].uuid[1] = x /\ obj[x].uuid \in UUID
      BY <1>2 DEF Object, IInv, Names
<1>10. \A x \in Timer : obj'[x].uuid[1] = x /\ obj[x].uuid[2] <= obj'[x].uuid[2]
  <2> TAKE x \in Timer
  <2>1. CASE x = o
        BY <1>3, <1>7, <2>1
  <2>2. CASE x # o
    <3>1. obj[x].uuid[2] \in Nat /\ obj'[x] = obj[x]
          BY <1>7, <1>9, <2>2, Numbers
    <3> QED
      BY <1>9, <3>1
  <2> QED
    BY <2>1, <2>2
<1>11. \A i \in 1 .. Len(timers) :
        /\ timers[i].uuid \in UUID /\ timers[i].uuid[1] \in Timer
        /\ timers[i].uuid[2] <= obj[timers[i].uuid[1]].uuid[2]
      BY Typed, Numbers DEF Entry, IInv, Names
<1>12. Names'
  <2>1. ASSUME NEW i \in 1 .. Len(timers)
        PROVE  timers[i].uuid[2] <= obj'[timers[i].uuid[1]].uuid[2]
    <3>1. PICK x \in Timer : x = timers[i].uuid[1]
          BY <1>11
    <3>2. timers[i].uuid[2] \in Int /\ obj[x].uuid[2] \in Int /\ obj'[x].uuid \in UUID
          BY <1>7, <1>9, <1>11, Numbers DEF Object
    <3>3. obj'[x].uuid[2] \in Int
          BY <3>2, Numbers
    <3>4. obj[x].uuid[2] <= obj'[x].uuid[2] /\ timers[i].uuid[2] <= obj[x].uuid[2]
          BY <1>10, <1>11, <3>1
    <3> QED
      BY <3>1, <3>2, <3>3, <3>4
  <2> QED
    BY <1>1, <1>10, <2>1 DEF Names
<1>13. Single' /\ Counting'
      BY <1>1 DEF IInv, Single, Counting, Counts
<1>14. Shots'
      BY <1>1 DEF IInv, Shots, OneShot, Again
<1>15. Silent'
  <2> SUFFICES ASSUME NEW x \in stopped, NEW i \in 1 .. Len(timers), timers[i].uuid = obj'[x].uuid
               PROVE  FALSE
      BY <1>1 DEF Silent, isTimerExist
  <2>1. CASE x = o
        BY <1>3, <1>7, <1>11, <2>1
  <2>2. CASE x # o
        BY <1>7, <2>2, Typed DEF IInv, Silent, isTimerExist
  <2> QED
    BY <2>1, <2>2
<1> QED
  BY <1>8, <1>12, <1>13, <1>14, <1>15 DEF IInv

LEMMA SetKeeps ==
  ASSUME IInv, NEW o \in Timer,
         setRepeat(o) \/ \E ms \in Interval : setInterval(o, ms)
  PROVE  IInv'
<1>1. /\ calls' = calls + 1
      /\ UNCHANGED <<opc, timers, running_loop, tpc, timeout_msgs, age, fired, mpc, starts,
                     stopped>>
      /\ \/ obj' = [obj EXCEPT ![o].repeat = ~@]
         \/ \E ms \in Interval : obj' = [obj EXCEPT ![o].interval_set = ms]
      BY DEF setRepeat, setInterval, Call, loopVars
<1>2. obj \in [Timer -> Object]
      BY Typed DEF Object
<1>3. PICK t \in Object : obj' = [obj EXCEPT ![o] = t] /\ t.uuid = obj[o].uuid
  <2>1. CASE obj' = [obj EXCEPT ![o].repeat = ~@]
    <3>1. [obj[o] EXCEPT !.repeat = ~@] \in Object
          BY <1>2 DEF Object
    <3>2. [obj[o] EXCEPT !.repeat = ~@].uuid = obj[o].uuid
          BY <1>2 DEF Object
    <3> QED
      BY <2>1, <3>1, <3>2
  <2>2. ASSUME NEW ms \in Interval, obj' = [obj EXCEPT ![o].interval_set = ms]
        PROVE  \E t \in Object : obj' = [obj EXCEPT ![o] = t] /\ t.uuid = obj[o].uuid
    <3>1. [obj[o] EXCEPT !.interval_set = ms] \in Object
          BY <1>2 DEF Object
    <3>2. [obj[o] EXCEPT !.interval_set = ms].uuid = obj[o].uuid
          BY <1>2 DEF Object
    <3> QED
      BY <2>2, <3>1, <3>2
  <2> QED
    BY <1>1, <2>1, <2>2
<1>4. obj' \in [Timer -> Object] /\ \A x \in Timer : obj'[x].uuid = obj[x].uuid
      BY <1>2, <1>3
<1>5. TypeOK'
      BY <1>1, <1>4, UseTypes, Typed
<1> QED
  BY <1>1, <1>4, <1>5, ListRests

\* What follows for the list when the entry of an object goes.
LEMMA RestKeeps ==
  ASSUME IInv, NEW o \in Timer, Rest(timers', obj[o].uuid), TypeOK',
         UNCHANGED <<obj, age, fired, starts>>, stopped' \subseteq stopped \cup {o}
  PROVE  IInv'
<1>1. \A j \in 1 .. Len(timers') :
        \E i \in 1 .. Len(timers) : timers'[j] = timers[i] /\ timers[i].uuid # obj[o].uuid
      BY DEF Rest
<1>2. Names'
      BY <1>1 DEF IInv, Names
<1>3. Counting'
      BY <1>1 DEF IInv, Counting, Counts
<1>4. Single'
      BY DEF Rest, Single
<1>5. Shots'
  <2>1. \A u \in UUID : OneShot(u)' => OneShot(u)
        BY <1>1 DEF OneShot, Again
  <2>2. \A u \in UUID, d \in Dest : fired[u][d] \in Nat /\ starts[u] \in Nat
        BY Typed
  <2>3. ASSUME NEW u \in UUID, NEW d \in Dest
        PROVE  fired[u][d] + (IF OneShot(u)' THEN 1 ELSE 0) <= starts[u]
    <3>1. fired[u][d] + (IF OneShot(u) THEN 1 ELSE 0) <= starts[u]
          BY DEF IInv, Shots
    <3> QED
      BY <2>1, <2>2, <3>1
  <2> QED
    BY <2>3 DEF Shots
<1>6. Silent'
      BY <1>1 DEF IInv, Silent, isTimerExist
<1> QED
  BY <1>2, <1>3, <1>4, <1>5, <1>6 DEF IInv

LEMMA StopKeeps ==
  ASSUME IInv, NEW o \in Timer, stop(o)
  PROVE  IInv'
<1>1. /\ calls' = calls + 1 /\ opc[o] = "idle"
      /\ UNCHANGED <<obj, timers, running_loop, tpc, timeout_msgs, age, fired, mpc, starts>>
      /\ \/ opc' = [opc EXCEPT ![o] = "stop"] /\ UNCHANGED stopped
         \/ ~isTimerExist(obj[o].uuid) /\ stopped' = stopped \cup {o} /\ UNCHANGED opc
      BY DEF stop, Call, loopVars
<1>2. opc' \in [Timer -> {"idle", "stop"}] /\ stopped' \subseteq Timer
      BY <1>1, Typed
<1>3. TypeOK'
      BY <1>1, <1>2, UseTypes, Typed DEF Object
<1> QED
  BY <1>1, <1>3, ListRests

LEMMA RemoveKeeps ==
  ASSUME IInv, NEW o \in Timer, removeTimer(o)
  PROVE  IInv'
<1>1. /\ timers' = Without(obj[o].uuid) /\ opc' = [opc EXCEPT ![o] = "idle"]
      /\ stopped' = stopped \cup {o}
      /\ UNCHANGED <<obj, calls, starts, running_loop, tpc, timeout_msgs, age, fired, mpc>>
      BY DEF removeTimer, loopVars
<1>2. Rest(timers', obj[o].uuid)
      BY <1>1, WithoutRest
<1>3. TypeOK'
      BY <1>1, <1>2, UseTypes, Typed DEF Rest, Object
<1> QED
  BY <1>1, <1>2, <1>3, RestKeeps

LEMMA StartKeeps ==
  ASSUME IInv, NEW o \in Timer, NEW immediate \in BOOLEAN, start(o, immediate)
  PROVE  IInv'
<1>1. PICK u, t, w : u = obj[o].uuid /\ t = Copy(o, immediate) /\ w = Without(u)
      OBVIOUS
<1>2. /\ calls' = calls + 1 /\ obj[o].interval_set > 0 /\ obj[o].to # {}
      /\ timers' = Append(w, t)
      /\ age' = [age EXCEPT ![u] = 0] /\ starts' = [starts EXCEPT ![u] = @ + 1]
      /\ stopped' = stopped \ {o}
      /\ UNCHANGED <<obj, opc, running_loop, tpc, timeout_msgs, fired, mpc>>
      BY <1>1 DEF start, Call, updateTimer
<1>3. Rest(w, u)
      BY <1>1, WithoutRest
<1>4. obj[o] \in Object /\ u \in UUID /\ u[1] = o
      BY <1>1, Typed DEF Object, IInv, Names
<1>5. /\ t \in Entry /\ t.uuid = u /\ t.interval_set = obj[o].interval_set /\ t.to = obj[o].to
      /\ t.immediate = immediate /\ t.interval = IF immediate THEN 0 ELSE t.interval_set
  <2>1. /\ obj[o].interval_set \in Interval /\ obj[o].interval_set \in Int
        /\ obj[o].repeat \in BOOLEAN /\ obj[o].to \in SUBSET Dest
        BY <1>2, <1>4, Numbers DEF Object
  <2> QED
    BY <1>1, <1>4, <2>1 DEF Copy, Entry
<1>6. /\ timers' \in Seq(Entry) /\ Len(timers') = Len(w) + 1 /\ Len(w) \in Nat
      /\ \A j \in 1 .. Len(w) : timers'[j] = w[j]
      /\ timers'[Len(w) + 1] = t
      BY <1>2, <1>3, <1>5 DEF Rest
<1>7. ASSUME NEW j \in 1 .. Len(timers')
      PROVE  \/ j = Len(w) + 1 /\ timers'[j] = t
             \/ /\ j \in 1 .. Len(w) /\ timers'[j] = w[j]
                /\ \E i \in 1 .. Len(timers) : timers'[j] = timers[i] /\ timers[i].uuid # u
  <2>1. CASE j = Len(w) + 1
        BY <1>6, <2>1
  <2>2. CASE j # Len(w) + 1
    <3>1. j \in 1 .. Len(w)
          BY <1>6, <2>2
    <3> QED
      BY <1>3, <1>6, <3>1 DEF Rest
  <2> QED
    BY <2>1, <2>2
<1>8. /\ age' \in [UUID -> Nat] /\ age'[u] = 0 /\ \A x \in UUID \ {u} : age'[x] = age[x]
      /\ starts' \in [UUID -> Nat] /\ starts'[u] = starts[u] + 1
      /\ \A x \in UUID \ {u} : starts'[x] = starts[x]
      BY <1>2, <1>4, Typed
<1>9. TypeOK'
  <2>1. /\ obj' \in [Timer -> Object] /\ opc' \in [Timer -> {"idle", "stop"}]
        /\ stopped' \subseteq Timer
        BY <1>2, Typed DEF Object
  <2> QED
    BY <1>2, <1>6, <1>8, <2>1, UseTypes
<1>10. Names'
  <2>1. u[2] <= obj[o].uuid[2]
        BY <1>1, <1>4, Numbers
  <2> QED
    BY <1>2, <1>4, <1>5, <1>7, <2>1 DEF IInv, Names
<1>11. Single'
  <2> SUFFICES ASSUME NEW j \in 1 .. Len(timers'), NEW k \in 1 .. Len(timers'),
                      timers'[j].uuid = timers'[k].uuid
               PROVE  j = k
      BY DEF Single
  <2> QED
    BY <1>3, <1>5, <1>7 DEF Rest
<1>12. Counting'
  <2> SUFFICES ASSUME NEW j \in 1 .. Len(timers')
               PROVE  Counts(timers'[j], age'[timers'[j].uuid])
      BY DEF Counting
  <2>1. CASE timers'[j] = t
    <3>1. 0 * TIMER_INTERVAL_MIN_MS = 0 /\ t.interval_set \in Int
          BY <1>5, Numbers DEF Entry
    <3> QED
      BY <1>2, <1>5, <1>8, <2>1, <3>1 DEF Counts
  <2>2. CASE timers'[j] # t
    <3>1. PICK i \in 1 .. Len(timers) : timers'[j] = timers[i] /\ timers[i].uuid # u
          BY <1>7, <2>2
    <3>2. timers[i].uuid \in UUID
          BY Typed DEF Entry
    <3>3. age'[timers[i].uuid] = age[timers[i].uuid]
          BY <1>8, <3>1, <3>2
    <3> QED
      BY <3>1, <3>3 DEF IInv, Counting, Counts
  <2> QED
    BY <2>1, <2>2
<1>13. Shots'
  <2> SUFFICES ASSUME NEW x \in UUID, NEW d \in Dest
               PROVE  fired[x][d] + (IF OneShot(x)' THEN 1 ELSE 0) <= starts'[x]
      BY <1>2 DEF Shots
  <2>1. fired[x][d] + (IF OneShot(x) THEN 1 ELSE 0) <= starts[x]
        BY DEF IInv, Shots
  <2>2. fired[x][d] \in Nat /\ starts[x] \in Nat
        BY Typed
  <2>3. CASE x = u
        BY <1>8, <2>1, <2>2, <2>3
  <2>4. CASE x # u
    <3>1. OneShot(x)' => OneShot(x)
          BY <1>5, <1>7, <2>4 DEF OneShot, Again
    <3> QED
      BY <1>8, <2>1, <2>2, <2>4, <3>1
  <2> QED
    BY <2>3, <2>4
<1>14. Silent'
  <2> SUFFICES ASSUME NEW x \in stopped, x # o, NEW j \in 1 .. Len(timers'),
                      timers'[j].uuid = obj[x].uuid
               PROVE  FALSE
      BY <1>2 DEF Silent, isTimerExist
  <2>1. obj[x].uuid # u
        BY <1>4, Typed DEF IInv, Names
  <2>2. PICK i \in 1 .. Len(timers) : timers'[j] = timers[i]
        BY <1>5, <1>7, <2>1
  <2> QED
    BY <2>2 DEF IInv, Silent, isTimerExist
<1> QED
  BY <1>9, <1>10, <1>11, <1>12, <1>13, <1>14 DEF IInv

-----------------------------------------------------------------------------
(* ThreadTimerLoop *)

Msg == [uuid : UUID, to : Dest]

\* A timer makes one message for each it has to tell.
LEMMA MessagesFacts ==
  ASSUME NEW t \in Entry
  PROVE  /\ Messages(t) \in Seq(Msg) /\ Len(Messages(t)) \in Nat
         /\ \A j \in 1 .. Len(Messages(t)) : Due(t) /\ Messages(t)[j].uuid = t.uuid
         /\ \A j, k \in 1 .. Len(Messages(t)) : Messages(t)[j].to = Messages(t)[k].to => j = k
         /\ Due(t) /\ t.to # {} => 1 \in 1 .. Len(Messages(t))
<1> DEFINE a == [uuid |-> t.uuid, to |-> "task"]
<1> DEFINE b == [uuid |-> t.uuid, to |-> "fc"]
<1>1. a \in Msg /\ b \in Msg /\ a.uuid = t.uuid /\ b.uuid = t.uuid /\ a.to = "task" /\ b.to = "fc"
      BY DEF Entry, Msg, Dest
<1>2. t.to \subseteq {"task", "fc"}
      BY DEF Entry, Dest
<1>3. /\ Messages(t) = IF Due(t) THEN MessageTo(t, "task") \o MessageTo(t, "fc") ELSE <<>>
      /\ MessageTo(t, "task") = IF "task" \in t.to THEN <<a>> ELSE <<>>
      /\ MessageTo(t, "fc") = IF "fc" \in t.to THEN <<b>> ELSE <<>>
      BY DEF Messages, MessageTo
<1> HIDE DEF a, b
<1>4. CASE ~Due(t)
      BY <1>3, <1>4
<1>5. CASE Due(t) /\ "task" \in t.to /\ "fc" \in t.to
  <2>1. Messages(t) = <<a>> \o <<b>>
        BY <1>3, <1>5
  <2>2. <<a>> \in Seq(Msg) /\ <<b>> \in Seq(Msg) /\ Len(<<a>>) = 1 /\ Len(<<b>>) = 1
        BY <1>1
  <2>3. PICK m : m = Messages(t)
        OBVIOUS
  <2>4. m \in Seq(Msg) /\ Len(m) = 2 /\ m[1] = a /\ m[2] = b
    <3>1. /\ <<a>> \o <<b>> \in Seq(Msg) /\ Len(<<a>> \o <<b>>) = 2
          /\ (<<a>> \o <<b>>)[1] = a /\ (<<a>> \o <<b>>)[2] = b
          BY <2>2, ConcatProperties
    <3> QED
      BY <2>1, <2>3, <3>1
  <2>5. /\ \A j \in 1 .. Len(m) : m[j].uuid = t.uuid
        /\ \A j, k \in 1 .. Len(m) : m[j].to = m[k].to => j = k
        /\ Len(m) \in Nat /\ 1 \in 1 .. Len(m)
    <3>1. \A j \in 1 .. Len(m) : j = 1 \/ j = 2
          BY <2>4
    <3> QED
      BY <1>1, <2>4, <3>1
  <2> QED
    BY <1>5, <2>3, <2>4, <2>5
<1>6. CASE Due(t) /\ "task" \in t.to /\ "fc" \notin t.to
  <2>1. Messages(t) = <<a>> \o <<>>
        BY <1>3, <1>6
  <2>2. <<a>> \in Seq(Msg)
        BY <1>1
  <2>3. Messages(t) = <<a>>
        BY <2>1, <2>2, ConcatEmptySeq
  <2> QED
    BY <1>1, <1>6, <2>3
<1>7. CASE Due(t) /\ "task" \notin t.to /\ "fc" \in t.to
  <2>1. Messages(t) = <<>> \o <<b>>
        BY <1>3, <1>7
  <2>2. <<b>> \in Seq(Msg)
        BY <1>1
  <2>3. Messages(t) = <<b>>
        BY <2>1, <2>2, ConcatEmptySeq
  <2> QED
    BY <1>1, <1>7, <2>3
<1>8. CASE Due(t) /\ "task" \notin t.to /\ "fc" \notin t.to
  <2>1. Messages(t) = <<>> \o <<>> /\ t.to = {}
        BY <1>2, <1>3, <1>8
  <2>2. Messages(t) = <<>>
        BY <2>1, ConcatEmptySeq
  <2> QED
    BY <2>1, <2>2
<1> QED
  BY <1>4, <1>5, <1>6, <1>7, <1>8

\* A timer stays in the list once, or goes.
LEMMA StaysFacts ==
  ASSUME NEW t \in Entry, t.interval_set \in Int
  PROVE  /\ Stays(t) \in Seq(Entry) /\ Len(Stays(t)) \in {0, 1}
         /\ Len(Stays(t)) = 1 =>
              \/ ~Due(t) /\ Stays(t)[1] = Aged(t)
              \/ Due(t) /\ Again(t) /\ Stays(t)[1] = Reset(t)
         /\ ~Due(t) => Len(Stays(t)) = 1
<1>1. Aged(t) \in Entry /\ Reset(t) \in Entry
  <2>1. Left(t) \in Int
        BY Numbers DEF Left, Entry
  <2>2. [t EXCEPT !.interval = Left(t)] \in Entry
        BY <2>1 DEF Entry
  <2>3. [t EXCEPT !.interval = t.interval_set, !.immediate = FALSE] \in Entry
        BY DEF Entry
  <2> QED
    BY <2>2, <2>3 DEF Aged, Reset
<1>2. Stays(t) = <<Aged(t)>> \/ Stays(t) = <<Reset(t)>> \/ Stays(t) = <<>>
      BY DEF Stays
<1>3. CASE ~Due(t)
  <2>1. Stays(t) = <<Aged(t)>>
        BY <1>3 DEF Stays
  <2> QED
    BY <1>1, <1>3, <2>1
<1>4. CASE Due(t) /\ Again(t)
  <2>1. Stays(t) = <<Reset(t)>>
        BY <1>4 DEF Stays
  <2> QED
    BY <1>1, <1>4, <2>1
<1>5. CASE Due(t) /\ ~Again(t)
  <2>1. Stays(t) = <<>>
        BY <1>5 DEF Stays
  <2> QED
    BY <1>5, <2>1
<1> QED
  BY <1>3, <1>4, <1>5

\* The entries after a round come from different entries before it.
LEMMA ScannedEntries ==
  ASSUME IInv, timers' = FlattenSeq([i \in 1 .. Len(timers) |-> Stays(timers[i])])
  PROVE  /\ timers' \in Seq(Entry)
         /\ \E from : /\ \A k \in 1 .. Len(timers') :
                           /\ from[k] \in 1 .. Len(timers)
                           /\ \/ /\ ~Due(timers[from[k]])
                                 /\ timers'[k] = Aged(timers[from[k]])
                              \/ /\ Due(timers[from[k]]) /\ Again(timers[from[k]])
                                 /\ timers'[k] = Reset(timers[from[k]])
                      /\ \A k, l \in 1 .. Len(timers') : from[k] = from[l] => k = l
<1> DEFINE n == Len(timers)
<1> DEFINE s == [i \in 1 .. n |-> Stays(timers[i])]
<1>1. ASSUME NEW i \in 1 .. n
      PROVE  /\ s[i] = Stays(timers[i]) /\ s[i] \in Seq(Entry) /\ Len(s[i]) \in {0, 1}
             /\ Len(s[i]) = 1 =>
                  \/ ~Due(timers[i]) /\ s[i][1] = Aged(timers[i])
                  \/ Due(timers[i]) /\ Again(timers[i]) /\ s[i][1] = Reset(timers[i])
  <2>1. timers[i] \in Entry /\ timers[i].interval_set \in Int
        BY Typed, Numbers DEF Entry
  <2> QED
    BY <2>1, StaysFacts
<1>2. n \in Nat /\ s \in [1 .. n -> Seq(Entry)]
      BY <1>1, Typed
<1> HIDE DEF s, n
<1>3. timers' = FlattenSeq(s)
      BY DEF s, n
<1>4. timers' \in Seq(Entry) /\ \E outer, inner : Places(s, n, timers', outer, inner)
      BY <1>2, <1>3, Flattened
<1>5. PICK outer, inner : Places(s, n, timers', outer, inner)
      BY <1>4
<1>6. \A k \in 1 .. Len(timers') :
        /\ outer[k] \in 1 .. n /\ inner[k] \in 1 .. Len(s[outer[k]])
        /\ timers'[k] = s[outer[k]][inner[k]]
      BY <1>5 DEF Places
<1>7. \A k \in 1 .. Len(timers') : inner[k] = 1 /\ Len(s[outer[k]]) = 1
      BY <1>1, <1>6
<1>8. \A k, l \in 1 .. Len(timers') : outer[k] = outer[l] => k = l
      BY <1>5, <1>7 DEF Places
<1>9. \A k \in 1 .. Len(timers') :
        /\ outer[k] \in 1 .. n
        /\ \/ ~Due(timers[outer[k]]) /\ timers'[k] = Aged(timers[outer[k]])
           \/ /\ Due(timers[outer[k]]) /\ Again(timers[outer[k]])
              /\ timers'[k] = Reset(timers[outer[k]])
      BY <1>1, <1>6, <1>7
<1> QED
  BY <1>4, <1>8, <1>9 DEF n

\* A round makes messages for exactly the entries that are due, each once.
LEMMA ScannedMessages ==
  ASSUME IInv, timeout_msgs' = FlattenSeq([i \in 1 .. Len(timers) |-> Messages(timers[i])])
  PROVE  /\ timeout_msgs' \in Seq(Msg)
         /\ \A k \in 1 .. Len(timeout_msgs') :
              \E i \in 1 .. Len(timers) :
                timeout_msgs'[k].uuid = timers[i].uuid /\ Due(timers[i])
         /\ \A k, l \in 1 .. Len(timeout_msgs') : timeout_msgs'[k] = timeout_msgs'[l] => k = l
         /\ \A i \in 1 .. Len(timers) : Due(timers[i]) => MakesFor(timers[i].uuid)
<1> DEFINE n == Len(timers)
<1> DEFINE s == [i \in 1 .. n |-> Messages(timers[i])]
<1> DEFINE q == timeout_msgs'
<1>1. ASSUME NEW i \in 1 .. n
      PROVE  /\ s[i] \in Seq(Msg)
             /\ \A j \in 1 .. Len(s[i]) : Due(timers[i]) /\ s[i][j].uuid = timers[i].uuid
             /\ \A j, k \in 1 .. Len(s[i]) : s[i][j].to = s[i][k].to => j = k
             /\ Due(timers[i]) => 1 \in 1 .. Len(s[i])
  <2>1. timers[i] \in Entry /\ timers[i].to # {} /\ s[i] = Messages(timers[i])
        BY Typed DEF IInv, Counting, Counts
  <2> QED
    BY <2>1, MessagesFacts
<1>2. n \in Nat /\ s \in [1 .. n -> Seq(Msg)]
      BY <1>1, Typed
<1>3. \A i, j \in 1 .. n : timers[i].uuid = timers[j].uuid => i = j
      BY DEF IInv, Single
<1> HIDE DEF s, n
<1>4. q = FlattenSeq(s)
      BY DEF s, n
<1>5. q \in Seq(Msg) /\ \E outer, inner : Places(s, n, q, outer, inner)
      BY <1>2, <1>4, Flattened
<1>6. PICK outer, inner : Places(s, n, q, outer, inner)
      BY <1>5
<1> HIDE DEF q
<1>7. \A k \in 1 .. Len(q) :
        /\ outer[k] \in 1 .. n /\ inner[k] \in 1 .. Len(s[outer[k]])
        /\ q[k] = s[outer[k]][inner[k]]
      BY <1>6 DEF Places
<1>8. ASSUME NEW k \in 1 .. Len(q)
      PROVE  q[k].uuid = timers[outer[k]].uuid /\ Due(timers[outer[k]])
  <2>1. PICK i, j : i = outer[k] /\ j = inner[k]
        OBVIOUS
  <2>2. i \in 1 .. n /\ j \in 1 .. Len(s[i]) /\ q[k] = s[i][j]
        BY <1>7, <2>1
  <2>3. Due(timers[i]) /\ s[i][j].uuid = timers[i].uuid
        BY <1>1, <2>2
  <2> QED
    BY <2>1, <2>2, <2>3
<1>9. ASSUME NEW k \in 1 .. Len(q), NEW l \in 1 .. Len(q), q[k] = q[l]
      PROVE  k = l
  <2>1. outer[k] = outer[l]
    <3>1. outer[k] \in 1 .. n /\ outer[l] \in 1 .. n
          BY <1>7
    <3>2. timers[outer[k]].uuid = timers[outer[l]].uuid
      <4>1. q[k].uuid = timers[outer[k]].uuid /\ q[l].uuid = timers[outer[l]].uuid
            BY <1>8
      <4> QED
        BY <1>9, <4>1
    <3> QED
      BY <1>3, <3>1, <3>2
  <2>2. inner[k] = inner[l]
    <3>1. PICK i, j, m : i = outer[k] /\ j = inner[k] /\ m = inner[l]
          OBVIOUS
    <3>2. /\ i \in 1 .. n /\ j \in 1 .. Len(s[i]) /\ m \in 1 .. Len(s[i])
          /\ s[i][j] = s[i][m]
          BY <1>7, <1>9, <2>1, <3>1
    <3> QED
      BY <1>1, <3>1, <3>2
  <2> QED
    BY <1>6, <2>1, <2>2 DEF Places
<1>10. ASSUME NEW i \in 1 .. n, Due(timers[i])
       PROVE  \E k \in 1 .. Len(q) : q[k].uuid = timers[i].uuid
  <2>1. 1 \in 1 .. Len(s[i])
        BY <1>1, <1>10
  <2>2. PICK k \in 1 .. Len(q) : outer[k] = i
        BY <1>6, <2>1 DEF Places
  <2> QED
    BY <1>8, <2>2
<1> QED
  BY <1>5, <1>7, <1>8, <1>9, <1>10 DEF n, q, MakesFor

\* What a round does with the entries, in the terms of the invariant.
LEMMA ScannedFields ==
  ASSUME NEW t \in Entry
  PROVE  /\ Aged(t).uuid = t.uuid /\ Aged(t).interval_set = t.interval_set
         /\ Aged(t).interval = t.interval - TIMER_INTERVAL_MIN_MS
         /\ Aged(t).immediate = t.immediate /\ Aged(t).repeat = t.repeat /\ Aged(t).to = t.to
         /\ Reset(t).uuid = t.uuid /\ Reset(t).interval_set = t.interval_set
         /\ Reset(t).interval = t.interval_set
         /\ Reset(t).immediate = FALSE /\ Reset(t).repeat = t.repeat /\ Reset(t).to = t.to
<1> QED
  BY DEF Entry, Aged, Reset, Left

\* An entry is due in the round that completes its interval.
LEMMA DueByAge ==
  ASSUME IInv, NEW i \in 1 .. Len(timers)
  PROVE  Due(timers[i]) <=>
           \/ timers[i].immediate
           \/ (age[timers[i].uuid] + 1) * TIMER_INTERVAL_MIN_MS >= timers[i].interval_set
<1>1. PICK t, a : t = timers[i] /\ a = age[timers[i].uuid]
      OBVIOUS
<1>2. t \in Entry /\ a \in Nat
      BY <1>1, Typed DEF Entry
<1>3. t.interval_set \in Int /\ t.interval \in Int /\ t.immediate \in BOOLEAN
      BY <1>2, Numbers DEF Entry
<1>4. t.interval = IF t.immediate THEN 0 ELSE t.interval_set - a * TIMER_INTERVAL_MIN_MS
      BY <1>1 DEF IInv, Counting, Counts
<1>5. Due(t) <=> t.interval - TIMER_INTERVAL_MIN_MS <= 0
      BY DEF Due, Left
<1>6. \A x, y \in Int : (x + 1) * y = x * y + y /\ x * y \in Int
      OBVIOUS
<1>7. /\ (a + 1) * TIMER_INTERVAL_MIN_MS = a * TIMER_INTERVAL_MIN_MS + TIMER_INTERVAL_MIN_MS
      /\ a * TIMER_INTERVAL_MIN_MS \in Int
      BY <1>2, <1>6, Numbers
<1>8. CASE t.immediate
      BY <1>1, <1>3, <1>4, <1>5, <1>8, Numbers
<1>9. CASE ~t.immediate
  <2>1. PICK p, x : p = a * TIMER_INTERVAL_MIN_MS /\ x = t.interval_set
        OBVIOUS
  <2>2. p \in Int /\ x \in Int /\ t.interval = x - p
        BY <1>3, <1>4, <1>7, <1>9, <2>1
  <2>3. Due(t) <=> p + TIMER_INTERVAL_MIN_MS >= x
        BY <1>5, <2>2, Numbers
  <2> QED
    BY <1>1, <1>7, <1>9, <2>1, <2>3
<1> QED
  BY <1>8, <1>9

\* At most one message of a kind, and only for an entry that is due.
LEMMA MadeOnce ==
  ASSUME IInv, timeout_msgs' = FlattenSeq([i \in 1 .. Len(timers) |-> Messages(timers[i])]),
         NEW u \in UUID, NEW d \in Dest
  PROVE  \/ Made(u, d) = 0
         \/ /\ Made(u, d) = 1
            /\ \E i \in 1 .. Len(timers) : timers[i].uuid = u /\ Due(timers[i])
<1> DEFINE S == {i \in 1 .. Len(timeout_msgs') : timeout_msgs'[i] = [uuid |-> u, to |-> d]}
<1>1. Made(u, d) = Cardinality(S)
      BY DEF Made
<1>2. CASE S = {}
      BY <1>1, <1>2, FS_EmptySet
<1>3. CASE S # {}
  <2>1. PICK k \in 1 .. Len(timeout_msgs') : timeout_msgs'[k] = [uuid |-> u, to |-> d]
        BY <1>3
  <2>2. \A l \in 1 .. Len(timeout_msgs') : timeout_msgs'[l] = timeout_msgs'[k] => l = k
    <3>1. \A j, l \in 1 .. Len(timeout_msgs') : timeout_msgs'[j] = timeout_msgs'[l] => j = l
          BY ScannedMessages
    <3> QED
      BY <3>1
  <2>3. Cardinality(S) = 1
    <3>1. S = {k}
          BY <2>1, <2>2
    <3> QED
      BY <3>1, FS_Singleton
  <2>4. timeout_msgs'[k].uuid = u
        BY <2>1
  <2> HIDE DEF S
  <2> QED
    BY <1>1, <2>3, <2>4, ScannedMessages
<1> QED
  BY <1>2, <1>3

LEMMA ScanKeeps ==
  ASSUME IInv, scan
  PROVE  IInv'
<1>1. /\ timers' = FlattenSeq([i \in 1 .. Len(timers) |-> Stays(timers[i])])
      /\ timeout_msgs' = FlattenSeq([i \in 1 .. Len(timers) |-> Messages(timers[i])])
      /\ age' = [u \in UUID |-> IF isTimerExist(u) /\ u \notin DueUUIDs THEN age[u] + 1 ELSE 0]
      /\ fired' = [u \in UUID |-> [d \in Dest |->
                     fired[u][d] + (IF OneShot(u) THEN Made(u, d) ELSE 0)]]
      /\ tpc' = "send"
      /\ UNCHANGED <<obj, opc, calls, starts, stopped, running_loop, mpc>>
      BY DEF scan, objectVars
<1>2. /\ timers' \in Seq(Entry)
      /\ \E from : /\ \A k \in 1 .. Len(timers') :
                           /\ from[k] \in 1 .. Len(timers)
                           /\ \/ /\ ~Due(timers[from[k]])
                                 /\ timers'[k] = Aged(timers[from[k]])
                              \/ /\ Due(timers[from[k]]) /\ Again(timers[from[k]])
                                 /\ timers'[k] = Reset(timers[from[k]])
                   /\ \A k, l \in 1 .. Len(timers') : from[k] = from[l] => k = l
      BY <1>1, ScannedEntries
<1>3. PICK from : /\ \A k \in 1 .. Len(timers') :
                       /\ from[k] \in 1 .. Len(timers)
                       /\ \/ /\ ~Due(timers[from[k]])
                             /\ timers'[k] = Aged(timers[from[k]])
                          \/ /\ Due(timers[from[k]]) /\ Again(timers[from[k]])
                             /\ timers'[k] = Reset(timers[from[k]])
                  /\ \A k, l \in 1 .. Len(timers') : from[k] = from[l] => k = l
      BY <1>2
<1>4. \A i, j \in 1 .. Len(timers) : timers[i].uuid = timers[j].uuid => i = j
      BY DEF IInv, Single
<1>5. ASSUME NEW k \in 1 .. Len(timers')
      PROVE  \E i \in 1 .. Len(timers) :
               /\ i = from[k] /\ timers[i] \in Entry
               /\ timers'[k].uuid = timers[i].uuid
               /\ timers'[k].interval_set = timers[i].interval_set
               /\ timers'[k].repeat = timers[i].repeat /\ timers'[k].to = timers[i].to
               /\ \/ /\ ~Due(timers[i]) /\ timers'[k].immediate = timers[i].immediate
                     /\ timers'[k].interval = timers[i].interval - TIMER_INTERVAL_MIN_MS
                  \/ /\ Due(timers[i]) /\ Again(timers[i]) /\ ~timers'[k].immediate
                     /\ timers'[k].interval = timers[i].interval_set
  <2>1. PICK i \in 1 .. Len(timers) : i = from[k]
        BY <1>3
  <2>2. timers[i] \in Entry
        BY Typed
  <2>3. \/ ~Due(timers[i]) /\ timers'[k] = Aged(timers[i])
        \/ Due(timers[i]) /\ Again(timers[i]) /\ timers'[k] = Reset(timers[i])
        BY <1>3, <2>1
  <2>4. PICK s, t : s = timers'[k] /\ t = timers[i]
        OBVIOUS
  <2>5. /\ s = Aged(t) \/ s = Reset(t) => s.uuid = t.uuid /\ s.interval_set = t.interval_set
                                          /\ s.repeat = t.repeat /\ s.to = t.to
        /\ s = Aged(t) => /\ s.immediate = t.immediate
                          /\ s.interval = t.interval - TIMER_INTERVAL_MIN_MS
        /\ s = Reset(t) => ~s.immediate /\ s.interval = t.interval_set
        BY <2>2, <2>4, ScannedFields
  <2> QED
    BY <2>1, <2>2, <2>3, <2>4, <2>5
<1>6. TypeOK'
  <2>1. ASSUME NEW u \in UUID, NEW d \in Dest
        PROVE  fired[u][d] + (IF OneShot(u) THEN Made(u, d) ELSE 0) \in Nat
    <3>1. fired[u][d] \in Nat
          BY Typed
    <3>2. Made(u, d) = 0 \/ Made(u, d) = 1
          BY <1>1, MadeOnce
    <3> QED
      BY <3>1, <3>2
  <2>2. fired' \in [UUID -> [Dest -> Nat]]
        BY <1>1, <2>1
  <2>3. age' \in [UUID -> Nat]
        BY <1>1, Typed
  <2>4. timeout_msgs' \in Seq([uuid : UUID, to : Dest])
        BY <1>1, ScannedMessages DEF Msg
  <2>5. /\ obj' \in [Timer -> [uuid : UUID, interval_set : Interval \cup {0}, repeat : BOOLEAN,
                               to : SUBSET Dest]]
        /\ opc' \in [Timer -> {"idle", "stop"}] /\ running_loop' \in BOOLEAN
        /\ mpc' \in {"idle", "join", "stopped"} /\ calls' \in Nat
        /\ starts' \in [UUID -> Nat] /\ stopped' \subseteq Timer
        BY <1>1 DEF IInv, TypeOK
  <2> QED
    BY <1>1, <1>2, <2>2, <2>3, <2>4, <2>5 DEF TypeOK
<1>7. Names'
      BY <1>1, <1>5 DEF IInv, Names
<1>8. Single'
  <2> SUFFICES ASSUME NEW k \in 1 .. Len(timers'), NEW l \in 1 .. Len(timers'),
                      timers'[k].uuid = timers'[l].uuid
               PROVE  k = l
      BY DEF Single
  <2>1. PICK i \in 1 .. Len(timers) : i = from[k] /\ timers'[k].uuid = timers[i].uuid
        BY <1>5
  <2>2. PICK j \in 1 .. Len(timers) : j = from[l] /\ timers'[l].uuid = timers[j].uuid
        BY <1>5
  <2>3. i = j
        BY <1>4, <2>1, <2>2
  <2> QED
    BY <1>3, <2>1, <2>2, <2>3
<1>9. Counting'
  <2> SUFFICES ASSUME NEW k \in 1 .. Len(timers')
               PROVE  Counts(timers'[k], age'[timers'[k].uuid])
      BY DEF Counting
  <2>1. PICK i \in 1 .. Len(timers) :
          /\ timers[i] \in Entry
          /\ timers'[k].uuid = timers[i].uuid
          /\ timers'[k].interval_set = timers[i].interval_set
          /\ timers'[k].to = timers[i].to
          /\ \/ /\ ~Due(timers[i]) /\ timers'[k].immediate = timers[i].immediate
                /\ timers'[k].interval = timers[i].interval - TIMER_INTERVAL_MIN_MS
             \/ /\ Due(timers[i]) /\ ~timers'[k].immediate
                /\ timers'[k].interval = timers[i].interval_set
        BY <1>5
  <2>2. PICK u, a : u = timers[i].uuid /\ a = age[timers[i].uuid]
        OBVIOUS
  <2>3. u \in UUID /\ a \in Nat /\ timers[i].interval_set \in Int /\ timers[i].interval \in Int
        BY <2>1, <2>2, Numbers, Typed DEF Entry
  <2>4. Counts(timers[i], a)
        BY <2>2 DEF IInv, Counting
  <2>5. u \in DueUUIDs <=> Due(timers[i])
        BY <1>4, <2>2 DEF DueUUIDs
  <2>6. isTimerExist(u)
        BY <2>2 DEF isTimerExist
  <2>7. CASE ~Due(timers[i])
    <3>1. age'[u] = a + 1
          BY <1>1, <2>2, <2>3, <2>5, <2>6, <2>7
    <3>2. ~timers[i].immediate
          BY <2>7, DueByAge
    <3>3. timers[i].interval = timers[i].interval_set - a * TIMER_INTERVAL_MIN_MS
          BY <2>4, <3>2 DEF Counts
    <3>4. \A x, y \in Int : (x + 1) * y = x * y + y /\ x * y \in Int
          OBVIOUS
    <3>5. timers[i].interval - TIMER_INTERVAL_MIN_MS
            = timers[i].interval_set - (a + 1) * TIMER_INTERVAL_MIN_MS
      <4>1. /\ (a + 1) * TIMER_INTERVAL_MIN_MS = a * TIMER_INTERVAL_MIN_MS + TIMER_INTERVAL_MIN_MS
            /\ a * TIMER_INTERVAL_MIN_MS \in Int /\ TIMER_INTERVAL_MIN_MS \in Int
            BY <2>3, <3>4, Numbers
      <4>2. PICK p, q, x : /\ p = a * TIMER_INTERVAL_MIN_MS /\ q = (a + 1) * TIMER_INTERVAL_MIN_MS
                           /\ x = timers[i].interval_set
            OBVIOUS
      <4>3. p \in Int /\ x \in Int /\ q = p + TIMER_INTERVAL_MIN_MS /\ timers[i].interval = x - p
            BY <2>3, <3>3, <4>1, <4>2
      <4>4. timers[i].interval - TIMER_INTERVAL_MIN_MS = x - q
            BY <4>1, <4>3
      <4> QED
        BY <4>2, <4>4
    <3> QED
      BY <2>1, <2>2, <2>4, <2>7, <3>1, <3>2, <3>5 DEF Counts
  <2>8. CASE Due(timers[i])
    <3>1. age'[u] = 0
          BY <1>1, <2>3, <2>5, <2>8
    <3>2. 0 * TIMER_INTERVAL_MIN_MS = 0
          BY Numbers
    <3>3. timers[i].interval_set = timers[i].interval_set - 0
          BY <2>3
    <3> QED
      BY <2>1, <2>2, <2>4, <2>8, <3>1, <3>2, <3>3 DEF Counts
  <2> QED
    BY <2>7, <2>8
<1>10. Shots'
  <2> SUFFICES ASSUME NEW u \in UUID, NEW d \in Dest
               PROVE  fired'[u][d] + (IF OneShot(u)' THEN 1 ELSE 0) <= starts[u]
      BY <1>1 DEF Shots
  <2>1. fired[u][d] + (IF OneShot(u) THEN 1 ELSE 0) <= starts[u]
        BY DEF IInv, Shots
  <2>2. fired[u][d] \in Nat /\ starts[u] \in Nat
        BY Typed
  <2>3. fired'[u][d] = fired[u][d] + (IF OneShot(u) THEN Made(u, d) ELSE 0)
        BY <1>1
  <2>4. OneShot(u)' => \E i \in 1 .. Len(timers) :
                         timers[i].uuid = u /\ ~Again(timers[i]) /\ ~Due(timers[i])
    <3> SUFFICES ASSUME NEW k \in 1 .. Len(timers'), timers'[k].uuid = u, ~Again(timers'[k])
                 PROVE  \E i \in 1 .. Len(timers) :
                          timers[i].uuid = u /\ ~Again(timers[i]) /\ ~Due(timers[i])
        BY DEF OneShot
    <3>1. PICK i \in 1 .. Len(timers) :
            /\ timers'[k].uuid = timers[i].uuid
            /\ timers'[k].interval_set = timers[i].interval_set
            /\ timers'[k].repeat = timers[i].repeat
            /\ ~Due(timers[i]) \/ Again(timers[i])
          BY <1>5
    <3> QED
      BY <3>1 DEF Again
  <2>5. OneShot(u)' => OneShot(u)
        BY <2>4 DEF OneShot
  <2>6. CASE ~OneShot(u)
        BY <2>1, <2>2, <2>3, <2>5, <2>6
  <2>7. CASE OneShot(u) /\ Made(u, d) = 0
        BY <2>1, <2>2, <2>3, <2>7
  <2>8. CASE OneShot(u) /\ Made(u, d) = 1
             /\ \E i \in 1 .. Len(timers) : timers[i].uuid = u /\ Due(timers[i])
    <3>1. ~OneShot(u)'
          BY <1>4, <2>4, <2>8
    <3> QED
      BY <2>1, <2>2, <2>3, <2>8, <3>1
  <2> QED
    BY <1>1, <2>6, <2>7, <2>8, MadeOnce
<1>11. Silent'
      BY <1>1, <1>5 DEF IInv, Silent, isTimerExist
<1> QED
  BY <1>6, <1>7, <1>8, <1>9, <1>10, <1>11 DEF IInv

\* The rest of a round and stopTimerManager leave the list alone.
LEMMA LoopKeeps ==
  ASSUME IInv, send \/ sleep \/ endLoop \/ stopLoop \/ stopPool
  PROVE  IInv'
<1>1. UNCHANGED <<objectVars, timers, age, fired>>
      BY DEF send, sleep, endLoop, stopLoop, stopPool, loopVars
<1>2. /\ running_loop' \in BOOLEAN /\ tpc' \in {"scan", "send", "ended"}
      /\ mpc' \in {"idle", "join", "stopped"}
      /\ timeout_msgs' \in Seq([uuid : UUID, to : Dest])
      /\ tpc' # "send" => timeout_msgs' = <<>>
  <2>1. /\ running_loop \in BOOLEAN /\ tpc \in {"scan", "send", "ended"}
        /\ mpc \in {"idle", "join", "stopped"}
        /\ timeout_msgs \in Seq([uuid : UUID, to : Dest])
        /\ tpc # "send" => timeout_msgs = <<>>
        BY DEF IInv, TypeOK
  <2>2. CASE send
    <3>1. tpc = "send" /\ timeout_msgs # <<>> /\ timeout_msgs' = Tail(timeout_msgs)
          /\ UNCHANGED <<running_loop, tpc, mpc>>
          BY <2>2 DEF send
    <3>2. timeout_msgs' \in Seq([uuid : UUID, to : Dest])
          BY <2>1, <3>1
    <3> QED
      BY <2>1, <3>1, <3>2
  <2>3. CASE sleep
        BY <2>1, <2>3 DEF sleep
  <2>4. CASE endLoop
        BY <2>1, <2>4 DEF endLoop
  <2>5. CASE stopLoop
        BY <2>1, <2>5 DEF stopLoop
  <2>6. CASE stopPool
        BY <2>1, <2>6 DEF stopPool, loopVars
  <2> QED
    BY <2>2, <2>3, <2>4, <2>5, <2>6
<1>3. TypeOK'
  <2>1. UNCHANGED <<obj, opc, calls, starts, stopped, timers, age, fired>>
        BY <1>1 DEF objectVars
  <2> QED
    BY <1>2, <2>1 DEF IInv, TypeOK
<1> QED
  BY <1>1, <1>3, ListRests DEF objectVars

-----------------------------------------------------------------------------
(* The specification *)

LEMMA NextKeeps == IInv /\ [Next]_vars => IInv'
<1> SUFFICES ASSUME IInv, [Next]_vars
             PROVE  IInv'
    OBVIOUS
<1>1. ASSUME NEW o \in Timer, Use(o) \/ removeTimer(o)
      PROVE  IInv'
      BY <1>1, SetTypeKeeps, SetKeeps, StartKeeps, StopKeeps, RemoveKeeps DEF Use
<1>2. CASE ThreadTimerLoop
      BY <1>2, ScanKeeps, LoopKeeps DEF ThreadTimerLoop
<1>3. CASE stopLoop \/ stopPool
      BY <1>3, LoopKeeps
<1>4. CASE UNCHANGED vars
  <2>1. UNCHANGED <<obj, opc, calls, starts, stopped, running_loop, tpc, timeout_msgs, age, fired,
                    timers, mpc>>
        BY <1>4 DEF vars, objectVars, loopVars
  <2>2. TypeOK'
        BY <2>1 DEF IInv, TypeOK
  <2> QED
    BY <2>1, <2>2, ListRests
<1> QED
  BY <1>1, <1>2, <1>3, <1>4 DEF Next

LEMMA InitSatisfies == Init => IInv
<1> SUFFICES ASSUME Init
             PROVE  IInv
    OBVIOUS
<1>1. \A o \in Timer : obj[o] \in Object /\ obj[o].uuid = <<o, 1>>
  <2> TAKE o \in Timer
  <2>1. obj[o] \in Constructed(o)
        BY DEF Init
  <2>2. <<o, 1>> \in UUID
        BY Numbers DEF UUID
  <2>3. {} \in SUBSET Dest /\ {"task"} \in SUBSET Dest /\ {"fc"} \in SUBSET Dest
        BY DEF Dest
  <2> QED
    BY <2>1, <2>2, <2>3 DEF Constructed, Object
<1>2. obj \in [Timer -> Object]
      BY <1>1 DEF Init
<1>3. TypeOK
      BY <1>2 DEF Init, TypeOK, Object
<1>4. Names
      BY <1>1, EmptySeq DEF Init, Names
<1>5. Single /\ Counting /\ Silent
      BY DEF Init, Single, Counting, Silent, isTimerExist
<1>6. Shots
      BY DEF Init, Shots, OneShot
<1> QED
  BY <1>3, <1>4, <1>5, <1>6 DEF IInv

LEMMA Invariant == Spec => []IInv
<1> QED
  BY InitSatisfies, NextKeeps, PTL DEF Spec

\* In every reachable state the variables have their types.
THEOREM TypeCorrect == Spec => []TypeOK
<1>1. IInv => TypeOK
      BY DEF IInv
<1> QED
  BY <1>1, Invariant, PTL

\* Only a round takes the loop from "scan" to "send".
LEMMA ScansOnly ==
  ASSUME [Next]_vars, Scans
  PROVE  scan
<1> QED
  BY DEF Scans, Next, Use, setType, setInterval, setRepeat, start, stop, removeTimer,
         ThreadTimerLoop, send, sleep, endLoop, stopLoop, stopPool, vars, loopVars

\* A timer makes its messages in the first round by which its interval has passed,
\* whatever is started, stopped or changed in between (ThreadTimerLoop and updateTimer).
THEOREM TimersExpire == Spec => ExpiresOnTime
<1> DEFINE OnTime ==
      Scans => \A i \in 1 .. Len(timers) :
        MakesFor(timers[i].uuid) <=>
          \/ timers[i].immediate
          \/ (age[timers[i].uuid] + 1) * TIMER_INTERVAL_MIN_MS >= timers[i].interval_set
<1>1. IInv /\ [Next]_vars => OnTime
  <2> SUFFICES ASSUME IInv, [Next]_vars, Scans, NEW i \in 1 .. Len(timers)
               PROVE  MakesFor(timers[i].uuid) <=>
                        \/ timers[i].immediate
                        \/ (age[timers[i].uuid] + 1) * TIMER_INTERVAL_MIN_MS
                             >= timers[i].interval_set
      OBVIOUS
  <2>1. timeout_msgs' = FlattenSeq([j \in 1 .. Len(timers) |-> Messages(timers[j])])
        BY ScansOnly DEF scan
  <2>2. \A j \in 1 .. Len(timers) : timers[j].uuid = timers[i].uuid => j = i
        BY DEF IInv, Single
  <2>3. MakesFor(timers[i].uuid) <=> Due(timers[i])
        BY <2>1, <2>2, ScannedMessages DEF MakesFor
  <2> QED
    BY <2>3, DueByAge
<1> QED
  BY <1>1, Invariant, PTL DEF Spec, ExpiresOnTime

\* An entry that does not repeat makes one message of a kind per start, and once stop has
\* returned no round makes a message for the timer (stop, removeTimer, ThreadTimerLoop).
THEOREM StoppedTimersRest == Spec => StoppedIsSilent
<1> DEFINE Quiet ==
      Scans => /\ \A u \in UUID, d \in Dest : fired'[u][d] <= starts'[u]
               /\ \A o \in stopped : ~MakesFor(obj[o].uuid)
<1>1. IInv /\ IInv' /\ [Next]_vars => Quiet
  <2> SUFFICES ASSUME IInv, IInv', [Next]_vars, Scans
               PROVE  /\ \A u \in UUID, d \in Dest : fired'[u][d] <= starts'[u]
                      /\ \A o \in stopped : ~MakesFor(obj[o].uuid)
      OBVIOUS
  <2>1. ASSUME NEW u \in UUID, NEW d \in Dest
        PROVE  fired'[u][d] <= starts'[u]
    <3>1. fired'[u][d] + (IF OneShot(u)' THEN 1 ELSE 0) <= starts'[u]
          BY DEF IInv, Shots
    <3>2. fired'[u][d] \in Nat /\ starts'[u] \in Nat
          BY DEF IInv, TypeOK
    <3> QED
      BY <3>1, <3>2
  <2>2. timeout_msgs' = FlattenSeq([j \in 1 .. Len(timers) |-> Messages(timers[j])])
        BY ScansOnly DEF scan
  <2>3. \A o \in stopped : ~MakesFor(obj[o].uuid)
        BY <2>2, ScannedMessages DEF MakesFor, IInv, Silent, isTimerExist
  <2> QED
    BY <2>1, <2>3
<1> QED
  BY <1>1, Invariant, PTL DEF Spec, StoppedIsSilent
=============================================================================
