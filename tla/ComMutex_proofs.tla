--------------------------- MODULE ComMutex_proofs ---------------------------
(***************************************************************************)
(* ComMutex excludes as it should, for every finite set of threads.  The   *)
(* inductive invariant is the conjunction of what the runs check: without  *)
(* FlagAgrees the word would say nothing about the threads, and without    *)
(* Alone a writer's unlock could not clear the bit for everybody.      *)
(***************************************************************************)
EXTENDS ComMutex, FiniteSetTheorems, TLAPS

IInv == TypeOK /\ FlagAgrees /\ Alone

\* A thread that joins or leaves the counted ones changes their number by one,
\* and a count of 0 says that there are none.
LEMMA CountedFinite ==
  ASSUME TypeOK
  PROVE  /\ IsFiniteSet(In(Counted))
         /\ Cardinality(In(Counted)) \in Nat
         /\ Cardinality(In(Counted)) = 0 <=> In(Counted) = {}
  <1>1. In(Counted) \subseteq Thread  BY DEF In
  <1>2. IsFiniteSet(In(Counted))  BY <1>1, ThreadAssumption, FS_Subset
  <1> QED  BY <1>2, FS_CardinalityType, FS_EmptySet

LEMMA CountedSame ==
  ASSUME TypeOK, TypeOK', \A t \in Thread : pc[t] \in Counted <=> pc'[t] \in Counted
  PROVE  In(Counted)' = In(Counted)
  BY DEF In, Counted

\* Every operation on the word keeps the invariant.
LEMMA StepKeepsTypes ==
  ASSUME IInv, [Next]_vars
  PROVE  TypeOK'
  <1> USE DEF IInv, TypeOK, Word
  <1>1. ASSUME NEW t \in Thread, Write(t) PROVE TypeOK'
    <2>1. CASE lockLoad(t)  BY <2>1 DEF lockLoad, Load, Goto
    <2>2. CASE lockYield(t)  BY <2>2 DEF lockYield, Load
    <2>3. CASE lockCas(t)
      <3>1. CASE flag = Free
        <4>1. flag' = [write |-> TRUE, readers |-> 0]  BY <2>3, <3>1 DEF lockCas
        <4>2. flag' \in Word  BY <4>1
        <4> QED  BY <2>3, <3>1, <4>2 DEF lockCas, Goto
      <3>2. CASE flag # Free  BY <2>3, <3>2 DEF lockCas, Load
      <3> QED  BY <3>1, <3>2
    <2> QED  BY <1>1, <2>1, <2>2, <2>3 DEF Write
  <1>2. ASSUME NEW t \in Thread, Unlock(t) PROVE TypeOK'
    <2>1. CASE unlockLoad(t)  BY <2>1 DEF unlockLoad, Load, Goto
    <2>2. CASE unlockCas(t)
      <3>1. CASE flag = val[t]
        <4>1. flag' = [flag EXCEPT !.write = FALSE]  BY <2>2, <3>1 DEF unlockCas
        <4>2. flag' \in Word  BY <4>1
        <4> QED  BY <2>2, <3>1, <4>2 DEF unlockCas, Goto
      <3>2. CASE flag # val[t]  BY <2>2, <3>2 DEF unlockCas, Load
      <3> QED  BY <3>1, <3>2
    <2> QED  BY <1>2, <2>1, <2>2 DEF Unlock
  <1>3. ASSUME NEW t \in Thread, lock_shared(t) \/ readEnter(t) PROVE TypeOK'
    BY <1>3 DEF lock_shared, readEnter, Goto
  <1>4. ASSUME NEW t \in Thread, unlock_shared(t) PROVE TypeOK'
    <2>1. t \in In(Counted)  BY <1>4 DEF unlock_shared, In, Counted
    <2>2. flag.readers > 0  BY <2>1, CountedFinite DEF FlagAgrees
    <2> QED  BY <1>4, <2>2 DEF unlock_shared, Goto
  <1> QED  BY <1>1, <1>2, <1>3, <1>4 DEF Next, vars

LEMMA StepKeepsAgreement ==
  ASSUME IInv, [Next]_vars, TypeOK'
  PROVE  FlagAgrees' /\ Alone'
  <1> USE DEF IInv
  <1>1. CASE UNCHANGED vars
    BY <1>1 DEF vars, FlagAgrees, Alone, In, Writing, Counted
  \* Steps that leave the word, the writers and the counted readers alone.
  <1>2. ASSUME NEW t \in Thread, flag' = flag, Goto(t, pc'[t]),
               pc[t] \in Writing <=> pc'[t] \in Writing,
               pc[t] \in Counted <=> pc'[t] \in Counted,
               pc'[t] # "reading" \/ ~flag.write
        PROVE FlagAgrees' /\ Alone'
    <2>1. \A u \in Thread : (pc[u] \in Writing <=> pc'[u] \in Writing)
                         /\ (pc[u] \in Counted <=> pc'[u] \in Counted)
      BY <1>2 DEF Goto, TypeOK
    <2>2. In(Writing)' = In(Writing)  BY <2>1 DEF In, Writing
    <2>3. In(Counted)' = In(Counted)  BY <2>1, CountedSame
    <2>4. FlagAgrees'  BY <1>2, <2>2, <2>3 DEF FlagAgrees
    <2>5. Alone'
      BY <1>2, <2>1, <2>2 DEF Alone, FlagAgrees, Goto, TypeOK, In, Writing
    <2> QED  BY <2>4, <2>5
  <1>3. ASSUME NEW t \in Thread, lockLoad(t) \/ lockYield(t) PROVE FlagAgrees' /\ Alone'
    <2>1. flag' = flag /\ Goto(t, pc'[t]) /\ pc[t] \in {"idle", "lock"} /\ pc'[t] = "lock"
      BY <1>3 DEF lockLoad, lockYield, Goto, TypeOK
    <2> QED  BY <2>1, <1>2 DEF Writing, Counted
  <1>4. ASSUME NEW t \in Thread, lockCas(t) PROVE FlagAgrees' /\ Alone'
    <2>1. CASE flag # Free
      <3>1. flag' = flag /\ Goto(t, pc'[t]) /\ pc[t] = "lock" /\ pc'[t] = "lock"
        BY <1>4, <2>1 DEF lockCas, Goto, TypeOK
      <3> QED  BY <3>1, <1>2 DEF Writing, Counted
    <2>2. CASE flag = Free
      <3>1. In(Writing) = {} /\ In(Counted) = {}
        BY <2>2, CountedFinite DEF FlagAgrees, Free
      <3>2. flag' = [write |-> TRUE, readers |-> 0]
            /\ pc' = [pc EXCEPT ![t] = "writing"] /\ pc[t] = "lock"
        BY <1>4, <2>2 DEF lockCas, Goto
      <3>3. In(Writing)' = {t}
        BY <3>1, <3>2 DEF In, Writing, TypeOK
      <3>4. In(Counted)' = {}
        BY <3>1, <3>2 DEF In, Counted, TypeOK
      <3>5. FlagAgrees'
        BY <3>2, <3>3, <3>4, FS_EmptySet DEF FlagAgrees
      <3>6. Alone'
        BY <3>3, <3>4 DEF Alone, In, Writing, Counted
      <3> QED  BY <3>5, <3>6
    <2> QED  BY <2>1, <2>2
  <1>5. ASSUME NEW t \in Thread, unlockLoad(t) PROVE FlagAgrees' /\ Alone'
    <2>1. flag' = flag /\ Goto(t, pc'[t]) /\ pc[t] = "writing" /\ pc'[t] = "unlock"
      BY <1>5 DEF unlockLoad, Goto, TypeOK
    <2> QED  BY <2>1, <1>2 DEF Writing, Counted
  <1>6. ASSUME NEW t \in Thread, unlockCas(t) PROVE FlagAgrees' /\ Alone'
    <2>1. CASE flag # val[t]
      <3>1. flag' = flag /\ Goto(t, pc'[t]) /\ pc[t] = "unlock" /\ pc'[t] = "unlock"
        BY <1>6, <2>1 DEF unlockCas, Goto, TypeOK
      <3> QED  BY <3>1, <1>2 DEF Writing, Counted
    <2>2. CASE flag = val[t]
      <3>1. flag' = [flag EXCEPT !.write = FALSE]
            /\ pc' = [pc EXCEPT ![t] = "idle"] /\ pc[t] = "unlock"
        BY <1>6, <2>2 DEF unlockCas, Goto
      <3>2. \A u \in Thread \ {t} : pc[u] \notin Writing
        BY <3>1 DEF Alone, In, Writing
      <3>3. In(Writing)' = {}
        BY <3>1, <3>2 DEF In, Writing, TypeOK
      <3>4. In(Counted)' = In(Counted)
        <4>1. \A u \in Thread : pc[u] \in Counted <=> pc'[u] \in Counted
          BY <3>1 DEF Counted, TypeOK
        <4> QED  BY <4>1, CountedSame
      <3>5. flag'.write = FALSE /\ flag'.readers = flag.readers
        BY <3>1 DEF TypeOK, Word
      <3> QED  BY <3>3, <3>4, <3>5 DEF FlagAgrees, Alone
    <2> QED  BY <2>1, <2>2
  <1>7. ASSUME NEW t \in Thread, lock_shared(t) PROVE FlagAgrees' /\ Alone'
    <2>1. flag' = [flag EXCEPT !.readers = @ + 1]
          /\ pc' = [pc EXCEPT ![t] = "rwait"] /\ pc[t] = "idle"
      BY <1>7 DEF lock_shared, Goto
    <2>2. In(Writing)' = In(Writing)
      BY <2>1 DEF In, Writing, TypeOK
    <2>3. In(Counted)' = In(Counted) \cup {t} /\ t \notin In(Counted)
      BY <2>1 DEF In, Counted, TypeOK
    <2>4. Cardinality(In(Counted)') = Cardinality(In(Counted)) + 1
      BY <2>3, CountedFinite, FS_AddElement
    <2>5. flag'.write = flag.write /\ flag'.readers = flag.readers + 1
      BY <2>1 DEF TypeOK, Word
    <2>6. FlagAgrees'
      BY <2>2, <2>4, <2>5 DEF FlagAgrees
    <2>7. Alone'
      BY <2>1, <2>2 DEF Alone, In, Writing, TypeOK
    <2> QED  BY <2>6, <2>7
  <1>8. ASSUME NEW t \in Thread, readEnter(t) PROVE FlagAgrees' /\ Alone'
    <2>1. flag' = flag /\ Goto(t, pc'[t]) /\ pc[t] = "rwait" /\ pc'[t] = "reading"
          /\ ~flag.write
      BY <1>8 DEF readEnter, Goto, TypeOK
    <2> QED  BY <2>1, <1>2 DEF Writing, Counted
  <1>9. ASSUME NEW t \in Thread, unlock_shared(t) PROVE FlagAgrees' /\ Alone'
    <2>1. flag' = [flag EXCEPT !.readers = @ - 1]
          /\ pc' = [pc EXCEPT ![t] = "idle"] /\ pc[t] = "reading"
      BY <1>9 DEF unlock_shared, Goto
    <2>2. In(Writing)' = In(Writing)
      BY <2>1 DEF In, Writing, TypeOK
    <2>3. In(Counted)' = In(Counted) \ {t} /\ t \in In(Counted)
      BY <2>1 DEF In, Counted, TypeOK
    <2>4. Cardinality(In(Counted)') = Cardinality(In(Counted)) - 1
      BY <2>3, CountedFinite, FS_RemoveElement
    <2>5. flag'.write = flag.write /\ flag'.readers = flag.readers - 1
      BY <2>1 DEF TypeOK, Word
    <2>6. FlagAgrees'
      BY <2>2, <2>4, <2>5 DEF FlagAgrees
    <2>7. Alone'
      BY <2>1, <2>2 DEF Alone, In, Writing, TypeOK
    <2> QED  BY <2>6, <2>7
  <1> QED
    BY <1>1, <1>3, <1>4, <1>5, <1>6, <1>7, <1>8, <1>9 DEF Next, Write, Unlock

\* The inductive invariant holds of every reachable state of ComMutex.
THEOREM IInvHolds == Spec => []IInv
  <1>1. Init => IInv
    <2> SUFFICES ASSUME Init PROVE IInv  OBVIOUS
    <2>1. TypeOK  BY DEF Init, TypeOK, Word, Free
    <2>2. In(Writing) = {} /\ In(Counted) = {}
      BY DEF Init, In, Writing, Counted
    <2>3. FlagAgrees  BY <2>2, FS_EmptySet DEF Init, Free, FlagAgrees
    <2> QED  BY <2>1, <2>2, <2>3 DEF IInv, Alone
  <1>2. IInv /\ [Next]_vars => IInv'
    BY StepKeepsTypes, StepKeepsAgreement DEF IInv
  <1> QED  BY <1>1, <1>2, PTL DEF Spec

\* The word of the lock keeps its type: unlock_shared never takes 1 from 0.
THEOREM TypeCorrect == Spec => []TypeOK
  BY IInvHolds, PTL DEF IInv

\* The bit and the count of the word always agree with the threads.
THEOREM WordAgrees == Spec => []FlagAgrees
  BY IInvHolds, PTL DEF IInv

\* lock excludes everybody and lock_shared excludes writers, and the word loses nobody.
THEOREM LockExcludes == Spec => []Exclusion
  BY IInvHolds, PTL DEF IInv, Exclusion

\* No writer overtakes a reader that has counted itself in.
THEOREM ReadersAreFirst == Spec => ReadersFirst
  <1>1. IInv /\ [Next]_vars =>
          [\A t, u \in Thread : pc[t] = "rwait" /\ pc[u] = "lock" => pc'[u] # "writing"]_vars
    <2> SUFFICES ASSUME IInv, Next, NEW t \in Thread, NEW u \in Thread,
                        pc[t] = "rwait", pc[u] = "lock", pc'[u] = "writing"
                 PROVE FALSE
      OBVIOUS
    <2>1. PICK w \in Thread : Write(w) \/ Unlock(w) \/ lock_shared(w) \/ readEnter(w)
                              \/ unlock_shared(w)
      BY DEF Next
    <2>2. lockCas(u) /\ flag = Free
      BY <2>1 DEF Write, Unlock, lockLoad, lockYield, lockCas, unlockLoad, unlockCas,
                  lock_shared, readEnter, unlock_shared, Goto, IInv, TypeOK
    <2>3. In(Counted) = {}
      BY <2>2, CountedFinite DEF IInv, FlagAgrees, Free
    <2> QED  BY <2>3 DEF In, Counted
  <1> QED  BY <1>1, IInvHolds, PTL DEF Spec, ReadersFirst
=============================================================================
