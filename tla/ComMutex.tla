------------------------------ MODULE ComMutex ------------------------------
(***************************************************************************)
(* ComMutex (com_base.cpp), the spinning readers-writer lock.  Its state   *)
(* is one atomic 64-bit word: the top bit says that a thread writes, the   *)
(* other bits count the threads in lock_shared ... unlock_shared.  A       *)
(* reader counts itself in before it looks at the writer's bit.            *)
(*                                                                         *)
(* Every action is one atomic operation on the word.  A spurious failure   *)
(* of compare_exchange_weak reloads the word that was loaded before, which *)
(* is a stuttering step.  The word is a record of its two parts: they meet *)
(* only with 2^63 readers.                                                 *)
(***************************************************************************)
EXTENDS Integers, FiniteSets

CONSTANT Thread   \* the threads that use the lock
ASSUME ThreadAssumption == IsFiniteSet(Thread)

VARIABLES
  flag,   \* ComMutex::flag
  val,    \* the local variable val of lock and unlock
  pc      \* where a thread is

vars == <<flag, val, pc>>

Word == [write : BOOLEAN, readers : Nat]
Free == [write |-> FALSE, readers |-> 0]

Locking == {"lock"}                   \* spins in lock
Writing == {"writing", "unlock"}      \* has the lock for writing
Counted == {"rwait", "reading"}       \* has counted itself in
In(S) == {t \in Thread : pc[t] \in S}

Init ==
  /\ flag = Free
  /\ val = [t \in Thread |-> Free]
  /\ pc = [t \in Thread |-> "idle"]

Goto(t, label) == pc' = [pc EXCEPT ![t] = label]
Load(t) == val' = [val EXCEPT ![t] = flag]

-----------------------------------------------------------------------------
\* lock(): uint64 val = flag.load()
lockLoad(t) ==
  /\ pc[t] = "idle"
  /\ Load(t)
  /\ Goto(t, "lock")
  /\ UNCHANGED flag

\* if(val != 0) { yield; val = flag.load(); }
lockYield(t) ==
  /\ pc[t] = "lock" /\ val[t] # Free
  /\ Load(t)
  /\ UNCHANGED <<flag, pc>>

\* Fault: the word is tested for the writer's bit alone.
lockCasBit(t) ==
  /\ pc[t] = "lock" /\ val[t] = Free
  /\ IF ~flag.write
     THEN flag' = [flag EXCEPT !.write = TRUE] /\ Goto(t, "writing") /\ UNCHANGED val
     ELSE Load(t) /\ UNCHANGED <<flag, pc>>

\* else if(flag.compare_exchange_weak(val, LOCK_FLAG_WRITE_ACTIVE)) break;
lockCas(t) ==
  /\ pc[t] = "lock" /\ val[t] = Free
  /\ IF flag = Free
     THEN flag' = [write |-> TRUE, readers |-> 0] /\ Goto(t, "writing") /\ UNCHANGED val
     ELSE Load(t) /\ UNCHANGED <<flag, pc>>

\* unlock(): uint64 val = flag.load()
unlockLoad(t) ==
  /\ pc[t] = "writing"
  /\ Load(t)
  /\ Goto(t, "unlock")
  /\ UNCHANGED flag

\* Fault: the cleared word is stored without a comparison.
unlockStore(t) ==
  /\ pc[t] = "unlock"
  /\ flag' = [val[t] EXCEPT !.write = FALSE]
  /\ Goto(t, "idle")
  /\ UNCHANGED val

\* Fault: a failed exchange is not repeated.
unlockOnce(t) ==
  /\ pc[t] = "unlock"
  /\ flag' = IF flag = val[t] THEN [flag EXCEPT !.write = FALSE] ELSE flag
  /\ Goto(t, "idle")
  /\ UNCHANGED val

\* while(!flag.compare_exchange_weak(val, val & (~LOCK_FLAG_WRITE_ACTIVE)));
unlockCas(t) ==
  /\ pc[t] = "unlock"
  /\ IF flag = val[t]
     THEN flag' = [val[t] EXCEPT !.write = FALSE] /\ Goto(t, "idle") /\ UNCHANGED val
     ELSE Load(t) /\ UNCHANGED <<flag, pc>>

\* lock_shared(): flag++
lock_shared(t) ==
  /\ pc[t] = "idle"
  /\ flag' = [flag EXCEPT !.readers = @ + 1]
  /\ Goto(t, "rwait")
  /\ UNCHANGED val

\* Fault: the reader does not look at the writer's bit.
readEnterBlind(t) ==
  /\ pc[t] = "rwait"
  /\ Goto(t, "reading")
  /\ UNCHANGED <<flag, val>>

\* while(flag & LOCK_FLAG_WRITE_ACTIVE) yield
readEnter(t) ==
  /\ pc[t] = "rwait" /\ ~flag.write
  /\ Goto(t, "reading")
  /\ UNCHANGED <<flag, val>>

\* unlock_shared(): flag--
unlock_shared(t) ==
  /\ pc[t] = "reading"
  /\ flag' = [flag EXCEPT !.readers = @ - 1]
  /\ Goto(t, "idle")
  /\ UNCHANGED val

Write(t) == lockLoad(t) \/ lockYield(t) \/ lockCas(t)
Unlock(t) == unlockLoad(t) \/ unlockCas(t)
Next ==
  \E t \in Thread :
    Write(t) \/ Unlock(t) \/ lock_shared(t) \/ readEnter(t) \/ unlock_shared(t)

Spec == Init /\ [][Next]_vars

\* A thread that has the lock for writing gives it back, and a spinning reader
\* runs now and then.  Nothing is assumed of writers that spin or of readers
\* that hold the lock.
Fairness == \A t \in Thread : WF_vars(Unlock(t)) /\ WF_vars(readEnter(t))

FairSpec == Spec /\ Fairness

-----------------------------------------------------------------------------
TypeOK ==
  /\ flag \in Word
  /\ val \in [Thread -> Word]
  /\ pc \in [Thread -> {"idle", "lock", "writing", "unlock", "rwait", "reading"}]

\* The word agrees with the threads: its bit is set while one thread writes, and
\* its count is the number of readers, those that still spin included.
FlagAgrees ==
  /\ flag.write <=> In(Writing) # {}
  /\ flag.readers = Cardinality(In(Counted))

\* Who writes is alone.
Alone ==
  \A t \in In(Writing) :
    \A u \in Thread \ {t} : pc[u] \notin Writing \cup {"reading"}

\* lock excludes everybody and lock_shared excludes writers, whatever comes between
\* the load and the exchange of the word; and the word loses nobody, so that it is 0,
\* and the lock free for writers, again when everybody has left.
Exclusion == FlagAgrees /\ Alone

\* A reader that has counted itself in is not overtaken: no thread obtains the
\* lock for writing while a reader still spins.
ReadersFirst ==
  [][\A t, u \in Thread :
       pc[t] = "rwait" /\ pc[u] = "lock" => pc'[u] # "writing"]_vars

\* A reader gets in although writers compete for the lock for ever.
ReaderEnters == \A t \in Thread : (pc[t] = "rwait") ~> (pc[t] = "reading")
=============================================================================
