--------------------------- MODULE GatedLockProofs ---------------------------
(***************************************************************************)
(* The gate's counter counts, and lets no reader past a waiting writer     *)
(* twice, for any number of readers and writers and any number of calls.   *)
(***************************************************************************)
EXTENDS GatedLock, FiniteSetTheorems, TLAPS

\* OvertakenOnce alone is not inductive: it needs to know that who has got in
\* past a waiting writer is not on the way in again, and that nothing is held
\* against a writer that does not wait.
PastSpent ==
    \A w \in Writer, r \in Reader :
        /\ past[w][r] \in {0, 1}
        /\ past[w][r] = 1 => at[w] = "mutex" /\ at[r] # "mutex"

\* Only readers wait at the gate, and only writers have it to lower.
PlacesOK ==
    /\ \A w \in Writer : at[w] # "gate"
    /\ \A r \in Reader : at[r] # "outside"

IInv == TypeOK /\ PlacesOK /\ PastSpent /\ GateCountsWriters

LEMMA EngagedFinite ==
    IsFiniteSet(Engaged) /\ Cardinality(Engaged) \in Nat
<1>1. Engaged \subseteq Thread
  BY DEF Engaged, Thread
<1> QED
  BY <1>1, ThreadAssumption, FS_Subset, FS_CardinalityType

\* Steps inside a call leave the set of engaged writers as it is.
LEMMA SameEngaged ==
    ASSUME GateCountsWriters, lock'.gate = lock.gate,
           \A w \in Writer : at'[w] = "idle" <=> at[w] = "idle"
    PROVE  GateCountsWriters'
<1>1. Engaged' = Engaged
  BY DEF Engaged
<1> QED
  BY <1>1 DEF GateCountsWriters

LEMMA BeginReadStep ==
    ASSUME IInv, NEW t \in Reader, BeginRead(t)
    PROVE  IInv'
<1>1. t \notin Writer /\ t \in Thread
  BY ThreadAssumption DEF Thread
<1>2. lock' = lock /\ writes' = writes /\ past' = past /\ at' = [at EXCEPT ![t] = "gate"]
  BY DEF BeginRead, GoTo
<1>3. TypeOK'
  BY <1>1, <1>2 DEF IInv, TypeOK
<1>4. PlacesOK'
  BY <1>1, <1>2 DEF IInv, PlacesOK, TypeOK
<1>5. PastSpent'
  BY <1>1, <1>2 DEF IInv, PastSpent, TypeOK, BeginRead, Thread
<1>6. GateCountsWriters'
  BY <1>1, <1>2, SameEngaged DEF IInv, TypeOK
<1> QED
  BY <1>3, <1>4, <1>5, <1>6 DEF IInv

LEMMA PassGateStep ==
    ASSUME IInv, NEW t \in Thread, PassGate(t)
    PROVE  IInv'
<1>1. t \in Reader /\ t \notin Writer
  BY ThreadAssumption DEF PassGate, IInv, PlacesOK, Thread
<1>2. lock' = lock /\ writes' = writes /\ past' = past /\ at' = [at EXCEPT ![t] = "mutex"]
  BY DEF PassGate, GoTo
<1>3. TypeOK'
  BY <1>2 DEF IInv, TypeOK
<1>4. PlacesOK'
  BY <1>1, <1>2 DEF IInv, PlacesOK, TypeOK
<1>5. PastSpent'
  <2>1. Engaged = {}
    BY EngagedFinite, FS_EmptySet DEF PassGate, GateOpen, IInv, GateCountsWriters
  <2>2. \A w \in Writer, r \in Reader : past[w][r] = 0
    BY <2>1 DEF Engaged, IInv, PastSpent
  <2> QED
    BY <1>2, <2>2 DEF PastSpent
<1>6. GateCountsWriters'
  BY <1>1, <1>2, SameEngaged DEF IInv, TypeOK
<1> QED
  BY <1>3, <1>4, <1>5, <1>6 DEF IInv

LEMMA BeginWriteStep ==
    ASSUME IInv, NEW t \in Writer, BeginWrite(t)
    PROVE  IInv'
<1>1. t \notin Reader /\ t \in Thread
  BY ThreadAssumption DEF Thread
<1>2. /\ lock' = [lock EXCEPT !.gate = @ + 1]
      /\ at' = [at EXCEPT ![t] = "mutex"] /\ at[t] = "idle"
      /\ writes' = [writes EXCEPT ![t] = @ + 1] /\ writes[t] < MaxWrites
      /\ past' = past
  BY DEF BeginWrite, GoTo, CloseGate
<1>3. TypeOK'
  <2>1. writes' \in [Writer -> 0 .. MaxWrites]
    BY <1>2, ThreadAssumption DEF IInv, TypeOK
  <2>2. lock' \in [gate : Nat, owner : SUBSET Writer, readers : SUBSET Reader]
    <3>1. lock \in [gate : Nat, owner : SUBSET Writer, readers : SUBSET Reader]
      BY DEF IInv, TypeOK
    <3> QED
      BY <3>1, <1>2
  <2> QED
    BY <1>1, <1>2, <2>1, <2>2 DEF IInv, TypeOK
<1>4. PlacesOK'
  BY <1>1, <1>2 DEF IInv, PlacesOK, TypeOK
<1>5. PastSpent'
  BY <1>1, <1>2 DEF IInv, PastSpent, TypeOK
<1>6. GateCountsWriters'
  <2>1. Engaged' = Engaged \cup {t} /\ t \notin Engaged
    BY <1>1, <1>2 DEF Engaged, IInv, TypeOK
  <2>2. Cardinality(Engaged') = Cardinality(Engaged) + 1
    BY <2>1, EngagedFinite, FS_AddElement
  <2>3. lock'.gate = lock.gate + 1
    BY <1>2 DEF IInv, TypeOK
  <2> QED
    BY <2>2, <2>3 DEF IInv, GateCountsWriters
<1> QED
  BY <1>3, <1>4, <1>5, <1>6 DEF IInv

LEMMA EnterStep ==
    ASSUME IInv, NEW t \in Thread, Enter(t)
    PROVE  IInv'
<1>1. /\ at[t] = "mutex" /\ at' = [at EXCEPT ![t] = "inside"]
      /\ writes' = writes /\ lock.owner = {}
  BY DEF Enter, GoTo, MutexFree
<1>2. CASE t \in Writer
  <2>1. t \notin Reader
    BY <1>2, ThreadAssumption
  <2>2. lock' = [lock EXCEPT !.owner = {t}] /\ lock.readers = {}
    BY <1>2 DEF Enter, MutexFree, TakeMutex, Mode
  <2>3. past' = [past EXCEPT ![t] = NoneYet]
    BY <1>2, <2>1 DEF Enter, NotePassing, IInv, TypeOK
  <2>4. TypeOK'
    BY <1>1, <1>2, <2>2, <2>3 DEF IInv, TypeOK, NoneYet
  <2>5. PlacesOK'
    BY <1>1, <2>1 DEF IInv, PlacesOK, TypeOK
  <2>6. PastSpent'
    BY <1>1, <1>2, <2>1, <2>3 DEF IInv, PastSpent, TypeOK, NoneYet
  <2>7. GateCountsWriters'
    BY <1>1, <2>2, SameEngaged DEF IInv, TypeOK
  <2> QED
    BY <2>4, <2>5, <2>6, <2>7 DEF IInv
<1>3. CASE t \notin Writer
  <2>1. t \in Reader
    BY <1>3 DEF Thread
  <2>2. lock' = [lock EXCEPT !.readers = @ \cup {t}]
    BY <1>3 DEF Enter, TakeMutex, Mode
  <2>3. past' = [w \in Writer |-> IF at[w] = "mutex"
                   THEN [past[w] EXCEPT ![t] = IF @ = 0 THEN 1 ELSE 2] ELSE past[w]]
    BY <1>3, <2>1 DEF Enter, NotePassing
  <2>4. TypeOK'
    BY <1>1, <2>1, <2>2, <2>3 DEF IInv, TypeOK
  <2>5. PlacesOK'
    BY <1>1, <1>3 DEF IInv, PlacesOK, TypeOK
  <2>6. PastSpent'
    BY <1>1, <1>3, <2>1, <2>3 DEF IInv, PastSpent, TypeOK, Thread
  <2>7. GateCountsWriters'
    BY <1>1, <2>2, SameEngaged DEF IInv, TypeOK
  <2> QED
    BY <2>4, <2>5, <2>6, <2>7 DEF IInv
<1> QED
  BY <1>2, <1>3

LEMMA ExitStep ==
    ASSUME IInv, NEW t \in Thread, Exit(t)
    PROVE  IInv'
<1>1. at[t] = "inside" /\ writes' = writes /\ past' = past
  BY DEF Exit
<1>2. CASE t \in Writer
  <2>1. t \notin Reader
    BY <1>2, ThreadAssumption
  <2>2. lock' = [lock EXCEPT !.owner = {}] /\ at' = [at EXCEPT ![t] = "outside"]
    BY <1>2 DEF Exit, LeaveMutex, Mode, GoTo
  <2>3. TypeOK'
    BY <1>1, <2>2 DEF IInv, TypeOK
  <2>4. PlacesOK'
    BY <2>1, <2>2 DEF IInv, PlacesOK, TypeOK
  <2>5. PastSpent'
    BY <1>1, <2>1, <2>2 DEF IInv, PastSpent, TypeOK
  <2>6. GateCountsWriters'
    BY <1>1, <2>2, SameEngaged DEF IInv, TypeOK
  <2> QED
    BY <2>3, <2>4, <2>5, <2>6 DEF IInv
<1>3. CASE t \notin Writer
  <2>1. t \in Reader
    BY <1>3 DEF Thread
  <2>2. lock' = [lock EXCEPT !.readers = @ \ {t}] /\ at' = [at EXCEPT ![t] = "idle"]
    BY <1>3 DEF Exit, LeaveMutex, Mode, GoTo
  <2>3. TypeOK'
    BY <1>1, <2>2 DEF IInv, TypeOK
  <2>4. PlacesOK'
    BY <2>2 DEF IInv, PlacesOK, TypeOK
  <2>5. PastSpent'
    BY <1>1, <1>3, <2>2 DEF IInv, PastSpent, TypeOK
  <2>6. GateCountsWriters'
    BY <1>1, <1>3, <2>2, SameEngaged DEF IInv, TypeOK
  <2> QED
    BY <2>3, <2>4, <2>5, <2>6 DEF IInv
<1> QED
  BY <1>2, <1>3

LEMMA LowerGateStep ==
    ASSUME IInv, NEW t \in Thread, LowerGate(t)
    PROVE  IInv'
<1>1. t \in Writer /\ t \notin Reader
  BY ThreadAssumption DEF LowerGate, IInv, PlacesOK, Thread
<1>2. /\ at[t] = "outside" /\ at' = [at EXCEPT ![t] = "idle"]
      /\ lock' = [lock EXCEPT !.gate = @ - 1] /\ writes' = writes
      /\ past' = past
  BY DEF LowerGate, GoTo, OpenGate
<1>3. Engaged' = Engaged \ {t} /\ t \in Engaged
  BY <1>1, <1>2 DEF Engaged, IInv, TypeOK
<1>4. Cardinality(Engaged') = Cardinality(Engaged) - 1
  BY <1>3, EngagedFinite, FS_RemoveElement
<1>5. lock'.gate = lock.gate - 1
  BY <1>2 DEF IInv, TypeOK
<1>6. GateCountsWriters' /\ lock'.gate \in Nat
  BY <1>3, <1>4, <1>5, EngagedFinite, FS_RemoveElement, FS_CardinalityType
     DEF IInv, GateCountsWriters
<1>7. TypeOK'
  BY <1>2, <1>5, <1>6 DEF IInv, TypeOK
<1>8. PlacesOK'
  BY <1>1, <1>2 DEF IInv, PlacesOK, TypeOK
<1>9. PastSpent'
  BY <1>1, <1>2 DEF IInv, PastSpent, TypeOK
<1> QED
  BY <1>6, <1>7, <1>8, <1>9 DEF IInv

LEMMA InitInv == Init => IInv
<1> SUFFICES ASSUME Init PROVE IInv
  OBVIOUS
<1>1. Engaged = {}
  BY DEF Init, Engaged, Thread
<1>2. GateCountsWriters
  BY <1>1, FS_EmptySet DEF Init, FreeLock, GateCountsWriters
<1> QED
  BY <1>2, ThreadAssumption
     DEF Init, FreeLock, NoneYet, IInv, TypeOK, PlacesOK, PastSpent, Thread

LEMMA Invariance == Spec => []IInv
<1>1. IInv /\ [Next]_vars => IInv'
  <2> SUFFICES ASSUME IInv, [Next]_vars PROVE IInv'
    OBVIOUS
  <2>1. CASE UNCHANGED vars
    BY <2>1 DEF vars, IInv, TypeOK, PlacesOK, PastSpent, GateCountsWriters,
                Engaged
  <2>2. CASE Next
    BY <2>2, BeginReadStep, BeginWriteStep, PassGateStep, EnterStep, ExitStep,
       LowerGateStep DEF Next, Proceed
  <2> QED
    BY <2>1, <2>2
<1> QED
  BY <1>1, InitInv, PTL DEF Spec

\* The counter and the mutex keep their types; the counter never underflows.
THEOREM LockTypeCorrect == Spec => []TypeOK
BY Invariance, PTL DEF IInv

\* However many readers keep coming, and whomever the mutex lets in first: a
\* writer that waits is overtaken by each of them at most once.
THEOREM WritersAreOvertakenOnce == Spec => []OvertakenOnce
<1>1. IInv => OvertakenOnce
  BY DEF IInv, PastSpent, OvertakenOnce
<1> QED
  BY <1>1, Invariance, PTL

\* The counter is the number of writers engaged, at every moment.
THEOREM GateIsExact == Spec => []GateCountsWriters
BY Invariance, PTL DEF IInv
==============================================================================
