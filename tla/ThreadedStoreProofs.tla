-------------------------- MODULE ThreadedStoreProofs --------------------------
(***************************************************************************)
(* The multi-threaded store, for any number of threads and calls: the      *)
(* locks record exactly the calls that rely on them, the records in use    *)
(* stay, no update is lost, no rate is exceeded, and sessions live and     *)
(* end as SessionLifecycle says.                                           *)
(***************************************************************************)
EXTENDS ThreadedStore, SessionKeysProofs

-------------------------------------------------------------------------------
(* The locks a call has taken, and the counters it has raised, as lengths   *)
(* of its way down: the operators the invariant is built from take a place  *)
(* and a call, or functions of them, as parameters.                         *)

\* The call takes lock x in a mode on the first n levels of its way.
Claims(c, n, x, mode) ==
    \E level \in 1 .. n : LockOf(c, level) = x /\ ModeAt(c.op, level) = mode

\* How many mutexes a call has taken, and how many counters it has passed.
Taken(p) == IF p[1] \in {"gate", "mutex", "open"} THEN p[2] - 1 ELSE p[2]
Raised(p) == IF p[1] = "gate" THEN p[2] - 1 ELSE p[2]

Holders(A, C, x, mode) == {t \in Thread : Claims(C[t], Taken(A[t]), x, mode)}
Raisers(A, C, x) == {t \in Thread : Claims(C[t], Raised(A[t]), x, "exclusive")}

\* LocksMatchThreads, of places A, calls C and locks L.
LocksMatch(A, C, L) ==
    \A x \in LockId : /\ L[x].owner = Holders(A, C, x, "exclusive")
                      /\ L[x].readers = Holders(A, C, x, "shared")
                      /\ L[x].gate = Cardinality(Raisers(A, C, x))

\* A thread that owns a lock has it alone.
Excludes(L) ==
    \A x \in LockId : \A t \in L[x].owner : L[x].owner = {t} /\ L[x].readers = {}

Mode == {"exclusive", "shared"}

LockState == [gate : Nat, owner : SUBSET Thread, readers : SUBSET Thread]
Locks == [LockId -> LockState]

LEMMA LockOfLevel ==
    ASSUME NEW c, NEW d, NEW l \in 1 .. 3, NEW m \in 1 .. 3,
           LockOf(c, l) = LockOf(d, m)
    PROVE  l = m
<1>1. /\ Len(LockOf(c, l)) = l - 1
      /\ Len(LockOf(d, m)) = m - 1
  BY DEF LockOf
<1> QED
  BY <1>1

LEMMA ModeType ==
    ASSUME NEW op, NEW level
    PROVE  /\ ModeAt(op, level) \in Mode
           /\ ModeAt(op, level) = "exclusive" <=> op \in Exclusive[level]
BY DEF ModeAt, Mode

LEMMA PlaceType ==
    ASSUME NEW p \in Places
    PROVE  /\ p = <<p[1], p[2]>>
           /\ p[2] \in 0 .. 3
           /\ Taken(p) \in 0 .. 3 /\ Raised(p) \in 0 .. 3
           /\ p[1] # "idle" => p[2] \in 1 .. 3
           /\ p[1] = "idle" => p = Idle
BY DEF Places, Idle, Taken, Raised

LEMMA NoClaims ==
    ASSUME NEW c, NEW x, NEW mode
    PROVE  ~Claims(c, 0, x, mode)
BY DEF Claims

LEMMA ClaimsUp ==
    ASSUME NEW c, NEW n \in 1 .. 3, NEW x, NEW mode
    PROVE  Claims(c, n, x, mode) <=>
              \/ Claims(c, n - 1, x, mode)
              \/ LockOf(c, n) = x /\ ModeAt(c.op, n) = mode
BY DEF Claims

LEMMA ClaimsFresh ==
    ASSUME NEW c, NEW n \in 1 .. 3, NEW mode
    PROVE  ~Claims(c, n - 1, LockOf(c, n), mode)
BY LockOfLevel DEF Claims

\* The levels a place stands for, as the correctness properties put it.
LEMMA LevelsOf ==
    ASSUME NEW p \in Places
    PROVE  /\ \A level \in 1 .. 3 :
                 level \in 1 .. Taken(p) <=>
                    /\ level \in 1 .. p[2]
                    /\ p[2] = level => p[1] \notin {"gate", "mutex", "open"}
           /\ \A level \in 1 .. 3 :
                 level \in 1 .. Raised(p) <=>
                    level \in 1 .. p[2] /\ p # <<"gate", level>>
           /\ \A level \in 1 .. p[2] : level \in 1 .. 3
           /\ \A level \in 1 .. Taken(p) : level \in 1 .. 3
           /\ \A level \in 1 .. Raised(p) : level \in 1 .. 3
BY PlaceType DEF Taken, Raised

LEMMA HoldersForm ==
    ASSUME NEW A \in [Thread -> Places], NEW C, NEW x, NEW mode
    PROVE  {t \in Thread : \E level \in 1 .. A[t][2] :
              /\ LockOf(C[t], level) = x /\ ModeAt(C[t].op, level) = mode
              /\ A[t][2] = level => A[t][1] \notin {"gate", "mutex", "open"}}
           = Holders(A, C, x, mode)
<1>1. ASSUME NEW t \in Thread
      PROVE  Claims(C[t], Taken(A[t]), x, mode) <=>
               \E level \in 1 .. A[t][2] :
                  /\ LockOf(C[t], level) = x /\ ModeAt(C[t].op, level) = mode
                  /\ A[t][2] = level => A[t][1] \notin {"gate", "mutex", "open"}
  BY LevelsOf DEF Claims
<1> QED
  BY <1>1 DEF Holders

LEMMA RaisersForm ==
    ASSUME NEW A \in [Thread -> Places], NEW C, NEW x
    PROVE  {t \in Thread : \E level \in 1 .. A[t][2] :
              /\ LockOf(C[t], level) = x
              /\ ModeAt(C[t].op, level) = "exclusive"
              /\ A[t] # <<"gate", level>>}
           = Raisers(A, C, x)
<1>1. ASSUME NEW t \in Thread
      PROVE  Claims(C[t], Raised(A[t]), x, "exclusive") <=>
               \E level \in 1 .. A[t][2] :
                  /\ LockOf(C[t], level) = x
                  /\ ModeAt(C[t].op, level) = "exclusive"
                  /\ A[t] # <<"gate", level>>
  BY LevelsOf DEF Claims
<1> QED
  BY <1>1 DEF Raisers

\* LocksMatchThreads in those terms, before a step and after it.
LEMMA MatchNow ==
    ASSUME at \in [Thread -> Places]
    PROVE  LocksMatchThreads <=> LocksMatch(at, call, locks)
<1>1. \A x, mode : HoldersOf(x, mode) = Holders(at, call, x, mode)
  BY HoldersForm DEF HoldersOf
<1>2. \A x : EngagedOn(x) = Raisers(at, call, x)
  BY RaisersForm DEF EngagedOn
<1> QED
  BY <1>1, <1>2 DEF LocksMatchThreads, LocksMatch

-------------------------------------------------------------------------------
(* A thread moves: what that does to the claims, and to the locks.          *)

\* The places of a call on its way to, in and out of the lock of a level.
LEMMA StepPlaces ==
    ASSUME NEW l \in 1 .. 3
    PROVE  /\ \A step \in {"gate", "mutex", "body", "unlock", "open"} :
                 <<step, l>> \in Places
           /\ Taken(<<"gate", l>>) = l - 1 /\ Raised(<<"gate", l>>) = l - 1
           /\ Taken(<<"mutex", l>>) = l - 1 /\ Raised(<<"mutex", l>>) = l
           /\ Taken(<<"body", l>>) = l /\ Raised(<<"body", l>>) = l
           /\ Taken(<<"unlock", l>>) = l /\ Raised(<<"unlock", l>>) = l
           /\ Taken(<<"open", l>>) = l - 1 /\ Raised(<<"open", l>>) = l
BY DEF Places, Taken, Raised

\* On level l a call takes lock y, in this mode.
Wants(c, l, y, mode) == y = LockOf(c, l) /\ mode = ModeAt(c.op, l)

\* The sets that one thread joins.
With(S, t) == S \cup {t}

\* A function changed at one argument; of places, only t moves.
Becomes(f, g, x, y) == g = [f EXCEPT ![x] = y]

Moved(A, B, t) == \A u \in Thread \ {t} : B[u] = A[u]

LEMMA MoveEffect ==
    ASSUME NEW A \in [Thread -> Places], NEW B, NEW t \in Thread, NEW p,
           Becomes(A, B, t, p)
    PROVE  B[t] = p /\ Moved(A, B, t)
BY DEF Becomes, Moved

LEMMA LockEffect ==
    ASSUME NEW L \in Locks, NEW M, NEW y \in LockId, NEW new \in LockState,
           Becomes(L, M, y, new)
    PROVE  M \in Locks /\ M[y] = new /\ \A x \in LockId \ {y} : M[x] = L[x]
BY DEF Becomes, Locks

\* The claims of threads, with those of t rising by a level.
Climbs(A, B, C, t, l, y, mode) ==
    /\ t \in Thread /\ l \in 1 .. 3 /\ Moved(A, B, t)
    /\ Taken(A[t]) = l - 1 /\ Taken(B[t]) = l
    /\ Wants(C[t], l, y, mode)

LEMMA HoldersUp ==
    ASSUME NEW A, NEW B, NEW C, NEW t, NEW l, NEW y, NEW mode,
           Climbs(A, B, C, t, l, y, mode), NEW x, NEW m
    PROVE  /\ x = y /\ m = mode =>
                 Holders(B, C, x, m) = With(Holders(A, C, x, m), t)
           /\ x # y \/ m # mode => Holders(B, C, x, m) = Holders(A, C, x, m)
           /\ x = y => t \notin Holders(A, C, x, m)
<1> USE DEF Climbs
<1>1. Claims(C[t], l, x, m) <=> Claims(C[t], l - 1, x, m) \/ (y = x /\ mode = m)
  BY ClaimsUp DEF Wants
<1>2. x = y => ~Claims(C[t], l - 1, x, m)
  BY ClaimsFresh DEF Wants
<1> QED
  BY <1>1, <1>2 DEF Holders, Moved, With

\* The same of the counters raised.
Raises(A, B, C, t, l, y, mode) ==
    /\ t \in Thread /\ l \in 1 .. 3 /\ Moved(A, B, t)
    /\ Raised(A[t]) = l - 1 /\ Raised(B[t]) = l
    /\ Wants(C[t], l, y, mode)

LEMMA RaisersUp ==
    ASSUME NEW A, NEW B, NEW C, NEW t, NEW l, NEW y, NEW mode,
           Raises(A, B, C, t, l, y, mode), NEW x
    PROVE  /\ x = y /\ mode = "exclusive" =>
                 /\ Raisers(B, C, x) = With(Raisers(A, C, x), t)
                 /\ t \notin Raisers(A, C, x)
           /\ x # y \/ mode # "exclusive" => Raisers(B, C, x) = Raisers(A, C, x)
<1> USE DEF Raises
<1>1. Claims(C[t], l, x, "exclusive") <=>
         Claims(C[t], l - 1, x, "exclusive") \/ (y = x /\ mode = "exclusive")
  BY ClaimsUp DEF Wants
<1>2. x = y => ~Claims(C[t], l - 1, x, "exclusive")
  BY ClaimsFresh DEF Wants
<1> QED
  BY <1>1, <1>2 DEF Raisers, Moved, With

\* As many claims as before.
LEMMA HoldersSame ==
    ASSUME NEW A, NEW B, NEW C, NEW t \in Thread, Moved(A, B, t),
           Taken(A[t]) = Taken(B[t])
    PROVE  \A x, mode : Holders(B, C, x, mode) = Holders(A, C, x, mode)
<1>1. \A u \in Thread : Taken(B[u]) = Taken(A[u])
  BY DEF Moved
<1> QED
  BY <1>1 DEF Holders

LEMMA RaisersSame ==
    ASSUME NEW A, NEW B, NEW C, NEW t \in Thread, Moved(A, B, t),
           Raised(A[t]) = Raised(B[t])
    PROVE  \A x : Raisers(B, C, x) = Raisers(A, C, x)
<1>1. \A u \in Thread : Raised(B[u]) = Raised(A[u])
  BY DEF Moved
<1> QED
  BY <1>1 DEF Raisers

\* A place with as many claims, of the same call: nothing changes.
LEMMA MatchSame ==
    ASSUME NEW A \in [Thread -> Places], NEW C, NEW L, LocksMatch(A, C, L),
           NEW t \in Thread, NEW p, NEW B, Becomes(A, B, t, p),
           Taken(p) = Taken(A[t]), Raised(p) = Raised(A[t])
    PROVE  LocksMatch(B, C, L)
<1>1. B[t] = p /\ Moved(A, B, t)
  BY MoveEffect
<1> QED
  BY <1>1, HoldersSame, RaisersSame DEF LocksMatch

\* A thread that has claimed nothing begins or ends a call.
LEMMA MatchIdle ==
    ASSUME NEW A \in [Thread -> Places], NEW C \in [Thread -> Request \cup {NoCall}],
           NEW L, LocksMatch(A, C, L), NEW t \in Thread,
           Taken(A[t]) = 0, Raised(A[t]) = 0,
           NEW p, NEW B, Becomes(A, B, t, p), Taken(p) = 0, Raised(p) = 0,
           NEW c, NEW D, Becomes(C, D, t, c)
    PROVE  LocksMatch(B, D, L)
<1>1. B[t] = p /\ \A u \in Thread \ {t} : B[u] = A[u] /\ D[u] = C[u]
  BY DEF Becomes
<1>2. \A x, mode : Holders(B, D, x, mode) = Holders(A, C, x, mode)
  BY <1>1, NoClaims DEF Holders
<1>3. \A x : Raisers(B, D, x) = Raisers(A, C, x)
  BY <1>1, NoClaims DEF Raisers
<1> QED
  BY <1>2, <1>3 DEF LocksMatch

LEMMA RaisersFinite ==
    ASSUME NEW A, NEW C, NEW x
    PROVE  IsFiniteSet(Raisers(A, C, x)) /\ Cardinality(Raisers(A, C, x)) \in Nat
<1>1. Raisers(A, C, x) \subseteq Thread
  BY DEF Raisers
<1> QED
  BY <1>1, ThreadedAssumption, FS_Subset, FS_CardinalityType

\* A writer closes the gate.
LEMMA CloseMatch ==
    ASSUME NEW A \in [Thread -> Places], NEW C, NEW L \in Locks,
           LocksMatch(A, C, L), Excludes(L),
           NEW t \in Thread, NEW l \in 1 .. 3, A[t] = <<"gate", l>>,
           NEW y \in LockId, Wants(C[t], l, y, "exclusive"),
           NEW B, Becomes(A, B, t, <<"mutex", l>>),
           NEW M, Becomes(L, M, y, CloseGate(L[y]))
    PROVE  M \in Locks /\ Excludes(M) /\ LocksMatch(B, C, M)
<1>1. /\ Taken(B[t]) = Taken(A[t]) /\ Moved(A, B, t)
      /\ Raises(A, B, C, t, l, y, "exclusive")
  BY StepPlaces, MoveEffect DEF Raises
<1>2. \A x, mode : Holders(B, C, x, mode) = Holders(A, C, x, mode)
  BY <1>1, HoldersSame
<1>3. /\ Raisers(B, C, y) = With(Raisers(A, C, y), t)
      /\ \A x : x # y => Raisers(B, C, x) = Raisers(A, C, x)
  BY <1>1, RaisersUp
<1>4. Cardinality(Raisers(B, C, y)) = Cardinality(Raisers(A, C, y)) + 1
  <2>1. t \notin Raisers(A, C, y)
    BY <1>1, RaisersUp
  <2> QED
    BY <1>3, <2>1, RaisersFinite, FS_AddElement DEF With
<1>5. /\ M \in Locks
      /\ \A x \in LockId : /\ M[x].owner = L[x].owner /\ M[x].readers = L[x].readers
                           /\ M[x].gate = IF x = y THEN L[x].gate + 1 ELSE L[x].gate
  <2>1. CloseGate(L[y]) = [gate |-> L[y].gate + 1, owner |-> L[y].owner,
                           readers |-> L[y].readers]
    BY DEF Locks, LockState, CloseGate
  <2>2. CloseGate(L[y]) \in LockState
    BY <2>1 DEF Locks, LockState
  <2>3. M \in Locks /\ M[y] = CloseGate(L[y]) /\ \A x \in LockId \ {y} : M[x] = L[x]
    BY <2>2, LockEffect
  <2> QED
    BY <2>1, <2>3
<1>6. LocksMatch(B, C, M)
  <2> SUFFICES ASSUME NEW x \in LockId
               PROVE  /\ M[x].owner = Holders(B, C, x, "exclusive")
                      /\ M[x].readers = Holders(B, C, x, "shared")
                      /\ M[x].gate = Cardinality(Raisers(B, C, x))
    BY DEF LocksMatch
  <2>1. /\ L[x].owner = Holders(A, C, x, "exclusive")
        /\ L[x].readers = Holders(A, C, x, "shared")
        /\ L[x].gate = Cardinality(Raisers(A, C, x))
    BY DEF LocksMatch
  <2>2. M[x].gate = Cardinality(Raisers(B, C, x))
    <3>1. CASE x = y
      BY <1>4, <1>5, <2>1, <3>1
    <3>2. CASE x # y
      BY <1>3, <1>5, <2>1, <3>2
    <3> QED
      BY <3>1, <3>2
  <2> QED
    BY <1>2, <1>5, <2>1, <2>2
<1> QED
  BY <1>5, <1>6 DEF Excludes

\* A reader passes the gate: nobody raises it for it.
LEMMA PassMatch ==
    ASSUME NEW A \in [Thread -> Places], NEW C, NEW L,
           LocksMatch(A, C, L),
           NEW t \in Thread, NEW l \in 1 .. 3, A[t] = <<"gate", l>>,
           NEW y, NEW mode, Wants(C[t], l, y, mode), mode # "exclusive",
           NEW B, Becomes(A, B, t, <<"mutex", l>>)
    PROVE  LocksMatch(B, C, L)
<1>1. /\ Taken(B[t]) = Taken(A[t]) /\ Moved(A, B, t)
      /\ Raises(A, B, C, t, l, y, mode)
  BY StepPlaces, MoveEffect DEF Raises
<1>2. \A x, m : Holders(B, C, x, m) = Holders(A, C, x, m)
  BY <1>1, HoldersSame
<1>3. \A x : Raisers(B, C, x) = Raisers(A, C, x)
  BY <1>1, RaisersUp
<1> QED
  BY <1>2, <1>3 DEF LocksMatch

\* A thread takes the mutex, in either mode.
LEMMA EnterMatch ==
    ASSUME NEW A \in [Thread -> Places], NEW C, NEW L \in Locks,
           LocksMatch(A, C, L), Excludes(L),
           NEW t \in Thread, NEW l \in 1 .. 3, A[t] = <<"mutex", l>>,
           NEW y \in LockId, NEW mode, Wants(C[t], l, y, mode),
           MutexFree(L[y], mode),
           NEW B, Becomes(A, B, t, <<"body", l>>),
           NEW M, Becomes(L, M, y, TakeMutex(L[y], t, mode))
    PROVE  M \in Locks /\ Excludes(M) /\ LocksMatch(B, C, M)
<1>1. /\ Raised(B[t]) = Raised(A[t]) /\ Moved(A, B, t)
      /\ Climbs(A, B, C, t, l, y, mode)
  BY StepPlaces, MoveEffect DEF Climbs
<1>2. \A x : Raisers(B, C, x) = Raisers(A, C, x)
  BY <1>1, RaisersSame
<1>3. /\ Holders(B, C, y, mode) = With(Holders(A, C, y, mode), t)
      /\ \A x, m : ~(x = y /\ m = mode) => Holders(B, C, x, m) = Holders(A, C, x, m)
  <2>1. Holders(B, C, y, mode) = With(Holders(A, C, y, mode), t)
    BY <1>1, HoldersUp
  <2>2. \A x, m : ~(x = y /\ m = mode) => Holders(B, C, x, m) = Holders(A, C, x, m)
    BY <1>1, HoldersUp
  <2> QED
    BY <2>1, <2>2
<1>4. mode \in Mode
  BY ModeType DEF Wants
<1>5. CASE mode = "exclusive"
  <2>1. /\ M \in Locks
        /\ \A x \in LockId : /\ M[x].owner = IF x = y THEN {t} ELSE L[x].owner
                             /\ M[x].readers = L[x].readers
                             /\ M[x].gate = L[x].gate
    <3>1. TakeMutex(L[y], t, mode) =
            [gate |-> L[y].gate, owner |-> {t}, readers |-> L[y].readers]
      BY <1>5 DEF Locks, LockState, TakeMutex
    <3>2. TakeMutex(L[y], t, mode) \in LockState
      BY <3>1 DEF Locks, LockState
    <3>3. /\ M \in Locks /\ M[y] = TakeMutex(L[y], t, mode)
          /\ \A x \in LockId \ {y} : M[x] = L[x]
      BY <3>2, LockEffect
    <3> QED
      BY <3>1, <3>3
  <2>2. L[y].owner = {} /\ L[y].readers = {}
    BY <1>5 DEF MutexFree
  <2>3. Holders(A, C, y, "exclusive") = {}
    BY <2>2 DEF LocksMatch
  <2>4. /\ Holders(B, C, y, "exclusive") = With(Holders(A, C, y, "exclusive"), t)
        /\ \A x : /\ Holders(B, C, x, "shared") = Holders(A, C, x, "shared")
                  /\ x # y => Holders(B, C, x, "exclusive") =
                                 Holders(A, C, x, "exclusive")
    BY <1>3, <1>5
  <2>6. LocksMatch(B, C, M)
    BY <1>2, <2>1, <2>3, <2>4 DEF LocksMatch, With
  <2>5. Excludes(M)
    BY <2>1, <2>2 DEF Excludes
  <2> QED
    BY <2>1, <2>5, <2>6
<1>6. CASE mode = "shared"
  <2>1. /\ M \in Locks
        /\ \A x \in LockId : /\ M[x].readers = IF x = y THEN With(L[x].readers, t)
                                                        ELSE L[x].readers
                             /\ M[x].owner = L[x].owner
                             /\ M[x].gate = L[x].gate
    <3>1. TakeMutex(L[y], t, mode) =
            [gate |-> L[y].gate, owner |-> L[y].owner,
             readers |-> With(L[y].readers, t)]
      BY <1>6 DEF Locks, LockState, TakeMutex, With
    <3>2. TakeMutex(L[y], t, mode) \in LockState
      BY <3>1 DEF Locks, LockState, With
    <3>3. /\ M \in Locks /\ M[y] = TakeMutex(L[y], t, mode)
          /\ \A x \in LockId \ {y} : M[x] = L[x]
      BY <3>2, LockEffect
    <3>4. M[y] = [gate |-> L[y].gate, owner |-> L[y].owner,
                  readers |-> With(L[y].readers, t)]
      BY <3>1, <3>3
    <3>5. \A x \in LockId \ {y} : M[x] = L[x]
      BY <3>3
    <3> QED
      BY <3>3, <3>4, <3>5
  <2>2. L[y].owner = {}
    BY DEF MutexFree
  <2>3. /\ Holders(B, C, y, "shared") = With(Holders(A, C, y, "shared"), t)
        /\ \A x : /\ Holders(B, C, x, "exclusive") = Holders(A, C, x, "exclusive")
                  /\ x # y => Holders(B, C, x, "shared") =
                                 Holders(A, C, x, "shared")
    BY <1>3, <1>6
  <2>5. LocksMatch(B, C, M)
    BY <1>2, <2>1, <2>3 DEF LocksMatch
  <2>4. ASSUME NEW x \in LockId, NEW u \in M[x].owner
        PROVE  M[x].owner = {u} /\ M[x].readers = {}
    BY <2>1, <2>2, <2>4 DEF Excludes
  <2> QED
    BY <2>1, <2>4, <2>5 DEF Excludes
<1> QED
  BY <1>4, <1>5, <1>6 DEF Mode

\* The places below a level, where a call goes on once the level is done with.
Lower(l) == IF l = 1 THEN Idle ELSE <<"unlock", l - 1>>

LEMMA LowerPlace ==
    ASSUME NEW l \in 1 .. 3
    PROVE  Lower(l) \in Places /\ Taken(Lower(l)) = l - 1 /\ Raised(Lower(l)) = l - 1
<1>1. CASE l = 1
  BY <1>1 DEF Lower, Idle, Places, Taken, Raised
<1>2. CASE l # 1
  <2>1. l - 1 \in 1 .. 3
    BY <1>2
  <2> QED
    BY <1>2, <2>1, StepPlaces DEF Lower
<1> QED
  BY <1>1, <1>2

\* A writer leaves the mutex.
LEMMA LeaveMatch ==
    ASSUME NEW A \in [Thread -> Places], NEW C, NEW L \in Locks,
           LocksMatch(A, C, L), Excludes(L),
           NEW t \in Thread, NEW l \in 1 .. 3, A[t] = <<"unlock", l>>,
           NEW y \in LockId, NEW mode, Wants(C[t], l, y, mode), mode = "exclusive",
           NEW B, Becomes(A, B, t, <<"open", l>>),
           NEW M, Becomes(L, M, y, LeaveMutex(L[y], t, mode))
    PROVE  M \in Locks /\ Excludes(M) /\ LocksMatch(B, C, M)
<1>0. B[t] = <<"open", l>> /\ Moved(A, B, t)
  BY MoveEffect
<1>1. /\ Raised(B[t]) = Raised(A[t]) /\ Moved(A, B, t)
      /\ Climbs(B, A, C, t, l, y, "exclusive")
  <2>1. Moved(B, A, t)
    BY <1>0 DEF Moved
  <2> QED
    BY <1>0, <2>1, StepPlaces DEF Climbs
<1>2. \A x : Raisers(B, C, x) = Raisers(A, C, x)
  BY <1>1, RaisersSame
<1>3. /\ Holders(A, C, y, "exclusive") = With(Holders(B, C, y, "exclusive"), t)
      /\ t \notin Holders(B, C, y, "exclusive")
      /\ \A x : /\ Holders(B, C, x, "shared") = Holders(A, C, x, "shared")
                /\ x # y => Holders(B, C, x, "exclusive") = Holders(A, C, x, "exclusive")
  BY <1>1, HoldersUp
<1>4. L[y].owner = {t}
  BY <1>3 DEF LocksMatch, Excludes, With
<1>5. Holders(B, C, y, "exclusive") = {}
  BY <1>3, <1>4 DEF LocksMatch, With
<1>6. /\ M \in Locks
      /\ \A x \in LockId : /\ x = y => M[x].owner = {}
                           /\ x # y => M[x].owner = L[x].owner
                           /\ M[x].readers = L[x].readers
                           /\ M[x].gate = L[x].gate
  <2>1. LeaveMutex(L[y], t, mode) =
          [gate |-> L[y].gate, owner |-> {}, readers |-> L[y].readers]
    BY DEF Locks, LockState, LeaveMutex
  <2>2. LeaveMutex(L[y], t, mode) \in LockState
    BY <2>1 DEF Locks, LockState
  <2>3. /\ M \in Locks /\ M[y] = LeaveMutex(L[y], t, mode)
        /\ \A x \in LockId \ {y} : M[x] = L[x]
    BY <2>2, LockEffect
  <2> QED
    BY <2>1, <2>3
<1>7. LocksMatch(B, C, M)
  BY <1>2, <1>3, <1>5, <1>6 DEF LocksMatch
<1> QED
  BY <1>6, <1>7 DEF Excludes

\* A reader leaves the mutex, and with it the level.
LEMMA LeaveSharedMatch ==
    ASSUME NEW A \in [Thread -> Places], NEW C, NEW L \in Locks,
           LocksMatch(A, C, L), Excludes(L),
           NEW t \in Thread, NEW l \in 1 .. 3, A[t] = <<"unlock", l>>,
           NEW y \in LockId, NEW mode, Wants(C[t], l, y, mode), mode # "exclusive",
           NEW B, Becomes(A, B, t, Lower(l)),
           NEW M, Becomes(L, M, y, LeaveMutex(L[y], t, mode))
    PROVE  M \in Locks /\ Excludes(M) /\ LocksMatch(B, C, M)
<1>0. mode = "shared"
  BY ModeType DEF Wants, Mode
<1>1. /\ Raises(B, A, C, t, l, y, "shared")
      /\ Climbs(B, A, C, t, l, y, "shared")
  <2>1. B[t] = Lower(l) /\ Moved(A, B, t)
    BY MoveEffect
  <2>2. Moved(B, A, t)
    BY <2>1 DEF Moved
  <2> QED
    BY <1>0, <2>1, <2>2, StepPlaces, LowerPlace DEF Climbs, Raises
<1>2. \A x : Raisers(B, C, x) = Raisers(A, C, x)
  BY <1>1, RaisersUp
<1>3. /\ Holders(A, C, y, "shared") = With(Holders(B, C, y, "shared"), t)
      /\ t \notin Holders(B, C, y, "shared")
      /\ \A x : /\ Holders(B, C, x, "exclusive") = Holders(A, C, x, "exclusive")
                /\ x # y => Holders(B, C, x, "shared") = Holders(A, C, x, "shared")
  BY <1>1, HoldersUp
<1>4. /\ M \in Locks
      /\ \A x \in LockId : /\ x = y => M[x].readers = L[x].readers \ {t}
                           /\ x # y => M[x].readers = L[x].readers
                           /\ M[x].owner = L[x].owner
                           /\ M[x].gate = L[x].gate
  <2> DEFINE rest == L[y].readers \ {t}
  <2>1. LeaveMutex(L[y], t, mode) =
          [gate |-> L[y].gate, owner |-> L[y].owner, readers |-> rest]
    BY <1>0 DEF Locks, LockState, LeaveMutex
  <2>2. LeaveMutex(L[y], t, mode) \in LockState
    BY <2>1 DEF Locks, LockState
  <2> HIDE DEF rest
  <2>3. /\ M \in Locks /\ M[y] = LeaveMutex(L[y], t, mode)
        /\ \A x \in LockId \ {y} : M[x] = L[x]
    BY <2>2, LockEffect
  <2>4. /\ M \in Locks
        /\ \A x \in LockId : /\ x = y => M[x].readers = rest
                             /\ x # y => M[x].readers = L[x].readers
                             /\ M[x].owner = L[x].owner
                             /\ M[x].gate = L[x].gate
    BY <2>1, <2>3
  <2> QED
    BY <2>4 DEF rest
<1>5. M[y].readers = Holders(B, C, y, "shared")
  <2>1. L[y].readers = Holders(A, C, y, "shared")
    BY DEF LocksMatch
  <2>2. M[y].readers = L[y].readers \ {t}
    BY <1>4
  <2> QED
    BY <1>3, <2>1, <2>2 DEF With
<1>6. LocksMatch(B, C, M)
  BY <1>2, <1>3, <1>4, <1>5 DEF LocksMatch
<1>7. \A x \in LockId : M[x].owner = L[x].owner /\ M[x].readers \subseteq L[x].readers
  BY <1>4
<1> QED
  BY <1>4, <1>6, <1>7 DEF Excludes

\* A writer opens the gate, and with that leaves the level.
LEMMA ReopenMatch ==
    ASSUME NEW A \in [Thread -> Places], NEW C, NEW L \in Locks,
           LocksMatch(A, C, L), Excludes(L),
           NEW t \in Thread, NEW l \in 1 .. 3, A[t] = <<"open", l>>,
           NEW y \in LockId, Wants(C[t], l, y, "exclusive"),
           NEW B, Becomes(A, B, t, Lower(l)),
           NEW M, Becomes(L, M, y, OpenGate(L[y]))
    PROVE  M \in Locks /\ Excludes(M) /\ LocksMatch(B, C, M)
<1>1. /\ Taken(B[t]) = Taken(A[t]) /\ Moved(A, B, t)
      /\ Raises(B, A, C, t, l, y, "exclusive")
  <2>1. B[t] = Lower(l) /\ Moved(A, B, t)
    BY MoveEffect
  <2>2. Moved(B, A, t)
    BY <2>1 DEF Moved
  <2> QED
    BY <2>1, <2>2, StepPlaces, LowerPlace DEF Raises
<1>2. \A x, mode : Holders(B, C, x, mode) = Holders(A, C, x, mode)
  BY <1>1, HoldersSame
<1>3. /\ Raisers(A, C, y) = With(Raisers(B, C, y), t)
      /\ t \notin Raisers(B, C, y)
      /\ \A x : x # y => Raisers(B, C, x) = Raisers(A, C, x)
  BY <1>1, RaisersUp
<1>4. Cardinality(Raisers(A, C, y)) = Cardinality(Raisers(B, C, y)) + 1
  BY <1>3, RaisersFinite, FS_AddElement DEF With
<1>5. L[y].gate - 1 = Cardinality(Raisers(B, C, y)) /\ L[y].gate - 1 \in Nat
  BY <1>4, RaisersFinite DEF LocksMatch
<1>6. /\ M \in Locks
      /\ \A x \in LockId : /\ M[x].owner = L[x].owner /\ M[x].readers = L[x].readers
                           /\ x = y => M[x].gate = L[x].gate - 1
                           /\ x # y => M[x].gate = L[x].gate
  <2>1. OpenGate(L[y]) = [gate |-> L[y].gate - 1, owner |-> L[y].owner,
                          readers |-> L[y].readers]
    BY DEF Locks, LockState, OpenGate
  <2>2. OpenGate(L[y]) \in LockState
    BY <1>5, <2>1 DEF Locks, LockState
  <2>3. M \in Locks /\ M[y] = OpenGate(L[y]) /\ \A x \in LockId \ {y} : M[x] = L[x]
    BY <2>2, LockEffect
  <2> QED
    BY <2>1, <2>3
<1>7. LocksMatch(B, C, M)
  <2> SUFFICES ASSUME NEW x \in LockId
               PROVE  /\ M[x].owner = Holders(B, C, x, "exclusive")
                      /\ M[x].readers = Holders(B, C, x, "shared")
                      /\ M[x].gate = Cardinality(Raisers(B, C, x))
    BY DEF LocksMatch
  <2>1. /\ L[x].owner = Holders(A, C, x, "exclusive")
        /\ L[x].readers = Holders(A, C, x, "shared")
        /\ L[x].gate = Cardinality(Raisers(A, C, x))
    BY DEF LocksMatch
  <2>2. M[x].gate = Cardinality(Raisers(B, C, x))
    <3>1. CASE x = y
      BY <1>5, <1>6, <3>1
    <3>2. CASE x # y
      BY <1>3, <1>6, <2>1, <3>2
    <3> QED
      BY <3>1, <3>2
  <2> QED
    BY <1>2, <1>6, <2>1, <2>2
<1> QED
  BY <1>6, <1>7 DEF Excludes

-------------------------------------------------------------------------------
(* What a place says of the call that is there, and of the list.            *)

\* The operations that go on to the session's lock, and to the value's.
SessionOps == {"prolong", "addKey", "existKey", "removeKey", "prolongKey",
               "setKey", "setForceKey", "getKey"}
ValueOps == {"prolongKey", "setKey", "setForceKey", "getKey"}

Fitting(p, c) ==
    p # Idle =>
        /\ c \in Request
        /\ p[2] >= 2 => c.op \in SessionOps
        /\ p[2] = 3 => c.op \in ValueOps
        /\ p[1] = "fits" => c.op \in {"addKey", "prolongKey"}
        /\ p = <<"write", 1>> => c.op = "remove"
        /\ p[1] = "open" => c.op \in Exclusive[p[2]]
        /\ p \in {<<"write", 3>>, <<"count", 3>>} => c.op \in {"setKey", "setForceKey"}
        /\ p \in {<<"read", 3>>, <<"answer", 3>>} => c.op = "getKey"

\* The records the call has pointers to are in the list.
Uses(p, c, L) ==
    /\ p[2] >= 2 \/ p \in {<<"fits", 1>>, <<"write", 1>>} => L[c.s] # NoItem
    /\ p[2] = 3 => L[c.s].values[c.k] # NoValue

LEMMA RequestFields ==
    ASSUME NEW c \in Request
    PROVE  /\ c.op \in Operations
           /\ c.op \in SessionOps \cup {"exist", "remove"} \cup Exclusive[1]
           /\ c.op \in SessionOps \cup {"exist", "remove", "add"} => c.s \in SessionId
           /\ c.op \in SessionOps \ {"prolong"} => c.k \in Key
           /\ c.op \in {"removeAllKey", "addAllKey"} => c.k \in Key
           /\ c.op \in {"add", "prolong", "generate", "prolongKey", "addKey"} =>
                 c.lifetime \in Lifetime
           /\ c.op \in {"addKey", "setKey", "setForceKey", "addAllKey"} => c.d \in Data
           /\ c.op \in {"getKey", "setKey", "setForceKey"} => c.cap \in RateLimit
<1>1. CASE c \in SessionRequest
  BY <1>1 DEF SessionRequest, Operations, SessionOps, Exclusive
<1>2. CASE c \in KeyRequest
  BY <1>2 DEF KeyRequest, Operations, SessionOps, Exclusive
<1>3. CASE c \in AllRequest
  BY <1>3 DEF AllRequest, Operations, SessionOps, Exclusive
<1> QED
  BY <1>1, <1>2, <1>3 DEF Request

\* The lock that a call waits for, holds or drops where it is.
LEMMA OwnLock ==
    ASSUME NEW p \in Places, NEW c, Fitting(p, c), NEW l \in 1 .. 3,
           p[2] = l
    PROVE  LockOf(c, l) \in LockId
<1>1. p # Idle
  BY DEF Idle
<1>2. CASE l = 1
  BY <1>2 DEF LockOf, LockId
<1>3. CASE l = 2
  <2>1. c.s \in SessionId
    BY <1>1, <1>3, RequestFields DEF Fitting
  <2> QED
    BY <1>3, <2>1 DEF LockOf, LockId
<1>4. CASE l = 3
  <2>1. c.s \in SessionId /\ c.k \in Key
    BY <1>1, <1>4, RequestFields DEF Fitting, ValueOps, SessionOps
  <2> QED
    BY <1>4, <2>1 DEF LockOf, LockId
<1> QED
  BY <1>2, <1>3, <1>4

\* Nobody else holds, in either mode, what one thread holds exclusively.
LEMMA Alone ==
    ASSUME NEW A, NEW C, NEW L, LocksMatch(A, C, L), Excludes(L),
           NEW x \in LockId, NEW t \in Thread, NEW u \in Thread \ {t},
           Claims(C[t], Taken(A[t]), x, "exclusive"), NEW mode \in Mode
    PROVE  ~Claims(C[u], Taken(A[u]), x, mode)
<1>1. t \in L[x].owner
  BY DEF LocksMatch, Holders
<1>2. u \notin L[x].owner /\ u \notin L[x].readers
  BY <1>1 DEF Excludes
<1>3. mode = "exclusive" \/ mode = "shared"
  BY DEF Mode
<1> QED
  BY <1>2, <1>3 DEF LocksMatch, Holders

\* A lock nobody has to do with is free: its record may go, and come back.
LEMMA UnclaimedIsFree ==
    ASSUME NEW A \in [Thread -> Places], NEW C, NEW L \in Locks, LocksMatch(A, C, L),
           NEW x \in LockId,
           \A t \in Thread, mode \in Mode : ~Claims(C[t], Raised(A[t]), x, mode)
    PROVE  L[x] = FreeLock
<1>1. ASSUME NEW t \in Thread, NEW mode \in Mode
      PROVE  ~Claims(C[t], Taken(A[t]), x, mode)
  <2>1. Taken(A[t]) <= Raised(A[t]) /\ Taken(A[t]) \in 0 .. 3 /\ Raised(A[t]) \in 0 .. 3
    BY PlaceType DEF Taken, Raised
  <2>2. \A l \in 1 .. Taken(A[t]) : l \in 1 .. Raised(A[t])
    BY <2>1
  <2> QED
    BY <2>2 DEF Claims
<1>2. /\ Holders(A, C, x, "exclusive") = {} /\ Holders(A, C, x, "shared") = {}
      /\ Raisers(A, C, x) = {}
  BY <1>1 DEF Holders, Raisers, Mode
<1>3. L[x].gate = 0 /\ L[x].owner = {} /\ L[x].readers = {}
  BY <1>2, FS_EmptySet DEF LocksMatch
<1> QED
  BY <1>3 DEF Locks, LockState, FreeLock

\* The list changes under the locks of X only, in what others rely on: the
\* sessions there are, their keys and counters, and what is written.
Confined(L, M, X) ==
    \A s \in SessionId :
        /\ <<>> \notin X /\ L[s] # NoItem => M[s] # NoItem
        /\ <<>> \notin X /\ <<s>> \notin X /\ L[s] # NoItem =>
              /\ M[s].counterKeys = L[s].counterKeys
              /\ \A k \in Key : L[s].values[k] # NoValue =>
                    /\ M[s].values[k] # NoValue
                    /\ <<s, k>> \notin X =>
                          /\ M[s].values[k].value = L[s].values[k].value
                          /\ M[s].values[k].counterRecord =
                                L[s].values[k].counterRecord

\* What a call that holds its value's lock sees stay.
Stays(c, L, M) ==
    /\ M[c.s].counterKeys = L[c.s].counterKeys
    /\ M[c.s].values[c.k].value = L[c.s].values[c.k].value
    /\ M[c.s].values[c.k].counterRecord = L[c.s].values[c.k].counterRecord

\* A call without a lock of X keeps its records, and a call that holds its
\* value's lock finds it as it was.
LEMMA Spared ==
    ASSUME NEW p \in Places, NEW c, NEW L, NEW M, NEW X,
           Fitting(p, c), Uses(p, c, L), Confined(L, M, X),
           \A x \in X, mode \in Mode : ~Claims(c, Taken(p), x, mode)
    PROVE  Uses(p, c, M) /\ (Taken(p) = 3 => Stays(c, L, M))
<1>1. ASSUME NEW l \in 1 .. 3, l <= Taken(p)
      PROVE  LockOf(c, l) \notin X
  <2>1. l \in 1 .. Taken(p)
    BY <1>1, PlaceType
  <2> QED
    BY <2>1, ModeType DEF Claims
<1>2. CASE p[2] = 0
  BY <1>2, PlaceType DEF Uses, Taken
<1>3. CASE p[2] = 1
  <2>1. Taken(p) <= 1
    BY <1>3 DEF Taken
  <2>2. CASE p \in {<<"fits", 1>>, <<"write", 1>>}
    <3>1. c.s \in SessionId
      BY <2>2, RequestFields DEF Fitting, Idle, SessionOps
    <3>2. L[c.s] # NoItem /\ <<>> \notin X
      BY <1>1, <2>2 DEF Uses, LockOf, Taken
    <3>3. M[c.s] # NoItem
      BY <3>1, <3>2 DEF Confined
    <3> QED
      BY <1>3, <2>1, <3>3 DEF Uses
  <2>3. CASE p \notin {<<"fits", 1>>, <<"write", 1>>}
    BY <1>3, <2>1, <2>3 DEF Uses
  <2> QED
    BY <2>2, <2>3
<1>4. CASE p[2] \in {2, 3}
  <2>1. p # Idle /\ Taken(p) >= 1 /\ Taken(p) <= p[2] /\ (p[2] = 3 => Taken(p) >= 2)
    BY <1>4 DEF Idle, Taken
  <2>2. c.s \in SessionId /\ (p[2] = 3 => c.k \in Key)
    BY <1>4, <2>1, RequestFields DEF Fitting, SessionOps, ValueOps
  <2>3. <<>> \notin X
    BY <1>1, <2>1 DEF LockOf
  <2>4. p[2] = 3 => <<c.s>> \notin X
    BY <1>1, <2>1, PlaceType DEF LockOf
  <2>5. Taken(p) = 3 => p[2] = 3 /\ <<c.s, c.k>> \notin X
    <3>1. Taken(p) = 3 => p[2] = 3
      BY <2>1, <1>4
    <3>2. Taken(p) = 3 => LockOf(c, 3) \notin X
      BY <1>1
    <3> QED
      BY <3>1, <3>2 DEF LockOf
  <2>6. L[c.s] # NoItem /\ (p[2] = 3 => L[c.s].values[c.k] # NoValue)
    BY <1>4 DEF Uses
  <2>7. M[c.s] # NoItem /\ (p[2] = 3 => M[c.s].values[c.k] # NoValue)
    BY <2>2, <2>3, <2>4, <2>6 DEF Confined
  <2>8. Taken(p) = 3 => Stays(c, L, M)
    BY <2>2, <2>3, <2>4, <2>5, <2>6 DEF Confined, Stays
  <2> QED
    BY <2>7, <2>8 DEF Uses
<1> QED
  BY <1>2, <1>3, <1>4, PlaceType

-------------------------------------------------------------------------------
(* The inductive invariant.                                                 *)

\* A call whose counters are those it has read, or has compared.
ReadMark(p, c, note, L) ==
    p = <<"answer", 3>> =>
        note = [value |-> L[c.s].values[c.k].value,
                record |-> L[c.s].values[c.k].counterRecord,
                keys |-> L[c.s].counterKeys]

CheckMark(p, c, L) ==
    c.op = "setKey" /\ p \in {<<"write", 3>>, <<"count", 3>>} =>
        /\ L[c.s].values[c.k].counterRecord = c.record
        /\ L[c.s].counterKeys = c.keys

ThreadsTyped ==
    /\ locks \in Locks
    /\ call \in [Thread -> Request \cup {NoCall}]
    /\ at \in [Thread -> Places]
    /\ keyEnd \in [Thread -> Nat]
    /\ seen = [t \in Thread |-> seen[t]]

Standing ==
    \A t \in Thread : /\ Fitting(at[t], call[t])
                      /\ Uses(at[t], call[t], list)
                      /\ ReadMark(at[t], call[t], seen[t], list)
                      /\ CheckMark(at[t], call[t], list)

\* What SessionStore keeps, and that every thread stands where its call, the
\* locks and the list allow it to.
TInv ==
    /\ IInv /\ limit # Unset
    /\ ThreadsTyped
    /\ Standing
    /\ LocksMatch(at, call, locks)
    /\ Excludes(locks)

LEMMA MarksStay ==
    ASSUME NEW p \in Places, NEW c, NEW note, NEW L, NEW M,
           Taken(p) = 3 => Stays(c, L, M),
           ReadMark(p, c, note, L), CheckMark(p, c, L)
    PROVE  ReadMark(p, c, note, M) /\ CheckMark(p, c, M)
<1>1. p \in {<<"answer", 3>>, <<"write", 3>>, <<"count", 3>>} => Taken(p) = 3
  BY DEF Taken
<1> QED
  BY <1>1 DEF ReadMark, CheckMark, Stays

LEMMA StayConfined ==
    ASSUME NEW L
    PROVE  Confined(L, L, {})
BY DEF Confined

\* One thread takes a step, which changes the list only under locks that the
\* thread holds exclusively: nobody else notices.
LEMMA ThreadStep ==
    ASSUME TInv, NEW t \in Thread,
           NEW p \in Places, Becomes(at, at', t, p),
           NEW c \in Request \cup {NoCall}, Becomes(call, call', t, c),
           keyEnd' \in [Thread -> Nat], NEW note, Becomes(seen, seen', t, note),
           locks' \in Locks, LocksMatch(at', call', locks'), Excludes(locks'),
           IInv', limit' = limit,
           NEW X \in SUBSET LockId, Confined(list, list', X),
           \A x \in X : Claims(call[t], Taken(at[t]), x, "exclusive"),
           Fitting(p, c), Uses(p, c, list'),
           ReadMark(p, c, note, list'), CheckMark(p, c, list')
    PROVE  TInv'
<1>1. /\ at' \in [Thread -> Places] /\ at'[t] = p
      /\ call' \in [Thread -> Request \cup {NoCall}] /\ call'[t] = c
      /\ seen' = [u \in Thread |-> seen'[u]] /\ seen'[t] = note
      /\ \A u \in Thread \ {t} : at'[u] = at[u] /\ call'[u] = call[u] /\ seen'[u] = seen[u]
  BY DEF TInv, ThreadsTyped, Becomes
<1>2. ThreadsTyped'
  BY <1>1 DEF ThreadsTyped
<1>3. ASSUME NEW u \in Thread \ {t}
      PROVE  /\ Fitting(at[u], call[u]) /\ Uses(at[u], call[u], list')
             /\ ReadMark(at[u], call[u], seen[u], list')
             /\ CheckMark(at[u], call[u], list')
  <2>1. /\ at[u] \in Places
        /\ Fitting(at[u], call[u]) /\ Uses(at[u], call[u], list)
        /\ ReadMark(at[u], call[u], seen[u], list) /\ CheckMark(at[u], call[u], list)
    BY DEF TInv, ThreadsTyped, Standing
  <2>2. \A x \in X, mode \in Mode : ~Claims(call[u], Taken(at[u]), x, mode)
    BY Alone DEF TInv
  <2>3. Uses(at[u], call[u], list') /\ (Taken(at[u]) = 3 => Stays(call[u], list, list'))
    BY <2>1, <2>2, Spared
  <2> QED
    BY <2>1, <2>3, MarksStay
<1>4. Standing'
  <2> SUFFICES ASSUME NEW u \in Thread
               PROVE  /\ Fitting(at'[u], call'[u]) /\ Uses(at'[u], call'[u], list')
                      /\ ReadMark(at'[u], call'[u], seen'[u], list')
                      /\ CheckMark(at'[u], call'[u], list')
    BY DEF Standing
  <2>1. CASE u = t
    BY <1>1, <2>1
  <2>2. CASE u # t
    BY <1>1, <1>3, <2>2
  <2> QED
    BY <2>1, <2>2
<1> QED
  BY <1>2, <1>4 DEF TInv

-------------------------------------------------------------------------------
(* The steps that leave the store alone.                                    *)

LEMMA ThreadAt ==
    ASSUME TInv, NEW t \in Thread
    PROVE  /\ at[t] \in Places /\ call[t] \in Request \cup {NoCall}
           /\ Fitting(at[t], call[t]) /\ Uses(at[t], call[t], list)
           /\ ReadMark(at[t], call[t], seen[t], list)
           /\ CheckMark(at[t], call[t], list)
           /\ Becomes(call, call, t, call[t]) /\ Becomes(seen, seen, t, seen[t])
           /\ Becomes(at, at, t, at[t])
<1>1. /\ at[t] \in Places /\ call[t] \in Request \cup {NoCall}
      /\ Fitting(at[t], call[t]) /\ Uses(at[t], call[t], list)
      /\ ReadMark(at[t], call[t], seen[t], list)
      /\ CheckMark(at[t], call[t], list)
  BY DEF TInv, ThreadsTyped, Standing
<1>2. Becomes(call, call, t, call[t]) /\ Becomes(at, at, t, at[t])
  BY DEF TInv, ThreadsTyped, Becomes
<1>3. Becomes(seen, seen, t, seen[t])
  BY DEF TInv, ThreadsTyped, Becomes
<1> QED
  BY <1>1, <1>2, <1>3

LEMMA QuietInv ==
    ASSUME IInv, UNCHANGED vars
    PROVE  IInv'
BY NextInv

\* The places where a call has read, or compared, nothing.
Unmarked(p) == p \notin {<<"answer", 3>>, <<"write", 3>>, <<"count", 3>>}

LEMMA QuietStep ==
    ASSUME TInv, NEW t \in Thread, UNCHANGED <<vars, keyEnd, seen>>,
           NEW p \in Places, Becomes(at, at', t, p), Unmarked(p),
           NEW c \in Request \cup {NoCall}, Becomes(call, call', t, c),
           locks' \in Locks, LocksMatch(at', call', locks'), Excludes(locks'),
           Fitting(p, c), Uses(p, c, list)
    PROVE  TInv'
<1>1. IInv' /\ limit' = limit /\ list' = list
  BY QuietInv DEF TInv, vars
<1>2. Confined(list, list', {})
  BY <1>1, StayConfined
<1>3. ReadMark(p, c, seen[t], list') /\ CheckMark(p, c, list')
  BY DEF ReadMark, CheckMark, Unmarked
<1>4. keyEnd' \in [Thread -> Nat] /\ Becomes(seen, seen', t, seen[t])
  BY ThreadAt DEF TInv, ThreadsTyped
<1>5. Uses(p, c, list')
  BY <1>1
<1> QED
  BY <1>1, <1>2, <1>3, <1>4, <1>5, ThreadStep

\* A call that stays on its level, or steps back, still fits.
LEMMA FitsOn ==
    ASSUME NEW p \in Places, NEW c, NEW L, Fitting(p, c), Uses(p, c, L),
           NEW l \in 1 .. 3, l <= p[2],
           NEW step \in {"gate", "mutex", "body", "unlock"}
    PROVE  Fitting(<<step, l>>, c) /\ Uses(<<step, l>>, c, L) /\ Unmarked(<<step, l>>)
<1>1. p # Idle /\ p[2] \in 1 .. 3
  BY PlaceType DEF Idle
<1>2. SessionOps \cap ValueOps = ValueOps
  BY DEF SessionOps, ValueOps
<1>3. Fitting(<<step, l>>, c)
  BY <1>1, <1>2 DEF Fitting
<1>4. Uses(<<step, l>>, c, L)
  BY <1>1 DEF Uses
<1> QED
  BY <1>3, <1>4 DEF Unmarked

LEMMA BeginInv ==
    ASSUME TInv, NEW t \in Thread, NEW c \in Request, Begin(t, c)
    PROVE  TInv'
<1> DEFINE p == <<"gate", 1>>
<1>1. at[t] = Idle /\ Becomes(at, at', t, p) /\ Becomes(call, call', t, c)
  BY DEF Begin, GoTo, Becomes
<1>2. UNCHANGED <<vars, locks, seen>>
  BY DEF Begin, Quietly
<1>3. keyEnd' \in [Thread -> Nat]
  <2> DEFINE e == IF c.op \in {"addKey", "prolongKey"} THEN EndOf(c.lifetime) ELSE 0
  <2>1. e \in Nat
    BY RequestFields, EndOfType DEF TInv, IInv, TypeOK
  <2>2. keyEnd' = [keyEnd EXCEPT ![t] = e]
    BY DEF Begin
  <2> HIDE DEF e
  <2> QED
    BY <2>1, <2>2 DEF TInv, ThreadsTyped
<1>4. /\ Taken(Idle) = 0 /\ Raised(Idle) = 0 /\ p \in Places
      /\ Taken(p) = 0 /\ Raised(p) = 0
  BY StepPlaces DEF Taken, Raised, Idle
<1> HIDE DEF p
<1>5. LocksMatch(at', call', locks)
  BY <1>1, <1>4, MatchIdle DEF TInv, ThreadsTyped
<1>6. Fitting(p, c) /\ Uses(p, c, list)
  BY DEF p, Fitting, Uses
<1>7. ReadMark(p, c, seen[t], list) /\ CheckMark(p, c, list)
  BY DEF p, ReadMark, CheckMark
<1>8. IInv' /\ limit' = limit /\ list' = list /\ Confined(list, list, {})
  BY <1>2, QuietInv, StayConfined DEF TInv, vars
<1>9. /\ locks' \in Locks /\ LocksMatch(at', call', locks') /\ Excludes(locks')
      /\ Becomes(seen, seen', t, seen[t])
  BY <1>2, <1>5, ThreadAt DEF TInv, ThreadsTyped
<1>10. /\ Confined(list, list', {}) /\ Uses(p, c, list')
       /\ ReadMark(p, c, seen[t], list') /\ CheckMark(p, c, list')
  BY <1>6, <1>7, <1>8
<1> QED
  BY <1>1, <1>3, <1>4, <1>6, <1>8, <1>9, <1>10, ThreadStep

\* What Gate and the like take from the place on a level.
LEMMA OnLevel ==
    ASSUME TInv, NEW t \in Thread, NEW l \in 1 .. 3, at[t][2] = l
    PROVE  /\ LockOf(call[t], l) \in LockId
           /\ Wants(call[t], l, LockOf(call[t], l), ModeAt(call[t].op, l))
           /\ locks[LockOf(call[t], l)] \in LockState
           /\ LocksMatch(at, call, locks) /\ Excludes(locks)
           /\ locks \in Locks /\ at \in [Thread -> Places]
<1>1. LockOf(call[t], l) \in LockId
  BY ThreadAt, OwnLock
<1> QED
  BY <1>1 DEF TInv, ThreadsTyped, Wants, Locks

LEMMA GateInv ==
    ASSUME TInv, NEW t \in Thread, Gate(t)
    PROVE  TInv'
<1>1. PICK l \in 1 .. 3 :
        /\ at[t] = <<"gate", l>>
        /\ \/ /\ ModeAt(call[t].op, l) = "exclusive"
              /\ Becomes(locks, locks', LockOf(call[t], l),
                         CloseGate(locks[LockOf(call[t], l)]))
           \/ /\ ModeAt(call[t].op, l) # "exclusive"
              /\ UNCHANGED locks
        /\ Becomes(at, at', t, <<"mutex", l>>)
        /\ UNCHANGED <<vars, call, keyEnd, seen>>
  BY DEF Gate, GoTo, Quietly, Becomes
<1>2. at[t][2] = l
  BY <1>1
<1>3. Fitting(<<"mutex", l>>, call[t]) /\ Uses(<<"mutex", l>>, call[t], list)
      /\ Unmarked(<<"mutex", l>>)
  BY <1>2, ThreadAt, FitsOn
<1>4. locks' \in Locks /\ Excludes(locks') /\ LocksMatch(at', call, locks')
  <2>1. CASE ModeAt(call[t].op, l) = "exclusive"
    BY <1>1, <1>2, <2>1, OnLevel, CloseMatch
  <2>2. CASE ModeAt(call[t].op, l) # "exclusive"
    BY <1>1, <1>2, <2>2, OnLevel, PassMatch
  <2> QED
    BY <2>1, <2>2
<1>5. LocksMatch(at', call', locks') /\ Becomes(call, call', t, call[t])
  BY <1>1, <1>4, ThreadAt
<1>6. <<"mutex", l>> \in Places /\ call[t] \in Request \cup {NoCall}
  BY StepPlaces, ThreadAt
<1> QED
  BY <1>1, <1>3, <1>4, <1>5, <1>6, QuietStep

LEMMA MutexInv ==
    ASSUME TInv, NEW t \in Thread, Mutex(t)
    PROVE  TInv'
<1>1. PICK l \in 1 .. 3 :
        /\ at[t] = <<"mutex", l>>
        /\ MutexFree(locks[LockOf(call[t], l)], ModeAt(call[t].op, l))
        /\ Becomes(locks, locks', LockOf(call[t], l),
                   TakeMutex(locks[LockOf(call[t], l)], t, ModeAt(call[t].op, l)))
        /\ Becomes(at, at', t, <<"body", l>>)
        /\ UNCHANGED <<vars, call, keyEnd, seen>>
  BY DEF Mutex, GoTo, Quietly, Becomes
<1>2. at[t][2] = l
  BY <1>1
<1>3. Fitting(<<"body", l>>, call[t]) /\ Uses(<<"body", l>>, call[t], list)
      /\ Unmarked(<<"body", l>>)
  BY <1>2, ThreadAt, FitsOn
<1>4. locks' \in Locks /\ Excludes(locks') /\ LocksMatch(at', call, locks')
  BY <1>1, <1>2, OnLevel, EnterMatch
<1>5. LocksMatch(at', call', locks') /\ Becomes(call, call', t, call[t])
  BY <1>1, <1>4, ThreadAt
<1>6. <<"body", l>> \in Places /\ call[t] \in Request \cup {NoCall}
  BY StepPlaces, ThreadAt
<1> QED
  BY <1>1, <1>3, <1>4, <1>5, <1>6, QuietStep

\* A call that is done with a level goes on below it, or ends.
LEMMA BelowStep ==
    ASSUME TInv, NEW t \in Thread, NEW l \in 1 .. 3, at[t][2] = l,
           Below(t, l), UNCHANGED <<vars, keyEnd, seen>>,
           locks' \in Locks, Excludes(locks'),
           \A B : Becomes(at, B, t, Lower(l)) => LocksMatch(B, call, locks')
    PROVE  TInv'
<1>1. Becomes(at, at', t, Lower(l)) /\ LocksMatch(at', call, locks')
  <2>1. CASE l = 1
    BY <2>1 DEF Below, Lower, Becomes
  <2>2. CASE l # 1
    BY <2>2 DEF Below, GoTo, Lower, Becomes
  <2> QED
    BY <2>1, <2>2
<1>2. CASE l = 1
  <2>1. Becomes(call, call', t, NoCall) /\ Lower(l) = Idle
    BY <1>2 DEF Below, Becomes, Lower
  <2>2. /\ Idle \in Places /\ Taken(Idle) = 0 /\ Raised(Idle) = 0
        /\ Unmarked(Idle) /\ Fitting(Idle, NoCall) /\ Uses(Idle, NoCall, list)
    BY DEF Idle, Places, Taken, Raised, Unmarked, Fitting, Uses
  <2>3. at' \in [Thread -> Places] /\ at'[t] = Idle /\ Becomes(at', at', t, Idle)
    BY <1>1, <2>1, <2>2 DEF TInv, ThreadsTyped, Becomes
  <2>4. LocksMatch(at', call', locks')
    BY <1>1, <2>1, <2>2, <2>3, MatchIdle DEF TInv, ThreadsTyped
  <2> QED
    BY <1>1, <2>1, <2>2, <2>4, QuietStep
<1>3. CASE l # 1
  <2>1. l - 1 \in 1 .. 3 /\ l - 1 <= at[t][2] /\ Lower(l) = <<"unlock", l - 1>>
    BY <1>3 DEF Lower
  <2>2. /\ Fitting(Lower(l), call[t]) /\ Uses(Lower(l), call[t], list)
        /\ Unmarked(Lower(l))
    BY <2>1, ThreadAt, FitsOn
  <2>3. call' = call
    BY <1>3 DEF Below
  <2>4. LocksMatch(at', call', locks') /\ Becomes(call, call', t, call[t])
    BY <1>1, <2>3, ThreadAt
  <2> QED
    BY <1>1, <2>2, <2>4, LowerPlace, ThreadAt, QuietStep
<1> QED
  BY <1>2, <1>3

LEMMA UnlockInv ==
    ASSUME TInv, NEW t \in Thread, Unlock(t)
    PROVE  TInv'
<1>1. PICK l \in 1 .. 3 :
        /\ at[t] = <<"unlock", l>>
        /\ Becomes(locks, locks', LockOf(call[t], l),
                   LeaveMutex(locks[LockOf(call[t], l)], t, ModeAt(call[t].op, l)))
        /\ IF ModeAt(call[t].op, l) = "exclusive"
             THEN Becomes(at, at', t, <<"open", l>>) /\ UNCHANGED call
             ELSE Below(t, l)
        /\ UNCHANGED <<vars, keyEnd, seen>>
  BY DEF Unlock, GoTo, Quietly, Becomes
<1>2. at[t][2] = l
  BY <1>1
<1>3. CASE ModeAt(call[t].op, l) = "exclusive"
  <2>1. locks' \in Locks /\ Excludes(locks') /\ LocksMatch(at', call, locks')
    BY <1>1, <1>2, <1>3, OnLevel, LeaveMatch
  <2>2. Fitting(<<"open", l>>, call[t]) /\ Uses(<<"open", l>>, call[t], list)
    <3>1. call[t].op \in Exclusive[l]
      BY <1>3, ModeType
    <3>2. Fitting(<<"unlock", l>>, call[t]) /\ Uses(<<"unlock", l>>, call[t], list)
      BY <1>1, ThreadAt
    <3> QED
      BY <3>1, <3>2 DEF Fitting, Uses, Idle
  <2>3. Becomes(at, at', t, <<"open", l>>) /\ UNCHANGED call
    BY <1>1, <1>3
  <2>4. LocksMatch(at', call', locks') /\ Becomes(call, call', t, call[t])
    BY <2>1, <2>3, ThreadAt
  <2>5. /\ <<"open", l>> \in Places /\ Unmarked(<<"open", l>>)
        /\ call[t] \in Request \cup {NoCall}
    BY StepPlaces, ThreadAt DEF Unmarked
  <2> QED
    BY <1>1, <2>1, <2>2, <2>3, <2>4, <2>5, QuietStep
<1>4. CASE ModeAt(call[t].op, l) # "exclusive"
  <2>1. ASSUME NEW B, Becomes(at, B, t, Lower(l))
        PROVE  locks' \in Locks /\ Excludes(locks') /\ LocksMatch(B, call, locks')
    BY <1>1, <1>2, <1>4, <2>1, OnLevel, LeaveSharedMatch
  <2>2. Becomes(at, [at EXCEPT ![t] = Lower(l)], t, Lower(l))
    BY DEF Becomes
  <2> QED
    BY <1>1, <1>2, <1>4, <2>1, <2>2, BelowStep
<1> QED
  BY <1>3, <1>4

LEMMA OpenInv ==
    ASSUME TInv, NEW t \in Thread, Open(t)
    PROVE  TInv'
<1>1. PICK l \in 1 .. 3 :
        /\ at[t] = <<"open", l>>
        /\ Becomes(locks, locks', LockOf(call[t], l),
                   OpenGate(locks[LockOf(call[t], l)]))
        /\ Below(t, l)
        /\ UNCHANGED <<vars, keyEnd, seen>>
  BY DEF Open, Quietly, Becomes
<1>2. at[t][2] = l
  BY <1>1
<1>3. ModeAt(call[t].op, l) = "exclusive"
  <2>1. Fitting(<<"open", l>>, call[t])
    BY <1>1, ThreadAt
  <2> QED
    BY <2>1, ModeType DEF Fitting, Idle
<1>4. ASSUME NEW B, Becomes(at, B, t, Lower(l))
      PROVE  locks' \in Locks /\ Excludes(locks') /\ LocksMatch(B, call, locks')
  BY <1>1, <1>2, <1>3, <1>4, OnLevel, ReopenMatch
<1>5. Becomes(at, [at EXCEPT ![t] = Lower(l)], t, Lower(l))
  BY DEF Becomes
<1> QED
  BY <1>1, <1>2, <1>4, <1>5, BelowStep

-------------------------------------------------------------------------------
(* The steps that look at the store, and those that write to it, with the   *)
(* locks they already have.                                                 *)

\* A thread steps from one place to another with as many locks.
LEMMA StoreStep ==
    ASSUME TInv, NEW t \in Thread, UNCHANGED <<locks, call, keyEnd>>,
           NEW p \in Places, Becomes(at, at', t, p),
           Taken(p) = Taken(at[t]), Raised(p) = Raised(at[t]),
           NEW note, Becomes(seen, seen', t, note),
           IInv', limit' = limit,
           NEW X \in SUBSET LockId, Confined(list, list', X),
           \A x \in X : Claims(call[t], Taken(at[t]), x, "exclusive"),
           Fitting(p, call[t]), Uses(p, call[t], list'),
           ReadMark(p, call[t], note, list'), CheckMark(p, call[t], list')
    PROVE  TInv'
<1>1. LocksMatch(at', call, locks)
  BY MatchSame DEF TInv, ThreadsTyped
<1>2. /\ locks' \in Locks /\ LocksMatch(at', call', locks') /\ Excludes(locks')
      /\ keyEnd' \in [Thread -> Nat] /\ Becomes(call, call', t, call[t])
      /\ call[t] \in Request \cup {NoCall}
  BY <1>1, ThreadAt DEF TInv, ThreadsTyped
<1> QED
  BY <1>2, ThreadStep

\* The thread looks, and goes on or answers.
LEMMA LookStep ==
    ASSUME TInv, NEW t \in Thread, UNCHANGED <<locks, call, keyEnd, seen>>,
           \/ UNCHANGED vars
           \/ \E res \in Results : Refuse(call[t].op, res),
           at[t] # Idle,
           NEW p \in Places, Becomes(at, at', t, p), Unmarked(p),
           Taken(p) = Taken(at[t]), Raised(p) = Raised(at[t]),
           Fitting(p, call[t]), Uses(p, call[t], list)
    PROVE  TInv'
<1>1. call[t].op \in Operations
  BY ThreadAt, RequestFields DEF Fitting
<1>2. IInv' /\ limit' = limit /\ list' = list
  BY <1>1, QuietInv, RefuseInv DEF TInv, vars, Refuse, table
<1>3. Confined(list, list', {}) /\ Uses(p, call[t], list')
  BY <1>2, StayConfined
<1>4. ReadMark(p, call[t], seen[t], list') /\ CheckMark(p, call[t], list')
  BY DEF ReadMark, CheckMark, Unmarked
<1>5. Becomes(seen, seen', t, seen[t])
  BY ThreadAt
<1> QED
  BY <1>2, <1>3, <1>4, <1>5, StoreStep

LEMMA FindInv ==
    ASSUME TInv, NEW t \in Thread, Find(t)
    PROVE  TInv'
<1>1. /\ at[t] = <<"body", 1>> /\ call[t].op \notin Exclusive[1]
      /\ UNCHANGED <<locks, call, keyEnd, seen>>
  BY DEF Find, Fail, Return, GoOn
<1>2. /\ Fitting(at[t], call[t]) /\ at[t] # Idle /\ call[t] \in Request
      /\ Taken(at[t]) = 1 /\ Raised(at[t]) = 1
  <2>1. Fitting(at[t], call[t]) /\ at[t] # Idle
    BY <1>1, ThreadAt DEF Idle
  <2> QED
    BY <1>1, <2>1 DEF Fitting, Taken, Raised
<1>3. CASE \E res \in Results : Fail(t, 1, res)
  <2> DEFINE p == <<"unlock", 1>>
  <2>1. Becomes(at, at', t, p) /\ \E res \in Results : Refuse(call[t].op, res)
    BY <1>3 DEF Fail, Return, GoTo, Becomes
  <2>2. p \in Places /\ Unmarked(p) /\ Taken(p) = 1 /\ Raised(p) = 1
    BY StepPlaces DEF Unmarked
  <2>3. Fitting(p, call[t]) /\ Uses(p, call[t], list)
    BY <1>2 DEF Fitting, Uses
  <2> HIDE DEF p
  <2> QED
    BY <1>1, <1>2, <2>1, <2>2, <2>3, LookStep
<1>4. ASSUME NEW p \in {<<"write", 1>>, <<"fits", 1>>, <<"gate", 2>>},
             Found(call[t].s), Becomes(at, at', t, p), UNCHANGED vars,
             p = <<"write", 1>> => call[t].op = "remove",
             p = <<"fits", 1>> => call[t].op \in {"addKey", "prolongKey"},
             p = <<"gate", 2>> => call[t].op \in SessionOps
      PROVE  TInv'
  <2>1. p \in Places /\ Unmarked(p) /\ Taken(p) = 1 /\ Raised(p) = 1
    BY DEF Unmarked, Places, Taken, Raised
  <2>2. Fitting(p, call[t]) /\ Uses(p, call[t], list)
    BY <1>2, <1>4 DEF Fitting, Uses, Found
  <2> QED
    BY <1>1, <1>2, <1>4, <2>1, <2>2, LookStep
<1>5. \/ \E res \in Results : Fail(t, 1, res)
      \/ /\ Found(call[t].s) /\ UNCHANGED vars
         /\ \/ call[t].op = "remove" /\ Becomes(at, at', t, <<"write", 1>>)
            \/ /\ call[t].op \in {"addKey", "prolongKey"}
               /\ Becomes(at, at', t, <<"fits", 1>>)
            \/ /\ call[t].op \notin {"exist", "remove", "addKey", "prolongKey"}
               /\ Becomes(at, at', t, <<"gate", 2>>)
  BY DEF Find, Quietly, GoOn, GoTo, Becomes, Results
<1>6. call[t].op \in SessionOps \cup {"exist", "remove"}
  BY <1>1, <1>2, RequestFields
<1> QED
  BY <1>3, <1>4, <1>5, <1>6

LEMMA FitsInv ==
    ASSUME TInv, NEW t \in Thread, Fits(t)
    PROVE  TInv'
<1>1. /\ at[t] = <<"fits", 1>> /\ UNCHANGED <<locks, call, keyEnd, seen>>
  BY DEF Fits, Fail, Return, GoOn
<1>2. /\ call[t] \in Request /\ at[t] # Idle /\ call[t].op \in SessionOps
      /\ list[call[t].s] # NoItem
      /\ Taken(at[t]) = 1 /\ Raised(at[t]) = 1
  <2>1. Fitting(at[t], call[t]) /\ Uses(at[t], call[t], list) /\ at[t] # Idle
    BY <1>1, ThreadAt DEF Idle
  <2> QED
    BY <1>1, <2>1 DEF Fitting, Uses, Taken, Raised, SessionOps
<1>3. PICK p \in {<<"unlock", 1>>, <<"gate", 2>>} :
        /\ Becomes(at, at', t, p)
        /\ \/ UNCHANGED vars
           \/ \E res \in Results : Refuse(call[t].op, res)
  BY DEF Fits, Fail, Return, Quietly, GoOn, GoTo, Becomes, Results
<1>4. p \in Places /\ Unmarked(p) /\ Taken(p) = 1 /\ Raised(p) = 1
  BY DEF Unmarked, Places, Taken, Raised
<1>5. Fitting(p, call[t]) /\ Uses(p, call[t], list)
  BY <1>2 DEF Fitting, Uses
<1> QED
  BY <1>1, <1>2, <1>3, <1>4, <1>5, LookStep

LEMMA FindKeyInv ==
    ASSUME TInv, NEW t \in Thread, FindKey(t)
    PROVE  TInv'
<1>1. /\ at[t] = <<"body", 2>> /\ call[t].op \notin Exclusive[2]
      /\ UNCHANGED <<locks, call, keyEnd, seen>>
  BY DEF FindKey, Fail, Return, GoOn
<1>2. /\ call[t] \in Request /\ at[t] # Idle /\ call[t].op \in SessionOps
      /\ list[call[t].s] # NoItem
      /\ Taken(at[t]) = 2 /\ Raised(at[t]) = 2
  <2>1. Fitting(at[t], call[t]) /\ Uses(at[t], call[t], list) /\ at[t] # Idle
    BY <1>1, ThreadAt DEF Idle
  <2> QED
    BY <1>1, <2>1 DEF Fitting, Uses, Taken, Raised
<1>3. \/ /\ Becomes(at, at', t, <<"unlock", 2>>)
         /\ \E res \in Results : Refuse(call[t].op, res)
      \/ /\ Becomes(at, at', t, <<"gate", 3>>) /\ UNCHANGED vars
         /\ FoundKey(call[t].s, call[t].k) /\ call[t].op # "existKey"
  BY DEF FindKey, Fail, Return, Quietly, GoOn, GoTo, Becomes, Results
<1>4. CASE /\ Becomes(at, at', t, <<"unlock", 2>>)
           /\ \E res \in Results : Refuse(call[t].op, res)
  <2> DEFINE p == <<"unlock", 2>>
  <2>1. p \in Places /\ Unmarked(p) /\ Taken(p) = 2 /\ Raised(p) = 2
    BY DEF Unmarked, Places, Taken, Raised
  <2>2. Fitting(p, call[t]) /\ Uses(p, call[t], list)
    BY <1>2 DEF Fitting, Uses
  <2> QED
    BY <1>1, <1>2, <1>4, <2>1, <2>2, LookStep
<1>5. CASE /\ Becomes(at, at', t, <<"gate", 3>>) /\ UNCHANGED vars
           /\ FoundKey(call[t].s, call[t].k) /\ call[t].op # "existKey"
  <2> DEFINE p == <<"gate", 3>>
  <2>1. p \in Places /\ Unmarked(p) /\ Taken(p) = 2 /\ Raised(p) = 2
    BY DEF Unmarked, Places, Taken, Raised
  <2>2. call[t].op \in ValueOps
    BY <1>1, <1>2, <1>5 DEF SessionOps, ValueOps, Exclusive
  <2>3. Fitting(p, call[t]) /\ Uses(p, call[t], list)
    BY <1>2, <1>5, <2>2 DEF Fitting, Uses, FoundKey
  <2> QED
    BY <1>1, <1>2, <1>5, <2>1, <2>3, LookStep
<1> QED
  BY <1>3, <1>4, <1>5

\* Nothing is counted anew; one value is put into the list.
Recounts == /\ UNCHANGED <<count, limit, totalFree>> /\ now' \in Nat
            /\ reply' \in [op : Operations, res : Results]

Puts(L, M, s, k, v) == M = [L EXCEPT ![s].values[k] = v]

\* Another record in the place of a session's: the counting stays sound, and
\* only those with the session's lock can tell.
LEMMA ReplaceItem ==
    ASSUME IInv, NEW s \in SessionId, list[s] # NoItem,
           NEW item \in Items, Becomes(list, list', s, item),
           Recounts
    PROVE  /\ IInv' /\ limit' = limit
           /\ list'[s] = item /\ list'[s] # NoItem
           /\ Confined(list, list', {<<s>>})
<1>1. /\ list' \in [SessionId -> Items \cup {NoItem}] /\ list'[s] = item
      /\ \A r \in SessionId \ {s} : list'[r] = list[r]
  BY DEF IInv, TypeOK, Becomes
<1>2. item # NoItem
  BY NullAssumption
<1>3. IInv'
  <2>1. TypeOK'
    BY <1>1 DEF IInv, TypeOK, Recounts
  <2>2. \A r \in SessionId : list'[r] = NoItem <=> list[r] = NoItem
    BY <1>1, <1>2
  <2> QED
    BY <2>1, <2>2, SameHeld DEF Recounts
<1>4. Confined(list, list', {<<s>>})
  <2>1. ASSUME NEW r \in SessionId
        PROVE  /\ list[r] # NoItem => list'[r] # NoItem
               /\ <<r>> \notin {<<s>>} => list'[r] = list[r]
    BY <1>1, <1>2
  <2> QED
    BY <2>1 DEF Confined
<1> QED
  BY <1>1, <1>2, <1>3, <1>4 DEF Recounts

\* A record that differs in the end alone.
LEMMA ReplaceEnd ==
    ASSUME IInv, NEW s \in SessionId, list[s] # NoItem, NEW e \in Nat,
           list' = [list EXCEPT ![s].tsEnd = e],
           Recounts
    PROVE  /\ IInv' /\ limit' = limit /\ list'[s] # NoItem
           /\ Confined(list, list', {}) /\ Confined(list, list', {<<s>>})
<1> DEFINE item == [list[s] EXCEPT !.tsEnd = e]
<1>1. list[s] \in Items
  BY DEF IInv, TypeOK
<1>2. /\ item \in Items
      /\ item.counterKeys = list[s].counterKeys /\ item.values = list[s].values
  BY <1>1 DEF Items
<1>3. Becomes(list, list', s, item)
  BY DEF Becomes
<1> HIDE DEF item
<1>4. /\ IInv' /\ limit' = limit /\ list'[s] = item /\ list'[s] # NoItem
      /\ Confined(list, list', {<<s>>})
  BY <1>2, <1>3, ReplaceItem
<1>5. ASSUME NEW r \in SessionId, list[r] # NoItem
      PROVE  /\ list'[r] # NoItem /\ list'[r].counterKeys = list[r].counterKeys
             /\ list'[r].values = list[r].values
  <2>1. r # s => list'[r] = list[r]
    BY <1>3 DEF Becomes, IInv, TypeOK
  <2> QED
    BY <1>2, <1>4, <1>5, <2>1
<1>6. Confined(list, list', {})
  BY <1>5 DEF Confined
<1> QED
  BY <1>4, <1>6

\* Another value in the place of one.
LEMMA ReplaceValue ==
    ASSUME IInv, NEW s \in SessionId, NEW k \in Key,
           list[s] # NoItem, list[s].values[k] # NoValue, NEW v \in Values,
           Puts(list, list', s, k, v),
           Recounts
    PROVE  /\ IInv' /\ limit' = limit
           /\ list'[s] # NoItem /\ list'[s].values[k] = v /\ v # NoValue
           /\ list'[s].counterKeys = list[s].counterKeys
           /\ Confined(list, list', {<<s, k>>})
           /\ /\ v.value = list[s].values[k].value
              /\ v.counterRecord = list[s].values[k].counterRecord
              => Confined(list, list', {})
<1> DEFINE item == [list[s] EXCEPT !.values[k] = v]
<1>0. list[s] \in Items /\ v # NoValue
  BY NullAssumption DEF IInv, TypeOK
<1>1. item \in Items
  BY <1>0, ReplaceValueType
<1>2. /\ item.counterKeys = list[s].counterKeys /\ item.values[k] = v
      /\ \A j \in Key \ {k} : item.values[j] = list[s].values[j]
  BY <1>0 DEF Items
<1>3. Becomes(list, list', s, item)
  BY DEF Becomes, Puts
<1> HIDE DEF item
<1>4. IInv' /\ limit' = limit /\ list'[s] = item /\ list'[s] # NoItem
  BY <1>1, <1>3, ReplaceItem
<1>5. \A r \in SessionId \ {s} : list'[r] = list[r]
  BY <1>3 DEF Becomes, IInv, TypeOK
<1>6. ASSUME NEW X, \/ X = {<<s, k>>}
                    \/ /\ v.value = list[s].values[k].value
                       /\ v.counterRecord = list[s].values[k].counterRecord
      PROVE  Confined(list, list', X)
  <2>1. ASSUME NEW r \in SessionId, list[r] # NoItem, NEW j \in Key,
               list[r].values[j] # NoValue
        PROVE  /\ list'[r].values[j] # NoValue
               /\ <<r, j>> \notin X =>
                     /\ list'[r].values[j].value = list[r].values[j].value
                     /\ list'[r].values[j].counterRecord =
                           list[r].values[j].counterRecord
    <3>1. CASE r = s /\ j = k
      BY <1>0, <1>2, <1>4, <1>6, <3>1
    <3>2. CASE r # s \/ j # k
      BY <1>2, <1>4, <1>5, <2>1, <3>2
    <3> QED
      BY <3>1, <3>2
  <2>2. ASSUME NEW r \in SessionId, list[r] # NoItem
        PROVE  list'[r] # NoItem /\ list'[r].counterKeys = list[r].counterKeys
    BY <1>2, <1>4, <1>5, <2>2
  <2> QED
    BY <2>1, <2>2 DEF Confined
<1> QED
  BY <1>0, <1>2, <1>4, <1>6

\* A call that is at, or past, its value, and the value it has found.
LEMMA AtValue ==
    ASSUME TInv, NEW t \in Thread, at[t][2] = 3, Taken(at[t]) = 3
    PROVE  /\ call[t] \in Request /\ call[t].op \in ValueOps
           /\ call[t].s \in SessionId /\ call[t].k \in Key
           /\ list[call[t].s] # NoItem /\ list[call[t].s] \in Items
           /\ ValueOf(t) # NoValue /\ ValueOf(t) \in Values
           /\ <<call[t].s, call[t].k>> \in LockId
           /\ call[t].op \in Exclusive[3] =>
                 Claims(call[t], Taken(at[t]), <<call[t].s, call[t].k>>, "exclusive")
<1>1. Fitting(at[t], call[t]) /\ Uses(at[t], call[t], list) /\ at[t] # Idle
  BY ThreadAt DEF Idle
<1>2. call[t] \in Request /\ call[t].op \in ValueOps
  BY <1>1 DEF Fitting
<1>3. call[t].s \in SessionId /\ call[t].k \in Key
  BY <1>2, RequestFields DEF ValueOps, SessionOps
<1>4. list[call[t].s] # NoItem /\ list[call[t].s] \in Items /\ ValueOf(t) # NoValue
  BY <1>1, <1>3 DEF Uses, TInv, IInv, TypeOK, ValueOf
<1>5. ValueOf(t) \in Values
  BY <1>3, <1>4 DEF Items, ValueOf
<1>6. <<call[t].s, call[t].k>> \in LockId
  BY <1>3 DEF LockId
<1>7. LockOf(call[t], 3) = <<call[t].s, call[t].k>> /\ 3 \in 1 .. 3
  BY DEF LockOf
<1> QED
  BY <1>2, <1>3, <1>4, <1>5, <1>6, <1>7, ModeType DEF Claims

LEMMA RemoveWriteInv ==
    ASSUME TInv, NEW t \in Thread, RemoveWrite(t)
    PROVE  TInv'
<1> DEFINE p == <<"unlock", 1>>
<1>1. /\ at[t] = <<"write", 1>> /\ UNCHANGED <<locks, call, keyEnd, seen>>
      /\ Becomes(at, at', t, p)
      /\ Update("remove", [list EXCEPT ![call[t].s].tsEnd = 0])
  BY DEF RemoveWrite, Return, GoTo, Becomes
<1>2. Fitting(at[t], call[t]) /\ Uses(at[t], call[t], list) /\ at[t] # Idle
  BY <1>1, ThreadAt DEF Idle
<1>3. call[t] \in Request /\ call[t].op = "remove" /\ list[call[t].s] # NoItem
  BY <1>1, <1>2 DEF Fitting, Uses
<1>4. call[t].s \in SessionId
  BY <1>3, RequestFields
<1>5. list' = [list EXCEPT ![call[t].s].tsEnd = 0] /\ Recounts
  BY <1>1 DEF Recounts, Update, Answer, Operations, Results, TInv, IInv, TypeOK
<1>6. IInv' /\ limit' = limit /\ Confined(list, list', {})
  BY <1>3, <1>4, <1>5, ReplaceEnd DEF TInv
<1>7. p \in Places /\ Taken(p) = Taken(at[t]) /\ Raised(p) = Raised(at[t])
  BY <1>1 DEF Places, Taken, Raised
<1>8. /\ Fitting(p, call[t]) /\ Uses(p, call[t], list')
      /\ ReadMark(p, call[t], seen[t], list') /\ CheckMark(p, call[t], list')
  BY <1>3 DEF Fitting, Uses, ReadMark, CheckMark
<1>9. Becomes(seen, seen', t, seen[t])
  BY <1>1, ThreadAt
<1> HIDE DEF p
<1> QED
  BY <1>1, <1>6, <1>7, <1>8, <1>9, StoreStep

\* The steps on a value that answer, or go on, at the end of a writing.
LEMMA ValueStep ==
    ASSUME TInv, NEW t \in Thread, UNCHANGED <<locks, call, keyEnd>>,
           at[t][2] = 3, Taken(at[t]) = 3, Raised(at[t]) = 3,
           NEW v \in Values,
           Puts(list, list', call[t].s, call[t].k, v),
           Recounts,
           \/ call[t].op \in Exclusive[3]
           \/ v.value = ValueOf(t).value /\ v.counterRecord = ValueOf(t).counterRecord,
           NEW p \in Places, Becomes(at, at', t, p),
           p[2] = 3, Taken(p) = 3, Raised(p) = 3, Fitting(p, call[t]),
           p # <<"answer", 3>>, UNCHANGED seen,
           p \in {<<"write", 3>>, <<"count", 3>>} /\ call[t].op = "setKey" =>
              /\ v.counterRecord = call[t].record
              /\ list[call[t].s].counterKeys = call[t].keys
    PROVE  TInv'
<1> DEFINE s == call[t].s
           k == call[t].k
<1>1. /\ s \in SessionId /\ k \in Key /\ list[s] # NoItem
      /\ ValueOf(t) # NoValue /\ ValueOf(t) = list[s].values[k]
      /\ <<s, k>> \in LockId
      /\ call[t].op \in Exclusive[3] => Claims(call[t], Taken(at[t]), <<s, k>>, "exclusive")
  BY AtValue DEF ValueOf
<1> HIDE DEF s, k
<1>2. /\ IInv' /\ limit' = limit
      /\ list'[s] # NoItem /\ list'[s].values[k] = v /\ v # NoValue
      /\ list'[s].counterKeys = list[s].counterKeys
      /\ Confined(list, list', {<<s, k>>})
      /\ /\ v.value = list[s].values[k].value
         /\ v.counterRecord = list[s].values[k].counterRecord
         => Confined(list, list', {})
  <2>1. Puts(list, list', s, k, v)
    BY DEF s, k
  <2>2. IInv /\ list[s].values[k] # NoValue
    BY <1>1 DEF TInv
  <2> QED
    BY <1>1, <2>1, <2>2, ReplaceValue
<1>3. PICK X \in SUBSET LockId :
        /\ Confined(list, list', X)
        /\ \A x \in X : Claims(call[t], Taken(at[t]), x, "exclusive")
  <2>1. CASE call[t].op \in Exclusive[3]
    BY <1>1, <1>2, <2>1
  <2>2. CASE call[t].op \notin Exclusive[3]
    BY <1>1, <1>2, <2>2
  <2> QED
    BY <2>1, <2>2
<1>4. Uses(p, call[t], list')
  BY <1>2 DEF Uses, s, k
<1>5. ReadMark(p, call[t], seen[t], list') /\ CheckMark(p, call[t], list')
  BY <1>2 DEF ReadMark, CheckMark, s, k
<1>6. Becomes(seen, seen', t, seen[t])
  BY ThreadAt
<1> QED
  BY <1>2, <1>3, <1>4, <1>5, <1>6, StoreStep

LEMMA AtBody ==
    ASSUME TInv, NEW t \in Thread,
           at[t] \in {<<"body", 3>>, <<"write", 3>>, <<"count", 3>>,
                      <<"read", 3>>, <<"answer", 3>>}
    PROVE  /\ at[t] # Idle /\ at[t][2] = 3 /\ Taken(at[t]) = 3 /\ Raised(at[t]) = 3
           /\ call[t] \in Request /\ call[t].op \in ValueOps /\ call[t].op \in Operations
           /\ ValueOf(t) \in Values /\ ValueOf(t) = list[call[t].s].values[call[t].k]
<1>1. at[t] # Idle /\ at[t][2] = 3 /\ Taken(at[t]) = 3 /\ Raised(at[t]) = 3
  BY DEF Idle, Taken, Raised
<1> QED
  BY <1>1, AtValue, RequestFields DEF ValueOf

\* The end of an operation on a value.
LEMMA UnlockFits ==
    ASSUME NEW c \in Request, c.op \in ValueOps
    PROVE  LET p == <<"unlock", 3>>
           IN  /\ p \in Places /\ Unmarked(p) /\ Fitting(p, c)
               /\ p[2] = 3 /\ Taken(p) = 3 /\ Raised(p) = 3
               /\ p # <<"answer", 3>> /\ p \notin {<<"write", 3>>, <<"count", 3>>}
<1>1. ValueOps \subseteq SessionOps
  BY DEF SessionOps, ValueOps
<1> QED
  BY <1>1 DEF Places, Unmarked, Fitting, Taken, Raised

\* The call is refused, with its value's lock.
LEMMA FailAtValue ==
    ASSUME TInv, NEW t \in Thread, at[t] = <<"body", 3>>,
           NEW res \in Results, Fail(t, 3, res)
    PROVE  TInv'
<1>1. /\ Becomes(at, at', t, <<"unlock", 3>>) /\ Refuse(call[t].op, res)
      /\ UNCHANGED <<locks, call, keyEnd, seen>>
  BY DEF Fail, Return, GoTo, Becomes
<1>2. Fitting(<<"unlock", 3>>, call[t]) /\ Uses(<<"unlock", 3>>, call[t], list)
  <2>1. Fitting(at[t], call[t]) /\ Uses(at[t], call[t], list)
    BY ThreadAt
  <2> QED
    BY <2>1, AtBody, UnlockFits DEF Uses
<1> QED
  BY <1>1, <1>2, AtBody, UnlockFits, LookStep

LEMMA ProlongKeyWriteInv ==
    ASSUME TInv, NEW t \in Thread, ProlongKeyWrite(t)
    PROVE  TInv'
<1> DEFINE v == [ValueOf(t) EXCEPT !.tsEnd = keyEnd[t]]
<1>1. /\ at[t] = <<"body", 3>> /\ call[t].op = "prolongKey"
      /\ UNCHANGED <<locks, call, keyEnd, seen>>
      /\ Becomes(at, at', t, <<"unlock", 3>>)
      /\ Update("prolongKey", [list EXCEPT
            ![call[t].s].values[call[t].k].tsEnd = keyEnd[t]])
  BY DEF ProlongKeyWrite, Return, GoTo, Becomes
<1>2. v \in Values
  BY <1>1, AtBody DEF Values, TInv, ThreadsTyped
<1>3. Puts(list, list', call[t].s, call[t].k, v)
  BY <1>1 DEF Update, Puts, ValueOf
<1>4. Recounts
  BY <1>1 DEF Recounts, Update, Answer, Operations, Results, TInv, IInv, TypeOK
<1>5. call[t].op \in Exclusive[3]
  BY <1>1 DEF Exclusive
<1> HIDE DEF v
<1> QED
  BY <1>1, <1>2, <1>3, <1>4, <1>5, AtBody, UnlockFits, ValueStep

\* One of a value's limiters has counted a call, or there is no limit.
CountsCall(old, new, limiter, cap) ==
    \/ new = old /\ UNCHANGED now
    \/ /\ cap \in Caps /\ now' \in (now .. now + 1) \cap (1 .. MaxTime)
       /\ Passes(old[limiter], cap, now)
       /\ \E second \in now .. now' :
             new = [old EXCEPT ![limiter][cap] = CountedAt(@, second, now')]

\* A call that passes its limit is counted, and the value left as it is.
LEMMA PassEffect ==
    ASSUME TInv, NEW t \in Thread, at[t] = <<"body", 3>>,
           NEW limiter \in {"limiterRead", "limiterWrite"},
           NEW cap \in RateLimit, NEW step, PassLimiter(t, limiter, cap, step)
    PROVE  /\ Becomes(at, at', t, <<step, 3>>)
           /\ UNCHANGED <<locks, call, keyEnd, seen>> /\ Recounts
           /\ \E v \in Values :
                 /\ Puts(list, list', call[t].s, call[t].k, v)
                 /\ v.value = ValueOf(t).value
                 /\ v.counterRecord = ValueOf(t).counterRecord
                 /\ CountsCall(ValueOf(t), v, limiter, cap)
<1> DEFINE old == ValueOf(t)
           passed(second) == [old EXCEPT ![limiter][cap] = CountedAt(@, second, now')]
<1>1. old \in Values /\ now \in Nat
  BY AtBody DEF TInv, IInv, TypeOK
<1>2. PICK v : /\ Touch(t, v, step)
               /\ \/ v = old /\ UNCHANGED now
                  \/ /\ cap # 0 /\ now' \in (now .. now + 1) \cap (1 .. MaxTime)
                     /\ Passes(old[limiter], cap, now)
                     /\ \E second \in now .. now' : v = passed(second)
  <2>1. CASE cap = 0 /\ UNCHANGED now /\ Touch(t, old, step)
    BY <2>1
  <2>2. ASSUME cap # 0, now' \in (now .. now + 1) \cap (1 .. MaxTime),
               Passes(old[limiter], cap, now),
               NEW second \in now .. now', Touch(t, passed(second), step)
        PROVE  \E v : /\ Touch(t, v, step)
                      /\ cap # 0 /\ now' \in (now .. now + 1) \cap (1 .. MaxTime)
                      /\ Passes(old[limiter], cap, now)
                      /\ \E third \in now .. now' : v = passed(third)
    <3> HIDE DEF passed, old
    <3> QED
      BY <2>2
  <2>3. \/ cap = 0 /\ UNCHANGED now /\ Touch(t, old, step)
        \/ /\ cap # 0 /\ now' \in (now .. now + 1) \cap (1 .. MaxTime)
           /\ Passes(old[limiter], cap, now)
           /\ \E second \in now .. now' : Touch(t, passed(second), step)
    BY DEF PassLimiter
  <2> HIDE DEF passed, old
  <2> QED
    BY <2>1, <2>2, <2>3
<1>3. ASSUME NEW second \in Nat, cap # 0, now' \in Nat
      PROVE  /\ passed(second) \in Values /\ passed(second).value = old.value
             /\ passed(second).counterRecord = old.counterRecord
  <2>1. cap \in Caps /\ old[limiter] \in Limiters
    BY <1>1, <1>3 DEF Caps, Values
  <2>2. CountedAt(old[limiter][cap], second, now') \in [ts : Nat, count : Nat]
    BY <1>3, <2>1 DEF CountedAt, Counted, Limiters, NoWindow
  <2> DEFINE w == CountedAt(old[limiter][cap], second, now')
             windows == [old[limiter] EXCEPT ![cap] = w]
  <2>3. windows \in Limiters
    <3> HIDE DEF w
    <3> QED
      BY <2>1, <2>2 DEF Limiters, w
  <2>4. passed(second) = [old EXCEPT ![limiter] = windows]
    OBVIOUS
  <2> HIDE DEF windows, old, passed
  <2> QED
    BY <1>1, <2>3, <2>4 DEF Values
<1>4. /\ v \in Values /\ v.value = old.value
      /\ v.counterRecord = old.counterRecord /\ now' \in Nat
  <2>1. now' \in now .. now + 1 => now' \in Nat /\ now .. now' \subseteq Nat
    BY <1>1
  <2> HIDE DEF old, passed
  <2> QED
    BY <1>1, <1>2, <1>3, <2>1
<1>5. /\ Puts(list, list', call[t].s, call[t].k, v)
      /\ Becomes(at, at', t, <<step, 3>>)
      /\ UNCHANGED <<locks, call, keyEnd, seen, count, limit, totalFree, reply>>
  BY <1>2 DEF Touch, GoOn, GoTo, Becomes, Puts
<1>6. Recounts
  BY <1>4, <1>5 DEF Recounts, TInv, IInv, TypeOK
<1>7. cap # 0 => cap \in Caps
  BY DEF Caps
<1>8. CountsCall(old, v, limiter, cap)
  <2> HIDE DEF old
  <2> QED
    BY <1>2, <1>7 DEF CountsCall
<1> QED
  BY <1>4, <1>5, <1>6, <1>8

LEMMA CheckWriteInv ==
    ASSUME TInv, NEW t \in Thread, CheckWrite(t)
    PROVE  TInv'
<1>1. at[t] = <<"body", 3>> /\ call[t].op \in {"setKey", "setForceKey"}
  BY DEF CheckWrite
<1>2. CASE \E res \in Results : Fail(t, 3, res)
  BY <1>1, <1>2, FailAtValue
<1>3. CASE /\ call[t].op = "setKey" =>
                CountersMatch(call[t].s, call[t].k, call[t].keys, call[t].record)
           /\ PassLimiter(t, "limiterWrite", call[t].cap, "write")
  <2>1. call[t].cap \in RateLimit
    BY <1>1, AtBody, RequestFields
  <2>2. /\ Becomes(at, at', t, <<"write", 3>>)
        /\ UNCHANGED <<locks, call, keyEnd, seen>> /\ Recounts
    BY <1>1, <1>3, <2>1, PassEffect
  <2>3. PICK v \in Values :
          /\ Puts(list, list', call[t].s, call[t].k, v)
          /\ v.value = ValueOf(t).value
          /\ v.counterRecord = ValueOf(t).counterRecord
    BY <1>1, <1>3, <2>1, PassEffect
  <2>4. call[t].op \in Exclusive[3]
    BY <1>1 DEF Exclusive
  <2>5. Fitting(<<"write", 3>>, call[t])
    BY <1>1, AtBody DEF Fitting, ValueOps, SessionOps
  <2>6. /\ <<"write", 3>> \in Places /\ <<"write", 3>> # <<"answer", 3>>
        /\ Taken(<<"write", 3>>) = 3 /\ Raised(<<"write", 3>>) = 3
    BY DEF Places, Taken, Raised
  <2>7. call[t].op = "setKey" => /\ v.counterRecord = call[t].record
                                 /\ list[call[t].s].counterKeys = call[t].keys
    BY <1>1, <1>3, <2>3, AtBody DEF CountersMatch
  <2> QED
    BY <1>1, <2>2, <2>3, <2>4, <2>5, <2>6, <2>7, AtBody, ValueStep
<1> QED
  BY <1>1, <1>2, <1>3 DEF CheckWrite, Results

LEMMA WriteValueInv ==
    ASSUME TInv, NEW t \in Thread, WriteValue(t)
    PROVE  TInv'
<1> DEFINE v == [ValueOf(t) EXCEPT !.value = call[t].d]
<1>1. /\ at[t] = <<"write", 3>> /\ UNCHANGED <<locks, call, keyEnd, seen>>
      /\ Becomes(at, at', t, <<"count", 3>>)
      /\ Puts(list, list', call[t].s, call[t].k, v)
      /\ UNCHANGED <<now, count, limit, totalFree, reply>>
  BY DEF WriteValue, Touch, GoOn, GoTo, Becomes, Puts
<1>2. call[t] \in Request /\ call[t].op \in {"setKey", "setForceKey"}
  BY <1>1, AtBody, ThreadAt DEF Fitting
<1>3. v \in Values /\ v.counterRecord = ValueOf(t).counterRecord
  <2>1. call[t].d \in Data
    BY <1>2, RequestFields
  <2> QED
    BY <1>1, <2>1, AtBody DEF Values
<1>4. Recounts
  BY <1>1 DEF Recounts, TInv, IInv, TypeOK
<1>5. call[t].op \in Exclusive[3]
  BY <1>2 DEF Exclusive
<1>6. Fitting(<<"count", 3>>, call[t])
  BY <1>2 DEF Fitting, ValueOps, SessionOps
<1>7. /\ <<"count", 3>> \in Places /\ <<"count", 3>> # <<"answer", 3>>
      /\ Taken(<<"count", 3>>) = 3 /\ Raised(<<"count", 3>>) = 3
  BY DEF Places, Taken, Raised
<1>8. call[t].op = "setKey" => /\ v.counterRecord = call[t].record
                               /\ list[call[t].s].counterKeys = call[t].keys
  <2>1. CheckMark(at[t], call[t], list)
    BY ThreadAt
  <2>2. call[t].op = "setKey" =>
           /\ ValueOf(t).counterRecord = call[t].record
           /\ list[call[t].s].counterKeys = call[t].keys
    BY <1>1, <2>1 DEF CheckMark, ValueOf
  <2> QED
    BY <1>3, <2>2
<1> HIDE DEF v
<1> QED
  BY <1>1, <1>3, <1>4, <1>5, <1>6, <1>7, <1>8, AtBody, ValueStep

LEMMA CountWriteInv ==
    ASSUME TInv, NEW t \in Thread, CountWrite(t)
    PROVE  TInv'
<1> DEFINE v == [ValueOf(t) EXCEPT !.counterRecord = Inc(@)]
<1>1. /\ at[t] = <<"count", 3>> /\ UNCHANGED <<locks, call, keyEnd, seen>>
      /\ Becomes(at, at', t, <<"unlock", 3>>)
      /\ Update(call[t].op, [list EXCEPT
            ![call[t].s].values[call[t].k].counterRecord = Inc(@)])
  BY DEF CountWrite, Return, GoTo, Becomes
<1>2. call[t] \in Request /\ call[t].op \in {"setKey", "setForceKey"}
  BY <1>1, AtBody, ThreadAt DEF Fitting
<1>3. v \in Values
  <2>1. ValueOf(t) \in Values
    BY <1>1, AtBody
  <2>2. Inc(ValueOf(t).counterRecord) \in UInt
    BY <2>1, IncType DEF Values
  <2> QED
    BY <2>1, <2>2 DEF Values
<1>4. Puts(list, list', call[t].s, call[t].k, v)
  BY <1>1 DEF Update, Puts, ValueOf
<1>5. Recounts
  BY <1>1, AtBody DEF Recounts, Update, Answer, Results, TInv, IInv, TypeOK
<1>6. call[t].op \in Exclusive[3]
  BY <1>2 DEF Exclusive
<1> HIDE DEF v
<1> QED
  BY <1>1, <1>3, <1>4, <1>5, <1>6, AtBody, UnlockFits, ValueStep

LEMMA LimitReadInv ==
    ASSUME TInv, NEW t \in Thread, LimitRead(t)
    PROVE  TInv'
<1>1. at[t] = <<"body", 3>> /\ call[t].op = "getKey"
  BY DEF LimitRead
<1>2. CASE Fail(t, 3, "E_LIMIT_PER_SEC_EXCEEDED")
  BY <1>1, <1>2, FailAtValue DEF Results
<1>3. CASE PassLimiter(t, "limiterRead", call[t].cap, "read")
  <2> DEFINE p == <<"read", 3>>
  <2>1. call[t].cap \in RateLimit
    BY <1>1, AtBody, RequestFields
  <2>2. /\ Becomes(at, at', t, p)
        /\ UNCHANGED <<locks, call, keyEnd, seen>> /\ Recounts
    BY <1>1, <1>3, <2>1, PassEffect
  <2>3. PICK v \in Values :
          /\ Puts(list, list', call[t].s, call[t].k, v)
          /\ v.value = ValueOf(t).value
          /\ v.counterRecord = ValueOf(t).counterRecord
    BY <1>1, <1>3, <2>1, PassEffect
  <2>4. Fitting(p, call[t])
    BY <1>1, AtBody DEF Fitting, ValueOps, SessionOps
  <2>5. /\ p \in Places /\ p # <<"answer", 3>> /\ p[2] = 3
        /\ p \notin {<<"write", 3>>, <<"count", 3>>} /\ Taken(p) = 3 /\ Raised(p) = 3
    BY DEF Places, Taken, Raised
  <2> HIDE DEF p
  <2> QED
    BY <1>1, <2>2, <2>3, <2>4, <2>5, AtBody, ValueStep
<1> QED
  BY <1>2, <1>3 DEF LimitRead

\* The two steps of a reading: what it notes is what there is.
LEMMA ReadValueInv ==
    ASSUME TInv, NEW t \in Thread, ReadValue(t)
    PROVE  TInv'
<1> DEFINE p == <<"answer", 3>>
<1>1. /\ at[t] = <<"read", 3>> /\ UNCHANGED <<vars, locks, call, keyEnd>>
      /\ Becomes(at, at', t, p) /\ Becomes(seen, seen', t, Snapshot(t))
  BY DEF ReadValue, GoTo, Quietly, Becomes
<1>2. IInv' /\ limit' = limit /\ list' = list /\ Confined(list, list', {})
  BY <1>1, QuietInv, StayConfined DEF TInv, vars
<1>3. Fitting(at[t], call[t]) /\ Uses(at[t], call[t], list)
  BY ThreadAt
<1>4. Fitting(p, call[t]) /\ Uses(p, call[t], list')
  BY <1>1, <1>2, <1>3 DEF Fitting, Uses, Idle
<1>5. ReadMark(p, call[t], Snapshot(t), list') /\ CheckMark(p, call[t], list')
  BY <1>2 DEF ReadMark, CheckMark, Snapshot, ValueOf
<1>6. p \in Places /\ Taken(p) = Taken(at[t]) /\ Raised(p) = Raised(at[t])
  BY <1>1 DEF Places, Taken, Raised
<1> HIDE DEF p
<1> QED
  BY <1>1, <1>2, <1>4, <1>5, <1>6, StoreStep

LEMMA ReadCountersInv ==
    ASSUME TInv, NEW t \in Thread, ReadCounters(t)
    PROVE  TInv'
<1> DEFINE p == <<"unlock", 3>>
<1>1. /\ at[t] = <<"answer", 3>> /\ UNCHANGED <<locks, call, keyEnd>>
      /\ Becomes(at, at', t, p) /\ Becomes(seen, seen', t, Nothing)
      /\ Refuse("getKey", "OK")
  BY DEF ReadCounters, GoTo, Becomes
<1>2. IInv' /\ limit' = limit /\ list' = list /\ Confined(list, list', {})
  BY <1>1, RefuseInv, StayConfined DEF TInv, Refuse, table, Operations, Results
<1>3. Uses(at[t], call[t], list)
  BY ThreadAt
<1>4. Fitting(p, call[t]) /\ Uses(p, call[t], list')
  BY <1>1, <1>2, <1>3, AtBody, UnlockFits DEF Uses
<1>5. ReadMark(p, call[t], Nothing, list') /\ CheckMark(p, call[t], list')
  BY DEF ReadMark, CheckMark
<1>6. p \in Places /\ Taken(p) = Taken(at[t]) /\ Raised(p) = Raised(at[t])
  BY <1>1 DEF Places, Taken, Raised
<1> HIDE DEF p
<1> QED
  BY <1>1, <1>2, <1>4, <1>5, <1>6, StoreStep

-------------------------------------------------------------------------------
(* The steps that destroy records, or put new ones in their place: no lock  *)
(* that goes with them is in use, so no lock changes.                       *)

LEMMA ResetIdle ==
    ASSUME TInv, NEW replaced, Reset(replaced),
           \A x \in LockId, u \in Thread, mode \in Mode :
              Claims(call[u], Raised(at[u]), x, mode) =>
                 x \notin replaced /\ Exists(x)'
    PROVE  UNCHANGED locks
<1>1. ASSUME NEW x \in LockId
      PROVE  locks'[x] = locks[x]
  <2>1. CASE x \in replaced \/ ~Exists(x)'
    <3>1. locks[x] = FreeLock
      BY <2>1, UnclaimedIsFree DEF TInv, ThreadsTyped
    <3>2. locks'[x] = FreeLock
      BY <2>1 DEF Reset
    <3> QED
      BY <3>1, <3>2
  <2>2. CASE ~(x \in replaced \/ ~Exists(x)')
    BY <2>2 DEF Reset
  <2> QED
    BY <2>1, <2>2
<1>2. locks' = [x \in LockId |-> locks'[x]] /\ locks = [x \in LockId |-> locks[x]]
  BY DEF Reset, TInv, ThreadsTyped, Locks
<1> QED
  BY <1>1, <1>2

\* On which locks a call may have a claim at all.
LEMMA ClaimedLocks ==
    ASSUME NEW p \in Places, NEW c, NEW x, NEW mode,
           Claims(c, Raised(p), x, mode)
    PROVE  \/ x = <<>>
           \/ x = <<c.s>> /\ p[2] \in {2, 3} /\ Taken(p) >= 1
           \/ x = <<c.s, c.k>> /\ p[2] = 3 /\ Taken(p) >= 2
<1>1. PICK l \in 1 .. Raised(p) : LockOf(c, l) = x
  BY DEF Claims
<1>2. l \in 1 .. 3 /\ l <= p[2] /\ Taken(p) >= l - 1 /\ p[2] \in 1 .. 3
  BY PlaceType DEF Raised, Taken
<1> QED
  BY <1>1, <1>2 DEF LockOf

LEMMA AtSession ==
    ASSUME TInv, NEW t \in Thread, at[t] = <<"body", 2>>
    PROVE  /\ at[t] # Idle /\ Taken(at[t]) = 2 /\ Raised(at[t]) = 2
           /\ call[t] \in Request /\ call[t].op \in SessionOps
           /\ call[t].op \in Operations /\ call[t].s \in SessionId
           /\ list[call[t].s] # NoItem /\ list[call[t].s] \in Items
           /\ <<call[t].s>> \in LockId
           /\ call[t].op \in Exclusive[2] =>
                 Claims(call[t], Taken(at[t]), <<call[t].s>>, "exclusive")
<1>1. at[t] # Idle /\ at[t][2] = 2 /\ Taken(at[t]) = 2 /\ Raised(at[t]) = 2
  BY DEF Idle, Taken, Raised
<1>2. Fitting(at[t], call[t]) /\ Uses(at[t], call[t], list)
  BY ThreadAt
<1>3. call[t] \in Request /\ call[t].op \in SessionOps
  BY <1>1, <1>2 DEF Fitting
<1>4. call[t].s \in SessionId /\ call[t].op \in Operations
  BY <1>3, RequestFields
<1>5. list[call[t].s] # NoItem /\ list[call[t].s] \in Items
  BY <1>1, <1>2, <1>4 DEF Uses, TInv, IInv, TypeOK
<1>6. <<call[t].s>> \in LockId /\ LockOf(call[t], 2) = <<call[t].s>> /\ 2 \in 1 .. 2
  BY <1>4 DEF LockId, LockOf
<1> QED
  BY <1>1, <1>3, <1>4, <1>5, <1>6, ModeType DEF Claims

\* With a session's lock held exclusively, no value of the session is in use.
LEMMA SessionReset ==
    ASSUME TInv, NEW t \in Thread, at[t] = <<"body", 2>>,
           call[t].op \in Exclusive[2], Confined(list, list', {<<call[t].s>>}),
           NEW replaced, \A x \in replaced : \E k : x = <<call[t].s, k>>,
           Reset(replaced)
    PROVE  UNCHANGED locks
<1> DEFINE s == call[t].s
<1>1. ASSUME NEW x \in LockId, NEW u \in Thread, NEW mode \in Mode,
             Claims(call[u], Raised(at[u]), x, mode)
      PROVE  x \notin replaced /\ Exists(x)'
  <2> DEFINE c == call[u]
             p == at[u]
  <2>1. p \in Places /\ Fitting(p, c) /\ Uses(p, c, list)
    BY ThreadAt
  <2>2. /\ p[2] \in {2, 3} => c.s \in SessionId
        /\ p[2] = 3 => c.k \in Key
    BY <2>1, RequestFields DEF Fitting, Idle, SessionOps, ValueOps
  <2>3. CASE x = <<>>
    BY <2>3 DEF Exists
  <2>4. CASE x = <<c.s>> /\ p[2] \in {2, 3}
    <3>1. list[c.s] # NoItem /\ c.s \in SessionId
      BY <2>1, <2>2, <2>4 DEF Uses
    <3>2. list'[c.s] # NoItem
      BY <3>1 DEF Confined
    <3>3. Len(x) = 1 /\ x[1] = c.s
      BY <2>4
    <3> QED
      BY <3>2, <3>3 DEF Exists
  <2>5. CASE x = <<c.s, c.k>> /\ p[2] = 3 /\ Taken(p) >= 2
    <3>1. /\ c.s \in SessionId /\ c.k \in Key
          /\ list[c.s] # NoItem /\ list[c.s].values[c.k] # NoValue
      BY <2>1, <2>2, <2>5 DEF Uses
    <3>2. u # t
      BY <2>5
    <3>3. \E m \in Mode : Claims(c, Taken(p), <<c.s>>, m)
      <4>1. LockOf(c, 2) = <<c.s>> /\ 2 \in 1 .. Taken(p)
        BY <2>1, <2>5, PlaceType DEF LockOf
      <4> QED
        BY <4>1, ModeType DEF Claims
    <3>4. \A m \in Mode : ~Claims(c, Taken(p), <<s>>, m)
      BY <3>2, AtSession, Alone DEF TInv
    <3>5. c.s # s
      BY <3>3, <3>4
    <3>6. list'[c.s] # NoItem /\ list'[c.s].values[c.k] # NoValue
      BY <3>1, <3>5 DEF Confined
    <3>7. Len(x) = 2 /\ x[1] = c.s /\ x[2] = c.k
      BY <2>5
    <3> QED
      BY <3>5, <3>6, <3>7 DEF Exists
  <2> QED
    BY <1>1, <2>1, <2>3, <2>4, <2>5, ClaimedLocks
<1> QED
  BY <1>1, ResetIdle

LEMMA SessionInv ==
    ASSUME TInv, NEW t \in Thread, Session(t)
    PROVE  TInv'
<1> DEFINE s == call[t].s
           k == call[t].k
           p == <<"unlock", 2>>
<1>1. /\ at[t] = <<"body", 2>> /\ UNCHANGED <<call, keyEnd, seen>>
      /\ Becomes(at, at', t, p)
  BY DEF Session, GoTo, Becomes
<1>2. /\ p \in Places /\ Unmarked(p) /\ Taken(p) = 2 /\ Raised(p) = 2
      /\ Fitting(p, call[t])
  <2>1. p \in Places /\ Unmarked(p) /\ Taken(p) = 2 /\ Raised(p) = 2
    BY StepPlaces DEF Unmarked
  <2>2. call[t] \in Request /\ call[t].op \in SessionOps
    BY <1>1, AtSession
  <2> QED
    BY <2>1, <2>2 DEF Fitting
<1>3. \A L : L[s] # NoItem => Uses(p, call[t], L)
  BY DEF Uses
<1>4. ASSUME call[t].op \in Exclusive[2], UNCHANGED locks,
             IInv', limit' = limit, list'[s] # NoItem,
             Confined(list, list', {<<s>>})
      PROVE  TInv'
  <2>1. ReadMark(p, call[t], seen[t], list') /\ CheckMark(p, call[t], list')
    BY DEF ReadMark, CheckMark
  <2>2. Becomes(seen, seen', t, seen[t])
    BY <1>1, ThreadAt
  <2>3. \A x \in {<<s>>} : Claims(call[t], Taken(at[t]), x, "exclusive")
    BY <1>1, <1>4, AtSession
  <2>4. Uses(p, call[t], list') /\ {<<s>>} \in SUBSET LockId
    BY <1>1, <1>3, <1>4, AtSession
  <2> HIDE DEF p
  <2> QED
    BY <1>1, <1>2, <1>4, <2>1, <2>2, <2>3, <2>4, AtSession, StoreStep
<1>5. CASE /\ call[t].op = "prolong" /\ UNCHANGED locks
           /\ Update("prolong", [list EXCEPT ![s].tsEnd =
                 IF call[t].lifetime # 0 THEN now + call[t].lifetime ELSE FarEnd])
  <2> DEFINE e == IF call[t].lifetime # 0 THEN now + call[t].lifetime ELSE FarEnd
  <2>1. call[t].lifetime \in Lifetime
    BY <1>1, <1>5, AtSession, RequestFields
  <2>2. e \in Nat
    <3>1. now \in Nat
      BY DEF TInv, IInv, TypeOK
    <3>2. FarEnd \in Nat
      BY StoreAssumption DEF FarEnd
    <3>3. call[t].lifetime \in Nat
      BY <2>1, StoreAssumption
    <3> QED
      BY <3>1, <3>2, <3>3
  <2>3. list' = [list EXCEPT ![s].tsEnd = e] /\ Recounts
    BY <1>5 DEF Recounts, Update, Answer, Operations, Results, TInv, IInv, TypeOK
  <2>4. call[t].op \in Exclusive[2]
    BY <1>5 DEF Exclusive
  <2> HIDE DEF e, s
  <2>5. s \in SessionId /\ list[s] # NoItem
    BY <1>1, AtSession DEF s
  <2>6. /\ IInv' /\ limit' = limit /\ list'[s] # NoItem
        /\ Confined(list, list', {<<s>>})
    BY <2>2, <2>3, <2>5, ReplaceEnd DEF TInv
  <2> QED
    BY <1>4, <1>5, <2>4, <2>6 DEF s
<1>6. CASE Refuse("addKey", "E_DUPLICATE_KEY") /\ call[t].op = "addKey" /\ UNCHANGED locks
  <2>1. Uses(p, call[t], list)
    BY <1>1, <1>3, AtSession
  <2>2. \E res \in Results : Refuse(call[t].op, res)
    BY <1>6 DEF Results
  <2> HIDE DEF p
  <2> QED
    BY <1>1, <1>2, <1>6, <2>1, <2>2, AtSession, LookStep
<1>7. ASSUME call[t].op \in {"addKey", "removeKey"}, NEW item \in Items,
             Becomes(list, list', s, item), Recounts,
             NEW replaced, replaced \subseteq {<<s, k>>}, Reset(replaced)
      PROVE  TInv'
  <2>1. s \in SessionId /\ list[s] # NoItem
    BY <1>1, AtSession
  <2>2. /\ IInv' /\ limit' = limit /\ list'[s] # NoItem
        /\ Confined(list, list', {<<s>>})
    BY <1>7, <2>1, ReplaceItem DEF TInv
  <2>3. call[t].op \in Exclusive[2]
    BY <1>7 DEF Exclusive
  <2>4. UNCHANGED locks
    BY <1>1, <1>7, <2>2, <2>3, SessionReset
  <2> QED
    BY <1>4, <2>2, <2>3, <2>4
<1>8. CASE /\ call[t].op = "addKey" /\ Reset({<<s, k>>})
           /\ Update("addKey", [list EXCEPT
                 ![s].counterKeys = Inc(@),
                 ![s].values[k] = [NewValue(call[t].d, 0) EXCEPT !.tsEnd = keyEnd[t]]])
  <2> DEFINE v == [NewValue(call[t].d, 0) EXCEPT !.tsEnd = keyEnd[t]]
             item == [list[s] EXCEPT !.counterKeys = Inc(@), !.values[k] = v]
  <2>1. call[t].d \in Data /\ k \in Key /\ list[s] \in Items
    BY <1>1, <1>8, AtSession, RequestFields DEF SessionOps
  <2>2. v \in Values
    <3>1. NewValue(call[t].d, 0) \in Values
      BY <2>1, NewValueType, StoreAssumption DEF TInv, IInv, TypeOK
    <3>2. keyEnd[t] \in Nat
      BY DEF TInv, ThreadsTyped
    <3> QED
      BY <3>1, <3>2 DEF Values
  <2>3. Inc(list[s].counterKeys) \in UInt
    BY <2>1, IncType DEF Items
  <2>4. item \in Items
    <3> HIDE DEF v, s, k
    <3> QED
      BY <2>1, <2>2, <2>3 DEF Items
  <2>5. Becomes(list, list', s, item)
    BY <1>8 DEF Update, Becomes
  <2>6. Recounts
    BY <1>8 DEF Recounts, Update, Answer, Operations, Results, TInv, IInv, TypeOK
  <2> HIDE DEF item
  <2> QED
    BY <1>7, <1>8, <2>4, <2>5, <2>6
<1>9. CASE /\ call[t].op = "removeKey" /\ Reset({})
           /\ Update("removeKey", [list EXCEPT ![s].values[k] = NoValue])
  <2> DEFINE item == [list[s] EXCEPT !.values[k] = NoValue]
  <2>1. k \in Key /\ list[s] \in Items
    BY <1>1, <1>9, AtSession, RequestFields DEF SessionOps
  <2>2. item \in Items
    BY <2>1, ReplaceValueType
  <2>3. Becomes(list, list', s, item)
    BY <1>9 DEF Update, Becomes
  <2>4. Recounts
    BY <1>9 DEF Recounts, Update, Answer, Operations, Results, TInv, IInv, TypeOK
  <2> HIDE DEF item
  <2> QED
    BY <1>7, <1>9, <2>2, <2>3, <2>4
<1> HIDE DEF p
<1> QED
  BY <1>5, <1>6, <1>8, <1>9 DEF Session

\* With the list held exclusively a thread does what SessionStore does.
LEMMA WholeIsSequential ==
    ASSUME TInv, NEW t \in Thread, Whole(t)
    PROVE  /\ Next /\ UNCHANGED <<now, limit>>
           /\ call[t].op \in Exclusive[1]
           /\ \E replaced : Reset(replaced) /\ \A x \in replaced : Len(x) > 0
<1>0. at[t] = <<"body", 1>> /\ limit # Unset
  BY DEF Whole, TInv
<1>1. call[t] \in Request
  <2>1. Fitting(at[t], call[t])
    BY ThreadAt
  <2> QED
    BY <1>0, <2>1 DEF Fitting, Idle
<1> DEFINE c == call[t]
<1>2. CASE c.op = "add" /\ Add(c.s, c.lifetime) /\
           Reset(IF reply'.res = "OK" THEN Under(c.s) ELSE {})
  <2>1. c.s \in SessionId /\ c.lifetime \in Lifetime
    BY <1>1, <1>2, RequestFields
  <2>2. Next
    BY <1>0, <1>2, <2>1 DEF Next, SessionOperation
  <2>3. UNCHANGED <<now, limit>>
    BY <1>2 DEF Add, Refuse, Insert, table
  <2>4. \A x \in Under(c.s) : Len(x) > 0
    BY DEF Under
  <2>5. \A x \in (IF reply'.res = "OK" THEN Under(c.s) ELSE {}) : Len(x) > 0
    BY <2>4
  <2> QED
    BY <1>2, <2>2, <2>3, <2>5 DEF Exclusive
<1>3. CASE /\ \/ /\ c.op = "generate"
                 /\ \E s \in SessionId : Generate(s, c.lifetime)
              \/ c.op = "clearInactive" /\ ClearInactive
              \/ c.op = "removeAllKey" /\ RemoveAllKey(c.k)
              \/ c.op = "addAllKey" /\ AddAllKey(c.k, c.d)
           /\ Reset({})
  <2>1. /\ c.op = "generate" => c.lifetime \in Lifetime
        /\ c.op \in {"removeAllKey", "addAllKey"} => c.k \in Key
        /\ c.op = "addAllKey" => c.d \in Data
    BY <1>1, RequestFields
  <2>2. Next
    BY <1>0, <1>3, <2>1 DEF Next, SessionOperation, AllKeyOperation
  <2>3. UNCHANGED <<now, limit>>
    BY <1>3 DEF Generate, Refuse, Insert, table, ClearInactive, RemoveAllKey, AddAllKey,
                Update
  <2> QED
    BY <1>3, <2>2, <2>3 DEF Exclusive
<1> QED
  BY <1>2, <1>3 DEF Whole

\* While a thread holds the list exclusively, no other has got past its lock.
LEMMA WholeAlone ==
    ASSUME TInv, NEW t \in Thread, Whole(t), NEW u \in Thread \ {t}
    PROVE  Taken(at[u]) = 0
<1>1. Claims(call[t], Taken(at[t]), <<>>, "exclusive") /\ <<>> \in LockId
  <2>1. Taken(at[t]) = 1 /\ LockOf(call[t], 1) = <<>> /\ 1 \in 1 .. 1
    BY DEF Whole, Taken, LockOf
  <2> QED
    BY <2>1, WholeIsSequential, ModeType DEF Claims, LockId
<1>2. \A mode \in Mode : ~Claims(call[u], Taken(at[u]), <<>>, mode)
  BY <1>1, Alone DEF TInv
<1>3. LockOf(call[u], 1) = <<>> /\ ModeAt(call[u].op, 1) \in Mode
  BY ModeType DEF LockOf
<1>4. 1 \notin 1 .. Taken(at[u])
  BY <1>2, <1>3 DEF Claims
<1> QED
  BY <1>4, ThreadAt, PlaceType

LEMMA WholeInv ==
    ASSUME TInv, NEW t \in Thread, Whole(t)
    PROVE  TInv'
<1> DEFINE p == <<"unlock", 1>>
<1>1. /\ at[t] = <<"body", 1>> /\ UNCHANGED <<call, keyEnd, seen>>
      /\ Becomes(at, at', t, p)
  BY DEF Whole, GoTo, Becomes
<1>2. IInv' /\ limit' = limit /\ call[t].op \in Exclusive[1]
  BY WholeIsSequential, NextInv DEF TInv
<1>3. PICK replaced : Reset(replaced) /\ \A x \in replaced : Len(x) > 0
  BY WholeIsSequential
<1>4. /\ <<>> \in LockId /\ Taken(at[t]) = 1 /\ Raised(at[t]) = 1
      /\ Claims(call[t], Taken(at[t]), <<>>, "exclusive")
  <2>1. Taken(at[t]) = 1 /\ Raised(at[t]) = 1 /\ LockOf(call[t], 1) = <<>> /\ 1 \in 1 .. 1
    BY <1>1 DEF Taken, Raised, LockOf
  <2> QED
    BY <1>2, <2>1, ModeType DEF Claims, LockId
<1>5. \A u \in Thread \ {t} : Taken(at[u]) = 0
  BY WholeAlone
<1>6. UNCHANGED locks
  <2>1. ASSUME NEW x \in LockId, NEW u \in Thread, NEW mode \in Mode,
               Claims(call[u], Raised(at[u]), x, mode)
        PROVE  x = <<>>
    <3>1. Taken(at[u]) = 0 \/ at[u][2] = 1
      BY <1>1, <1>5
    <3> QED
      BY <2>1, <3>1, ThreadAt, ClaimedLocks
  <2>2. Exists(<<>>)' /\ <<>> \notin replaced
    BY <1>3 DEF Exists
  <2> QED
    BY <1>3, <2>1, <2>2, ResetIdle
<1>7. Confined(list, list', {<<>>})
  BY DEF Confined
<1>8. Fitting(at[t], call[t])
  BY ThreadAt
<1>9. /\ Fitting(p, call[t]) /\ Uses(p, call[t], list')
      /\ ReadMark(p, call[t], seen[t], list') /\ CheckMark(p, call[t], list')
  BY <1>1, <1>8 DEF Fitting, Uses, ReadMark, CheckMark, Idle
<1>10. p \in Places /\ Taken(p) = Taken(at[t]) /\ Raised(p) = Raised(at[t])
  BY <1>4, StepPlaces
<1>11. Becomes(seen, seen', t, seen[t])
  BY <1>1, ThreadAt
<1>12. \A x \in {<<>>} : Claims(call[t], Taken(at[t]), x, "exclusive")
  BY <1>4
<1> HIDE DEF p
<1> QED
  BY <1>1, <1>2, <1>4, <1>6, <1>7, <1>9, <1>10, <1>11, <1>12, StoreStep

-------------------------------------------------------------------------------
(* Every step keeps the invariant, and the first state has it.              *)

LEMMA ProceedInv ==
    ASSUME TInv, NEW t \in Thread, Proceed(t)
    PROVE  TInv'
BY GateInv, MutexInv, UnlockInv, OpenInv, WholeInv, FindInv, FitsInv,
   RemoveWriteInv, SessionInv, FindKeyInv, ProlongKeyWriteInv, CheckWriteInv,
   WriteValueInv, CountWriteInv, LimitReadInv, ReadValueInv, ReadCountersInv
   DEF Proceed

LEMMA StillInv ==
    ASSUME TInv, IInv', UNCHANGED <<list, limit, threadVars>>
    PROVE  TInv'
<1>1. UNCHANGED <<list, limit, locks, call, at, keyEnd, seen>>
  BY DEF threadVars
<1>2. ThreadsTyped'
  BY <1>1 DEF TInv, ThreadsTyped
<1>3. Standing'
  BY <1>1 DEF TInv, Standing
<1>4. LocksMatch(at', call', locks') /\ Excludes(locks')
  BY <1>1 DEF TInv
<1> QED
  BY <1>1, <1>2, <1>3, <1>4 DEF TInv

LEMMA ThreadedNextInv == TInv /\ [ThreadedNext]_allVars => TInv'
<1> SUFFICES ASSUME TInv, [ThreadedNext]_allVars PROVE TInv'
  OBVIOUS
<1>1. CASE UNCHANGED allVars
  <2>1. UNCHANGED vars /\ UNCHANGED <<list, limit, threadVars>>
    BY <1>1 DEF allVars, vars
  <2> QED
    BY <2>1, QuietInv, StillInv DEF TInv
<1>2. ASSUME NEW t \in Thread, Proceed(t)
      PROVE  TInv'
  BY <1>2, ProceedInv
<1>3. ASSUME NEW t \in Thread, NEW c \in Request, Begin(t, c)
      PROVE  TInv'
  BY <1>3, BeginInv
<1>4. CASE Tick /\ UNCHANGED threadVars
  <2>1. UNCHANGED <<list, limit>>
    BY <1>4 DEF Tick, table
  <2> QED
    BY <1>4, <2>1, TickInv, StillInv DEF TInv
<1> QED
  BY <1>1, <1>2, <1>3, <1>4 DEF ThreadedNext

LEMMA LoadedType ==
    ASSUME NEW end \in LoadedEnds, NEW endOfKey \in LoadedEnds,
           NEW K \in SUBSET Key, NEW d \in Data, now \in Nat
    PROVE  Loaded(end, endOfKey, K, d) \in Items
<1> DEFINE v == [NewValue(d, 0) EXCEPT !.tsEnd = endOfKey]
           vs == [k \in Key |-> IF k \in K THEN v ELSE NoValue]
           n == Cardinality(K) % UIntMod
<1>1. n \in UInt
  <2>1. Cardinality(K) \in Nat
    BY ThreadedAssumption, FS_Subset, FS_CardinalityType
  <2> QED
    BY <2>1, UIntMod_
<1>2. end \in Nat /\ endOfKey \in Nat
  <2>1. \A lifetime \in Lifetime : StartTime - 1 + lifetime \in Nat
    BY StoreAssumption
  <2> QED
    BY <2>1 DEF LoadedEnds
<1>3. v \in Values
  <2>1. NewValue(d, 0) \in Values
    BY NewValueType, StoreAssumption
  <2> QED
    BY <1>2, <2>1 DEF Values
<1>4. vs \in [Key -> Values \cup {NoValue}]
  <2> HIDE DEF v
  <2> QED
    BY <1>3
<1>5. Loaded(end, endOfKey, K, d) = [tsEnd |-> end, counterKeys |-> n, values |-> vs]
  BY DEF Loaded
<1> HIDE DEF n, vs
<1> QED
  BY <1>1, <1>2, <1>4, <1>5 DEF Items

LEMMA ThreadedInitInv == ThreadedInit => TInv
<1> SUFFICES ASSUME ThreadedInit PROVE TInv
  OBVIOUS
<1>1. /\ now \in Nat /\ limit \in Limits /\ limit \in UInt \ {0} /\ limit # Unset
      /\ limit \in Nat /\ limit < UIntMod
  BY StoreAssumption DEF ThreadedInit, UInt
<1>2. list \in [SessionId -> Items \cup {NoItem}]
  BY <1>1, LoadedType DEF ThreadedInit
<1>3. count \in Nat /\ count <= limit /\ count = Cardinality(Stored)
  BY StoredFinite DEF ThreadedInit
<1>4. count \in UInt /\ totalFree \in UInt /\ totalFree = limit - count
  BY <1>1, <1>3, StoreAssumption DEF UInt, ThreadedInit
<1>5. reply \in [op : Operations, res : Results]
  BY DEF ThreadedInit, Operations, Results
<1>6. IInv
  BY <1>1, <1>2, <1>3, <1>4, <1>5
     DEF IInv, TypeOK, CountSound, FreeSessionsReported
<1>7. /\ Idle \in Places /\ Taken(Idle) = 0 /\ Raised(Idle) = 0
      /\ \A t \in Thread : at[t] = Idle
  BY DEF Idle, Places, Taken, Raised, ThreadedInit
<1>8. ThreadsTyped
  <2>1. FreeLock \in LockState
    BY DEF FreeLock, LockState
  <2> QED
    BY <1>7, <2>1 DEF ThreadedInit, ThreadsTyped, Locks
<1>9. Standing
  BY <1>7 DEF Standing, Fitting, Uses, ReadMark, CheckMark, Idle
<1>10. LocksMatch(at, call, locks)
  <2>1. \A x, mode : Holders(at, call, x, mode) = {}
    BY <1>7, NoClaims DEF Holders
  <2>2. \A x : Raisers(at, call, x) = {}
    BY <1>7, NoClaims DEF Raisers
  <2> QED
    BY <2>1, <2>2, FS_EmptySet DEF LocksMatch, ThreadedInit, FreeLock
<1>11. Excludes(locks)
  BY DEF Excludes, ThreadedInit, FreeLock
<1> QED
  BY <1>1, <1>6, <1>8, <1>9, <1>10, <1>11 DEF TInv

LEMMA ThreadedInvariance == ThreadedSpec => []TInv
BY ThreadedInitInv, ThreadedNextInv, PTL DEF ThreadedSpec

\* The store and the threads keep their types, the counters stay unsigned.
THEOREM ThreadedTypeCorrect == ThreadedSpec => []ThreadedTypeOK
<1>1. TInv => ThreadedTypeOK
  BY DEF TInv, IInv, ThreadsTyped, ThreadedTypeOK, Locks, LockState
<1> QED
  BY <1>1, ThreadedInvariance, PTL

\* Every lock records exactly the threads that rely on it, on every way in and
\* out of an operation, and through every destruction of a record.
THEOREM LocksMatchTheThreads == ThreadedSpec => []LocksMatchThreads
<1>1. TInv => LocksMatchThreads
  BY MatchNow DEF TInv, ThreadsTyped
<1> QED
  BY <1>1, ThreadedInvariance, PTL

\* No session or value is destroyed while a call has a pointer to it.
THEOREM RecordsInUseExist == ThreadedSpec => []InUseExists
<1>1. ASSUME TInv, NEW t \in Thread, NEW level \in 1 .. at[t][2]
      PROVE  Exists(LockOf(call[t], level))
  <2>1. at[t] \in Places /\ Uses(at[t], call[t], list) /\ level \in 1 .. 3
    BY <1>1, ThreadAt, PlaceType
  <2>2. at[t][2] >= level
    BY <2>1, PlaceType
  <2>3. CASE level = 1
    BY <2>3 DEF LockOf, Exists
  <2>4. CASE level = 2
    BY <2>1, <2>2, <2>4, PlaceType DEF LockOf, Exists, Uses
  <2>5. CASE level = 3
    BY <2>1, <2>2, <2>5, PlaceType DEF LockOf, Exists, Uses
  <2> QED
    BY <2>1, <2>3, <2>4, <2>5
<1>2. TInv => InUseExists
  BY <1>1 DEF InUseExists
<1> QED
  BY <1>2, ThreadedInvariance, PTL

\* What getKey answers was all in the store at one time.
THEOREM ReadsAreConsistent == ThreadedSpec => []ReadIsConsistent
<1>1. TInv => ReadIsConsistent
  BY DEF TInv, Standing, ReadMark, ReadIsConsistent, Snapshot, ValueOf
<1> QED
  BY <1>1, ThreadedInvariance, PTL

\* No update is lost: a setKey writes over the very record it has compared.
THEOREM NoUpdateIsLost == ThreadedSpec => []CheckedWhenWritten
<1>1. TInv => CheckedWhenWritten
  BY DEF TInv, Standing, CheckMark, CheckedWhenWritten, CountersMatch
<1> QED
  BY <1>1, ThreadedInvariance, PTL

-------------------------------------------------------------------------------
(* What a step of a thread does to the records, and to their ends.          *)

\* A limiter is left alone, or counts one more call, by its several readings
\* of the clock.
LimiterRacy(old, new) ==
    \/ new = old
    \/ \E cap \in Caps, second \in now .. now' :
          /\ Passes(old, cap, now)
          /\ new = [old EXCEPT ![cap] = CountedAt(@, second, now')]

\* The limiters of a record, before and after.
LimitersRacy(old, new) ==
    /\ LimiterRacy(old.limiterRead, new.limiterRead)
    /\ LimiterRacy(old.limiterWrite, new.limiterWrite)

Unused(v) == v.limiterRead = NewLimiter(Caps) /\ v.limiterWrite = NewLimiter(Caps)

\* One place of a session, before and after.
PlaceRacy(old, new) ==
    \/ new = old \/ new = NoValue
    \/ old # NoValue /\ LimitersRacy(old, new)
    \/ Unused(new)

\* A record there is after a step was there before it, or nobody has used it.
RecordsRacy ==
    \A s \in SessionId, k \in Key : Holds(s, k)' =>
        \/ Holds(s, k) /\ LimitersRacy(list[s].values[k], list'[s].values[k])
        \/ Unused(list'[s].values[k])

\* The sessions stay, and their ends with them, but for those of S.
EndsKept(S) ==
    \A s \in SessionId :
        /\ list'[s] = NoItem <=> list[s] = NoItem
        /\ list[s] # NoItem /\ s \notin S => list'[s].tsEnd = list[s].tsEnd

\* The clock goes on, or stays; the limit given at start stays.
Onwards ==
    /\ now' \in now .. now + 1 /\ (now' = now \/ now' <= MaxTime)
    /\ limit' = limit

StepEffect == RecordsRacy /\ Onwards

\* Most steps leave the sessions' ends alone.
CalmEffect == StepEffect /\ EndsKept({})

LEMMA SameRacy ==
    ASSUME UNCHANGED list, Onwards
    PROVE  CalmEffect
<1>1. RecordsRacy /\ EndsKept({})
  BY DEF RecordsRacy, LimitersRacy, LimiterRacy, Holds, EndsKept
<1> QED
  BY <1>1 DEF StepEffect, CalmEffect

LEMMA OnwardsNow ==
    ASSUME now \in Nat, UNCHANGED <<now, limit>>
    PROVE  Onwards
BY DEF Onwards

\* Another record in the place of a session's, with one value put, or none.
LEMMA ItemEffect ==
    ASSUME TypeOK, NEW s \in SessionId, list[s] # NoItem, NEW item \in Items,
           Becomes(list, list', s, item),
           \A k \in Key : PlaceRacy(list[s].values[k], item.values[k])
    PROVE  /\ RecordsRacy
           /\ EndsKept({s})
           /\ item.tsEnd = list[s].tsEnd => EndsKept({})
<1>1. /\ list'[s] = item /\ item # NoItem
      /\ \A r \in SessionId \ {s} : list'[r] = list[r]
  BY NullAssumption DEF TypeOK, Becomes
<1>2. EndsKept({s}) /\ (item.tsEnd = list[s].tsEnd => EndsKept({}))
  BY <1>1 DEF EndsKept
<1>3. ASSUME NEW r \in SessionId, NEW j \in Key, Holds(r, j)'
      PROVE  \/ Holds(r, j) /\ LimitersRacy(list[r].values[j], list'[r].values[j])
             \/ Unused(list'[r].values[j])
  <2>1. CASE r = s /\ list'[r].values[j] # list[r].values[j]
    <3>1. PlaceRacy(list[s].values[j], list'[s].values[j])
      BY <1>1
    <3> QED
      BY <1>3, <2>1, <3>1 DEF Holds, PlaceRacy
  <2>2. CASE r # s \/ list'[r].values[j] = list[r].values[j]
    <3>1. list'[r].values[j] = list[r].values[j] /\ list[r] # NoItem
      BY <1>1, <1>3, <2>2 DEF Holds
    <3>2. LimitersRacy(list[r].values[j], list'[r].values[j])
      BY <3>1 DEF LimitersRacy, LimiterRacy
    <3> QED
      BY <1>3, <3>1, <3>2 DEF Holds
  <2> QED
    BY <2>1, <2>2
<1> QED
  BY <1>2, <1>3 DEF RecordsRacy

\* A value put in the place of another.
LEMMA ValueEffect ==
    ASSUME TypeOK, Onwards, NEW s \in SessionId, NEW k \in Key,
           list[s] # NoItem, list[s].values[k] # NoValue,
           NEW v \in Values \cup {NoValue}, Puts(list, list', s, k, v),
           v = NoValue \/ LimitersRacy(list[s].values[k], v)
    PROVE  CalmEffect
<1> DEFINE item == [list[s] EXCEPT !.values[k] = v]
<1>1. list[s] \in Items
  BY DEF TypeOK
<1>2. /\ item \in Items /\ item.tsEnd = list[s].tsEnd /\ item.values[k] = v
      /\ \A j \in Key \ {k} : item.values[j] = list[s].values[j]
  BY <1>1 DEF Items
<1>3. Becomes(list, list', s, item)
  BY DEF Puts, Becomes
<1> HIDE DEF item
<1>4. \A j \in Key : PlaceRacy(list[s].values[j], item.values[j])
  BY <1>2 DEF PlaceRacy
<1>5. RecordsRacy /\ EndsKept({})
  BY <1>2, <1>3, <1>4, ItemEffect
<1> QED
  BY <1>5 DEF StepEffect, CalmEffect

\* An end moved.
LEMMA EndEffect ==
    ASSUME TypeOK, UNCHANGED <<now, limit>>, NEW s \in SessionId, list[s] # NoItem,
           NEW e \in Nat, list' = [list EXCEPT ![s].tsEnd = e]
    PROVE  StepEffect
<1> DEFINE item == [list[s] EXCEPT !.tsEnd = e]
<1>1. list[s] \in Items
  BY DEF TypeOK
<1>2. item \in Items /\ item.values = list[s].values
  BY <1>1 DEF Items
<1>3. Becomes(list, list', s, item)
  BY DEF Becomes
<1> HIDE DEF item
<1>4. \A k \in Key : PlaceRacy(list[s].values[k], item.values[k])
  BY <1>2 DEF PlaceRacy
<1>5. RecordsRacy /\ EndsKept({s})
  BY <1>2, <1>3, <1>4, ItemEffect
<1>6. Onwards
  BY OnwardsNow DEF TypeOK
<1> QED
  BY <1>5, <1>6 DEF StepEffect

LEMMA StillEffect ==
    ASSUME TInv, UNCHANGED <<now, list, limit>>
    PROVE  CalmEffect
BY OnwardsNow, SameRacy DEF TInv, IInv, TypeOK

LEMMA LimitersSame ==
    ASSUME NEW old, NEW new, new.limiterRead = old.limiterRead,
           new.limiterWrite = old.limiterWrite
    PROVE  LimitersRacy(old, new)
BY DEF LimitersRacy, LimiterRacy

LEMMA RemoveWriteEffect ==
    ASSUME TInv, NEW t \in Thread, RemoveWrite(t)
    PROVE  StepEffect
<1>1. at[t] = <<"write", 1>> /\ Update("remove", [list EXCEPT ![call[t].s].tsEnd = 0])
  BY DEF RemoveWrite
<1>2. Fitting(at[t], call[t]) /\ Uses(at[t], call[t], list) /\ at[t] # Idle
  BY <1>1, ThreadAt DEF Idle
<1>3. call[t].s \in SessionId /\ list[call[t].s] # NoItem
  BY <1>1, <1>2, RequestFields DEF Fitting, Uses
<1>4. list' = [list EXCEPT ![call[t].s].tsEnd = 0] /\ UNCHANGED <<now, limit>>
  BY <1>1 DEF Update
<1> QED
  BY <1>3, <1>4, EndEffect DEF TInv, IInv

\* A call that writes to its value, but not to its limiters.
LEMMA QuietValueEffect ==
    ASSUME TInv, NEW t \in Thread,
           at[t] \in {<<"body", 3>>, <<"write", 3>>, <<"count", 3>>},
           UNCHANGED <<now, limit>>, NEW v \in Values,
           Puts(list, list', call[t].s, call[t].k, v),
           v.limiterRead = ValueOf(t).limiterRead,
           v.limiterWrite = ValueOf(t).limiterWrite
    PROVE  CalmEffect
<1>1. LimitersRacy(ValueOf(t), v)
  BY LimitersSame
<1>2. /\ call[t].s \in SessionId /\ call[t].k \in Key
      /\ list[call[t].s] # NoItem /\ ValueOf(t) # NoValue
      /\ ValueOf(t) = list[call[t].s].values[call[t].k]
  BY AtBody, AtValue
<1>3. Onwards /\ TypeOK
  BY OnwardsNow DEF TInv, IInv, TypeOK
<1> QED
  BY <1>1, <1>2, <1>3, ValueEffect

LEMMA ProlongKeyWriteEffect ==
    ASSUME TInv, NEW t \in Thread, ProlongKeyWrite(t)
    PROVE  CalmEffect
<1> DEFINE v == [ValueOf(t) EXCEPT !.tsEnd = keyEnd[t]]
<1>1. /\ at[t] = <<"body", 3>> /\ Puts(list, list', call[t].s, call[t].k, v)
      /\ UNCHANGED <<now, limit>>
  BY DEF ProlongKeyWrite, Update, Puts, ValueOf
<1>2. /\ v \in Values /\ v.limiterRead = ValueOf(t).limiterRead
      /\ v.limiterWrite = ValueOf(t).limiterWrite
  BY <1>1, AtBody DEF Values, TInv, ThreadsTyped
<1> HIDE DEF v
<1> QED
  BY <1>1, <1>2, QuietValueEffect

LEMMA WriteValueEffect ==
    ASSUME TInv, NEW t \in Thread, WriteValue(t)
    PROVE  CalmEffect
<1> DEFINE v == [ValueOf(t) EXCEPT !.value = call[t].d]
<1>1. /\ at[t] = <<"write", 3>> /\ Puts(list, list', call[t].s, call[t].k, v)
      /\ UNCHANGED <<now, limit>>
  BY DEF WriteValue, Touch, Puts
<1>2. call[t].d \in Data
  <2>1. call[t] \in Request /\ call[t].op \in {"setKey", "setForceKey"}
    BY <1>1, AtBody, ThreadAt DEF Fitting
  <2> QED
    BY <2>1, RequestFields
<1>3. /\ v \in Values /\ v.limiterRead = ValueOf(t).limiterRead
      /\ v.limiterWrite = ValueOf(t).limiterWrite
  BY <1>1, <1>2, AtBody DEF Values
<1> HIDE DEF v
<1> QED
  BY <1>1, <1>3, QuietValueEffect

LEMMA CountWriteEffect ==
    ASSUME TInv, NEW t \in Thread, CountWrite(t)
    PROVE  CalmEffect
<1> DEFINE v == [ValueOf(t) EXCEPT !.counterRecord = Inc(@)]
<1>1. /\ at[t] = <<"count", 3>> /\ Puts(list, list', call[t].s, call[t].k, v)
      /\ UNCHANGED <<now, limit>>
  BY DEF CountWrite, Update, Puts, ValueOf
<1>2. ValueOf(t) \in Values
  BY <1>1, AtBody
<1>3. Inc(ValueOf(t).counterRecord) \in UInt
  BY <1>2, IncType DEF Values
<1>4. /\ v \in Values /\ v.limiterRead = ValueOf(t).limiterRead
      /\ v.limiterWrite = ValueOf(t).limiterWrite
  BY <1>2, <1>3 DEF Values
<1> HIDE DEF v
<1> QED
  BY <1>1, <1>4, QuietValueEffect

\* A call that is counted in one of the limiters.
LEMMA PassRacy ==
    ASSUME TInv, NEW t \in Thread, at[t] = <<"body", 3>>,
           NEW limiter \in {"limiterRead", "limiterWrite"},
           NEW cap \in RateLimit, NEW step, PassLimiter(t, limiter, cap, step)
    PROVE  CalmEffect
<1> DEFINE old == ValueOf(t)
<1>1. PICK v \in Values :
        /\ Puts(list, list', call[t].s, call[t].k, v)
        /\ CountsCall(old, v, limiter, cap)
  BY PassEffect
<1>2. old \in Values /\ now \in Nat
  BY AtBody DEF TInv, IInv, TypeOK
<1>3. LimitersRacy(old, v)
  <2>1. CASE v = old
    BY <2>1, LimitersSame
  <2>2. ASSUME NEW second \in now .. now', cap \in Caps, Passes(old[limiter], cap, now),
               v = [old EXCEPT ![limiter][cap] = CountedAt(@, second, now')]
        PROVE  LimitersRacy(old, v)
    <3> DEFINE new == [old[limiter] EXCEPT ![cap] = CountedAt(@, second, now')]
    <3>1. v = [old EXCEPT ![limiter] = new]
      BY <2>2
    <3>2. LimiterRacy(old[limiter], new)
      BY <2>2 DEF LimiterRacy
    <3> HIDE DEF new, old
    <3>3. CASE limiter = "limiterRead"
      <4>1. v.limiterRead = new /\ v.limiterWrite = old.limiterWrite
        BY <1>2, <3>1, <3>3 DEF Values
      <4> QED
        BY <3>2, <3>3, <4>1 DEF LimitersRacy, LimiterRacy
    <3>4. CASE limiter = "limiterWrite"
      <4>1. v.limiterWrite = new /\ v.limiterRead = old.limiterRead
        BY <1>2, <3>1, <3>4 DEF Values
      <4> QED
        BY <3>2, <3>4, <4>1 DEF LimitersRacy, LimiterRacy
    <3> QED
      BY <3>3, <3>4
  <2> HIDE DEF old
  <2> QED
    BY <1>1, <2>1, <2>2 DEF CountsCall
<1>4. /\ call[t].s \in SessionId /\ call[t].k \in Key
      /\ list[call[t].s] # NoItem /\ old # NoValue
      /\ old = list[call[t].s].values[call[t].k]
  BY AtBody, AtValue
<1>5. Onwards /\ TypeOK
  <2>1. limit' = limit
    BY PassEffect DEF Recounts
  <2> HIDE DEF old
  <2> QED
    BY <1>1, <1>2, <2>1 DEF CountsCall, Onwards, TInv, IInv
<1> HIDE DEF old
<1> QED
  BY <1>1, <1>3, <1>4, <1>5, ValueEffect

LEMMA CheckWriteEffect ==
    ASSUME TInv, NEW t \in Thread, CheckWrite(t)
    PROVE  CalmEffect
<1>1. at[t] = <<"body", 3>> /\ call[t].op \in {"setKey", "setForceKey"}
  BY DEF CheckWrite
<1>2. CASE \E res : Fail(t, 3, res)
  BY <1>2, StillEffect DEF Fail, Refuse, table
<1>3. CASE PassLimiter(t, "limiterWrite", call[t].cap, "write")
  <2>1. call[t].cap \in RateLimit
    BY <1>1, AtBody, RequestFields
  <2> QED
    BY <1>1, <1>3, <2>1, PassRacy
<1> QED
  BY <1>2, <1>3 DEF CheckWrite

LEMMA LimitReadEffect ==
    ASSUME TInv, NEW t \in Thread, LimitRead(t)
    PROVE  CalmEffect
<1>1. at[t] = <<"body", 3>> /\ call[t].op = "getKey"
  BY DEF LimitRead
<1>2. CASE \E res : Fail(t, 3, res)
  BY <1>2, StillEffect DEF Fail, Refuse, table
<1>3. CASE PassLimiter(t, "limiterRead", call[t].cap, "read")
  <2>1. call[t].cap \in RateLimit
    BY <1>1, AtBody, RequestFields
  <2> QED
    BY <1>1, <1>3, <2>1, PassRacy
<1> QED
  BY <1>2, <1>3 DEF LimitRead

LEMMA SessionEffect ==
    ASSUME TInv, NEW t \in Thread, Session(t)
    PROVE  StepEffect /\ (call[t].op # "prolong" => EndsKept({}))
<1> DEFINE s == call[t].s
           k == call[t].k
<1>1. at[t] = <<"body", 2>>
  BY DEF Session
<1>2. s \in SessionId /\ list[s] # NoItem /\ list[s] \in Items /\ TypeOK /\ now \in Nat
  BY <1>1, AtSession DEF TInv, IInv, TypeOK
<1>3. CASE /\ call[t].op = "prolong"
           /\ Update("prolong", [list EXCEPT ![s].tsEnd =
                 IF call[t].lifetime # 0 THEN now + call[t].lifetime ELSE FarEnd])
  <2> DEFINE e == IF call[t].lifetime # 0 THEN now + call[t].lifetime ELSE FarEnd
  <2>1. call[t].lifetime \in Lifetime
    BY <1>1, <1>3, AtSession, RequestFields
  <2>2. e \in Nat
    <3>1. FarEnd \in Nat
      BY StoreAssumption DEF FarEnd
    <3>2. call[t].lifetime \in Nat
      BY <2>1, StoreAssumption
    <3> QED
      BY <1>2, <3>1, <3>2
  <2>3. list' = [list EXCEPT ![s].tsEnd = e] /\ UNCHANGED <<now, limit>>
    BY <1>3 DEF Update
  <2> HIDE DEF e, s
  <2> QED
    BY <1>2, <1>3, <2>2, <2>3, EndEffect
<1>4. CASE \E res : Refuse("addKey", res)
  BY <1>4, StillEffect DEF Refuse, table, CalmEffect
<1>5. CASE /\ call[t].op = "addKey"
           /\ Update("addKey", [list EXCEPT
                 ![s].counterKeys = Inc(@),
                 ![s].values[k] = [NewValue(call[t].d, 0) EXCEPT !.tsEnd = keyEnd[t]]])
  <2> DEFINE v == [NewValue(call[t].d, 0) EXCEPT !.tsEnd = keyEnd[t]]
             item == [list[s] EXCEPT !.counterKeys = Inc(@), !.values[k] = v]
  <2>1. call[t].d \in Data /\ k \in Key
    BY <1>1, <1>5, AtSession, RequestFields DEF SessionOps
  <2>2. v \in Values /\ Unused(v)
    <3>1. NewValue(call[t].d, 0) \in Values
      BY <1>2, <2>1, NewValueType, StoreAssumption
    <3>2. keyEnd[t] \in Nat
      BY DEF TInv, ThreadsTyped
    <3> QED
      BY <3>1, <3>2 DEF Values, Unused, NewValue
  <2>3. Inc(list[s].counterKeys) \in UInt
    BY <1>2, IncType DEF Items
  <2>4. Becomes(list, list', s, item) /\ UNCHANGED <<now, limit>>
    BY <1>5 DEF Update, Becomes
  <2> HIDE DEF v, s, k
  <2>5. /\ item \in Items /\ item.tsEnd = list[s].tsEnd /\ item.values[k] = v
        /\ \A j \in Key \ {k} : item.values[j] = list[s].values[j]
    BY <1>2, <2>1, <2>2, <2>3 DEF Items
  <2> HIDE DEF item
  <2>6. \A j \in Key : PlaceRacy(list[s].values[j], item.values[j])
    BY <2>2, <2>5 DEF PlaceRacy
  <2>7. RecordsRacy /\ EndsKept({})
    BY <1>2, <2>4, <2>5, <2>6, ItemEffect
  <2> QED
    BY <1>2, <2>4, <2>7, OnwardsNow DEF StepEffect
<1>6. CASE /\ call[t].op = "removeKey"
           /\ Update("removeKey", [list EXCEPT ![s].values[k] = NoValue])
  <2> DEFINE item == [list[s] EXCEPT !.values[k] = NoValue]
  <2>1. k \in Key
    BY <1>1, <1>6, AtSession, RequestFields DEF SessionOps
  <2>2. Becomes(list, list', s, item) /\ UNCHANGED <<now, limit>>
    BY <1>6 DEF Update, Becomes
  <2> HIDE DEF s, k
  <2>3. /\ item \in Items /\ item.tsEnd = list[s].tsEnd /\ item.values[k] = NoValue
        /\ \A j \in Key \ {k} : item.values[j] = list[s].values[j]
    BY <1>2, <2>1 DEF Items
  <2> HIDE DEF item
  <2>4. \A j \in Key : PlaceRacy(list[s].values[j], item.values[j])
    BY <2>3 DEF PlaceRacy
  <2>5. RecordsRacy /\ EndsKept({})
    BY <1>2, <2>2, <2>3, <2>4, ItemEffect
  <2> QED
    BY <1>2, <2>2, <2>5, OnwardsNow DEF StepEffect
<1> QED
  BY <1>3, <1>4, <1>5, <1>6 DEF Session

\* What a sequential step does to a limiter, a racing one may do.
LEMMA LimiterStepRacy ==
    ASSUME now \in Nat, UNCHANGED now, NEW old \in Limiters, NEW new,
           LimiterStep(old, new)
    PROVE  LimiterRacy(old, new)
<1>1. CASE new = old
  BY <1>1 DEF LimiterRacy
<1>2. ASSUME NEW cap \in RateLimit, Passes(old, cap, now),
             new = IncLimiter(old, cap, now)
      PROVE  LimiterRacy(old, new)
  <2>1. CASE cap = 0
    BY <1>2, <2>1 DEF IncLimiter, LimiterRacy
  <2>2. CASE cap # 0
    <3>1. cap \in Caps
      BY <2>2 DEF Caps
    <3>2. Counted(old[cap], now) = CountedAt(old[cap], now, now')
      BY DEF CountedAt, Counted, NoWindow
    <3>3. new = [old EXCEPT ![cap] = CountedAt(@, now, now')]
      BY <1>2, <2>2, <3>2 DEF IncLimiter
    <3>4. now \in now .. now'
      OBVIOUS
    <3> QED
      BY <1>2, <3>1, <3>3, <3>4 DEF LimiterRacy
  <2> QED
    BY <2>1, <2>2
<1> QED
  BY <1>1, <1>2 DEF LimiterStep

LEMMA WholeEffect ==
    ASSUME TInv, NEW t \in Thread, Whole(t)
    PROVE  StepEffect
<1>1. Next /\ UNCHANGED <<now, limit>> /\ TypeOK /\ now \in Nat
  BY WholeIsSequential DEF TInv, IInv, TypeOK
<1>2. ASSUME NEW s \in SessionId, NEW k \in Key, Holds(s, k)'
      PROVE  \/ Holds(s, k) /\ LimitersRacy(list[s].values[k], list'[s].values[k])
             \/ Unused(list'[s].values[k])
  <2>1. KeyStep(s, k)
    BY <1>1, NextKeys DEF EveryKeyStep
  <2>2. CASE Holds(s, k) /\ RecordStep(list[s].values[k], list'[s].values[k])
    <3>1. list[s].values[k] \in Values
      BY <1>1, <2>2 DEF Holds, TypeOK, Items
    <3>2. /\ list[s].values[k].limiterRead \in Limiters
          /\ list[s].values[k].limiterWrite \in Limiters
      BY <3>1 DEF Values
    <3> QED
      BY <1>1, <2>2, <3>2, LimiterStepRacy DEF RecordStep, LimitersRacy
  <2>3. CASE \E d \in Data, lifetime \in Lifetime :
                list'[s].values[k] = NewValue(d, lifetime)
    BY <2>3 DEF NewValue, Unused
  <2> QED
    BY <1>2, <2>1, <2>2, <2>3 DEF KeyStep
<1> QED
  BY <1>1, <1>2, OnwardsNow DEF StepEffect, RecordsRacy

\* The steps that neither move the end of a session nor hold the list alone.
CalmStep(t) ==
    \/ Gate(t) \/ Mutex(t) \/ Unlock(t) \/ Open(t) \/ Find(t) \/ Fits(t)
    \/ FindKey(t) \/ ProlongKeyWrite(t) \/ CheckWrite(t) \/ WriteValue(t)
    \/ CountWrite(t) \/ LimitRead(t) \/ ReadValue(t) \/ ReadCounters(t)

LEMMA CalmStepEffect ==
    ASSUME TInv, NEW t \in Thread, CalmStep(t)
    PROVE  CalmEffect
<1>1. CASE Gate(t) \/ Mutex(t) \/ Unlock(t) \/ Open(t) \/ ReadValue(t)
  BY <1>1, StillEffect DEF Gate, Mutex, Unlock, Open, ReadValue, Quietly, vars
<1>2. CASE Find(t) \/ Fits(t) \/ FindKey(t) \/ ReadCounters(t)
  BY <1>2, StillEffect
     DEF Find, Fits, FindKey, ReadCounters, Fail, Refuse, table, Quietly, vars
<1> QED
  BY <1>1, <1>2, ProlongKeyWriteEffect, CheckWriteEffect, WriteValueEffect,
     CountWriteEffect, LimitReadEffect DEF CalmStep

LEMMA ProceedEffect ==
    ASSUME TInv, NEW t \in Thread, Proceed(t)
    PROVE  StepEffect
<1>1. CASE CalmStep(t)
  BY <1>1, CalmStepEffect DEF CalmEffect
<1> QED
  BY <1>1, WholeEffect, RemoveWriteEffect, SessionEffect DEF Proceed, CalmStep

LEMMA ThreadedNextEffect ==
    ASSUME TInv, [ThreadedNext]_allVars
    PROVE  StepEffect
<1>1. CASE UNCHANGED allVars
  BY <1>1, StillEffect DEF allVars, vars, CalmEffect
<1>2. ASSUME NEW t \in Thread, Proceed(t)
      PROVE  StepEffect
  BY <1>2, ProceedEffect
<1>3. ASSUME NEW t \in Thread, NEW c \in Request, Begin(t, c)
      PROVE  StepEffect
  BY <1>3, StillEffect DEF Begin, Quietly, vars, CalmEffect
<1>4. CASE Tick
  <2>1. /\ UNCHANGED list /\ limit' = limit /\ now' = now + 1
        /\ now \in Nat /\ now < MaxTime
    BY <1>4 DEF Tick, table, TInv, IInv, TypeOK
  <2>2. Onwards
    BY <2>1, StoreAssumption DEF Onwards
  <2> QED
    BY <2>1, <2>2, SameRacy DEF CalmEffect
<1> QED
  BY <1>1, <1>2, <1>3, <1>4 DEF ThreadedNext

-------------------------------------------------------------------------------
(* The limits on calls per second.                                          *)

\* A window counts no more than its limit, and was not opened in the future:
\* a second read late, after another thread's, must not find it used up twice.
Paced(limiter, t) ==
    \A cap \in Caps : limiter[cap].count <= cap /\ limiter[cap].ts <= t

RateInv ==
    \A s \in SessionId, k \in Key : Holds(s, k) =>
        /\ Paced(list[s].values[k].limiterRead, now)
        /\ Paced(list[s].values[k].limiterWrite, now)

LEMMA NewLimiterPaced ==
    ASSUME NEW t \in Nat
    PROVE  Paced(NewLimiter(Caps), t)
BY StoreAssumption DEF Paced, NewLimiter, NoWindow, Caps

LEMMA LimiterRacyPaced ==
    ASSUME now \in Nat, now' \in now .. now + 1, NEW old \in Limiters, NEW new,
           Paced(old, now), LimiterRacy(old, new)
    PROVE  Paced(new, now')
<1>1. now' \in Nat /\ now' >= now
  OBVIOUS
<1>2. \A cap \in Caps : cap \in Nat /\ cap >= 1 /\ old[cap] \in [ts : Nat, count : Nat]
  BY StoreAssumption DEF Caps, Limiters
<1>3. Paced(old, now')
  BY <1>1, <1>2 DEF Paced
<1>4. ASSUME NEW cap \in Caps, NEW second \in now .. now', Passes(old, cap, now),
             new = [old EXCEPT ![cap] = CountedAt(@, second, now')]
      PROVE  Paced(new, now')
  <2> DEFINE w == old[cap]
             v == CountedAt(w, second, now')
  <2>1. w.count \in Nat /\ w.ts \in Nat /\ w.count <= cap /\ w.ts <= now
    BY <1>2 DEF Paced
  <2>2. ~(w.count = cap /\ w.ts = now)
    BY <1>2, <1>4 DEF Passes, Exhausted
  <2>3. v.count <= cap /\ v.ts <= now'
    <3>1. CASE w.ts = second
      <4>1. w.count < cap
        BY <1>2, <2>1, <2>2, <3>1
      <4>2. v = Counted(w, second)
        BY <3>1 DEF CountedAt
      <4> HIDE DEF v
      <4> QED
        BY <1>1, <1>2, <2>1, <4>1, <4>2 DEF Counted
    <3>2. CASE w.ts # second
      BY <1>1, <1>2, <3>2 DEF CountedAt, Counted
    <3> QED
      BY <3>1, <3>2
  <2>4. new[cap] = v /\ \A c \in Caps \ {cap} : new[c] = old[c]
    BY <1>4 DEF Limiters
  <2> HIDE DEF v, w
  <2> QED
    BY <1>3, <2>3, <2>4 DEF Paced
<1> QED
  BY <1>3, <1>4 DEF LimiterRacy

LEMMA RateStep ==
    ASSUME TInv, RateInv, [ThreadedNext]_allVars
    PROVE  RateInv'
<1>1. RecordsRacy /\ now' \in now .. now + 1 /\ now \in Nat
  BY ThreadedNextEffect DEF StepEffect, Onwards, TInv, IInv, TypeOK
<1>2. now' \in Nat
  BY <1>1
<1>3. ASSUME NEW s \in SessionId, NEW k \in Key, Holds(s, k)'
      PROVE  /\ Paced(list'[s].values[k].limiterRead, now')
             /\ Paced(list'[s].values[k].limiterWrite, now')
  <2>1. CASE Holds(s, k) /\ LimitersRacy(list[s].values[k], list'[s].values[k])
    <3>1. list[s].values[k] \in Values
      BY <2>1 DEF Holds, TInv, IInv, TypeOK, Items
    <3>2. /\ list[s].values[k].limiterRead \in Limiters
          /\ list[s].values[k].limiterWrite \in Limiters
      BY <3>1 DEF Values
    <3> QED
      BY <1>1, <2>1, <3>2, LimiterRacyPaced DEF RateInv, LimitersRacy
  <2>2. CASE Unused(list'[s].values[k])
    BY <1>2, <2>2, NewLimiterPaced DEF Unused
  <2> QED
    BY <1>1, <1>3, <2>1, <2>2 DEF RecordsRacy
<1> QED
  BY <1>3 DEF RateInv

LEMMA RateInit == ThreadedInit => RateInv
<1> SUFFICES ASSUME ThreadedInit, NEW s \in SessionId, NEW k \in Key, Holds(s, k)
             PROVE  /\ Paced(list[s].values[k].limiterRead, now)
                    /\ Paced(list[s].values[k].limiterWrite, now)
  BY DEF RateInv
<1>1. PICK end \in LoadedEnds, endOfKey \in LoadedEnds, K \in SUBSET Key, d \in Data :
        list[s] = Loaded(end, endOfKey, K, d)
  BY DEF ThreadedInit, Holds
<1>2. list[s].values[k] = [NewValue(d, 0) EXCEPT !.tsEnd = endOfKey]
  BY <1>1 DEF Loaded, Holds
<1>3. now \in Nat
  BY StoreAssumption DEF ThreadedInit
<1> QED
  BY <1>2, <1>3, NewLimiterPaced DEF NewValue

\* However calls of several threads interleave, and whenever the second ends
\* between two readings of the clock, a window counts no more than its limit.
THEOREM ThreadedRateIsBound == ThreadedSpec => []RateBound
<1>1. TInv /\ RateInv /\ [ThreadedNext]_allVars => RateInv'
  BY RateStep
<1>2. RateInv => RateBound
  BY RateBoundWithin DEF RateInv, Paced, Within
<1> QED
  BY <1>1, <1>2, RateInit, ThreadedInvariance, PTL DEF ThreadedSpec

-------------------------------------------------------------------------------
(* The life of a session.                                                   *)

LEMMA ClockFitsStep ==
    ASSUME TInv, ClockFits, MaxTime <= FarEnd, [ThreadedNext]_allVars
    PROVE  ClockFits'
<1>1. now' = now \/ (now' \in now .. now + 1 /\ now' <= MaxTime)
  BY ThreadedNextEffect DEF StepEffect, Onwards
<1>2. FarEnd \in Nat /\ now \in Nat
  BY StoreAssumption DEF FarEnd, TInv, IInv, TypeOK
<1> QED
  BY <1>1, <1>2, StoreAssumption DEF ClockFits

\* The steps that SharedLifecycle takes over from SessionLifecycle.
LEMMA SharedActions ==
    /\ Shared!Pass <=> Lifecycle!Pass
    /\ Shared!Sweep <=> Lifecycle!Sweep
    /\ \A s : Shared!MoveEnd(s) <=> Lifecycle!MoveEnd(s)
    /\ \A s : Shared!Open(s) <=> Lifecycle!Open(s)
    /\ Shared!Live = Lifecycle!Live
    /\ Shared!lifecycle = Seen
<1>1. \A S : Shared!Cardinality(S) = Lifecycle!Cardinality(S)
  BY DEF Shared!Cardinality, Lifecycle!Cardinality
<1>2. Shared!Live = Lifecycle!Live /\ Shared!Lapsed = Lifecycle!Lapsed
  BY DEF Shared!Live, Lifecycle!Live, Shared!Runs, Lifecycle!Runs,
         Shared!Lapsed, Lifecycle!Lapsed
<1> QED
  BY <1>1, <1>2
     DEF Shared!Pass, Lifecycle!Pass, Shared!Sweep, Lifecycle!Sweep,
         Shared!MoveEnd, Lifecycle!MoveEnd, Shared!Open, Lifecycle!Open,
         Shared!Runs, Lifecycle!Runs, Shared!OthersKeepEnd,
         Lifecycle!OthersKeepEnd, Shared!lifecycle, Seen

\* Who is admitted to which session.
Admissions == [t \in Thread |-> Admitted(t)]

\* The step is one of SharedLifecycle, or of nobody's concern.
SharedStep == Shared!SharedNext \/ UNCHANGED <<Seen, Admissions>>

AdmittedAt == {<<"gate", 2>>, <<"mutex", 2>>, <<"body", 2>>, <<"write", 1>>}

LEMMA NotAdmitted ==
    ASSUME NEW t \in Thread, at[t] \notin AdmittedAt \/ call[t].op \notin {"prolong", "remove"}
    PROVE  Admitted(t) = {}
BY DEF Admitted, AdmittedAt

LEMMA OthersStay ==
    ASSUME TInv, NEW t \in Thread, Proceed(t), NEW u \in Thread \ {t}
    PROVE  Admitted(u)' = Admitted(u)
<1>1. at'[u] = at[u] /\ call'[u] = call[u]
  <2>0. at \in [Thread -> Places] /\ call \in [Thread -> Request \cup {NoCall}]
    BY DEF TInv, ThreadsTyped
  <2>1. CASE Gate(t) \/ Mutex(t) \/ Unlock(t) \/ Open(t)
    BY <2>0, <2>1 DEF Gate, Mutex, Unlock, Open, Below, GoTo
  <2>2. CASE Whole(t) \/ Find(t) \/ Fits(t) \/ RemoveWrite(t) \/ Session(t)
    BY <2>0, <2>2 DEF Whole, Find, Fits, RemoveWrite, Session, Fail, Return, GoOn, GoTo
  <2>3. CASE FindKey(t) \/ ProlongKeyWrite(t) \/ WriteValue(t) \/ CountWrite(t)
    BY <2>0, <2>3 DEF FindKey, ProlongKeyWrite, WriteValue, CountWrite, Touch, Fail,
                Return, GoOn, GoTo
  <2>4. CASE CheckWrite(t) \/ LimitRead(t)
    BY <2>0, <2>4 DEF CheckWrite, LimitRead, PassLimiter, Touch, Fail, Return, GoOn, GoTo
  <2>5. CASE ReadValue(t) \/ ReadCounters(t)
    BY <2>0, <2>5 DEF ReadValue, ReadCounters, GoTo
  <2> QED
    BY <2>1, <2>2, <2>3, <2>4, <2>5 DEF Proceed
<1> QED
  BY <1>1 DEF Admitted

LEMMA SameAdmissions ==
    ASSUME TInv, NEW t \in Thread, Proceed(t), Admitted(t)' = Admitted(t)
    PROVE  UNCHANGED Admissions
BY OthersStay DEF Admissions

\* A step that moves no end lets time pass, at most.
LEMMA CalmLifecycle ==
    ASSUME TInv, CalmEffect
    PROVE  Shared!Pass \/ UNCHANGED Seen
<1>1. Stored' = Stored
  BY DEF CalmEffect, EndsKept, Stored
<1>2. Ends' = Ends
  BY <1>1 DEF CalmEffect, EndsKept, Ends, Stored
<1>3. limit' = limit /\ (now' = now \/ now' = now + 1)
  BY DEF CalmEffect, StepEffect, Onwards, TInv, IInv, TypeOK
<1> QED
  BY <1>1, <1>2, <1>3, PassStep, SharedActions DEF Seen

LEMMA CalmShared ==
    ASSUME TInv, CalmEffect, UNCHANGED Admissions
    PROVE  SharedStep
BY CalmLifecycle DEF SharedStep, Shared!SharedNext, Admissions

LEMMA SearchShared ==
    ASSUME TInv, NEW t \in Thread, Find(t)
    PROVE  SharedStep
<1> DEFINE s == call[t].s
<1>1. /\ at[t] = <<"body", 1>> /\ UNCHANGED <<now, list, limit, call>>
      /\ at \in [Thread -> Places]
  BY DEF Find, Fail, Refuse, Return, GoOn, Quietly, vars, table, TInv, ThreadsTyped
<1>2. Admitted(t) = {} /\ UNCHANGED Seen
  BY <1>1, NotAdmitted DEF AdmittedAt, Seen, Stored, Ends
<1>3. CASE /\ Found(s) /\ call[t].op \in {"prolong", "remove"}
           /\ at'[t] \in AdmittedAt
  <2>1. s \in SessionId
    BY <1>1, <1>3, ThreadAt, RequestFields DEF Fitting, Idle, SessionOps
  <2>2. s \in Lifecycle!Live
    BY <1>3, <2>1, LiveIsFound DEF Found, Stored
  <2>3. Admissions' = [Admissions EXCEPT ![t] = {s}]
    <3>1. Admitted(t)' = {s}
      BY <1>1, <1>3 DEF Admitted, AdmittedAt
    <3> QED
      BY <3>1, OthersStay DEF Admissions, Proceed
  <2>4. s \in Shared!Live
    BY <2>2, SharedActions
  <2>5. UNCHANGED Shared!lifecycle
    BY <1>2 DEF Shared!lifecycle, Seen
  <2>6. Admissions[t] = {}
    BY <1>2 DEF Admissions
  <2>7. Shared!Admit(t, s)
    BY <2>3, <2>4, <2>5, <2>6, Zenon DEF Shared!Admit, Admissions
  <2> QED
    BY <2>1, <2>7 DEF SharedStep, Shared!SharedNext
<1>4. CASE at'[t] \notin AdmittedAt \/ call[t].op \notin {"prolong", "remove"}
  <2>1. Admitted(t)' = Admitted(t)
    BY <1>1, <1>2, <1>4 DEF Admitted, AdmittedAt
  <2> QED
    BY <1>2, <2>1, SameAdmissions DEF SharedStep, Proceed
<1>5. CASE ~Found(s)
  <2>1. at'[t] \notin AdmittedAt
    BY <1>1, <1>5 DEF Find, Fail, Return, GoTo, AdmittedAt
  <2> QED
    BY <1>4, <2>1
<1> QED
  BY <1>3, <1>4, <1>5

\* The end of a session is moved by the thread that is admitted to it.
LEMMA MoveShared ==
    ASSUME TInv, NEW t \in Thread, Proceed(t), at'[t] \notin AdmittedAt,
           NEW s \in SessionId, Admitted(t) = {s}, list[s] # NoItem,
           NEW op \in {"prolong", "remove"}, NEW e \in Nat, e = 0 \/ e >= now,
           Update(op, [list EXCEPT ![s].tsEnd = e])
    PROVE  SharedStep
<1>1. Lifecycle!MoveEnd(s)
  <2>1. TypeOK /\ s \in Stored
    BY DEF TInv, IInv, Stored
  <2> QED
    BY <2>1, MoveEndStep
<1>2. Admitted(t)' = {}
  BY DEF Admitted, AdmittedAt
<1>3. Admissions' = [Admissions EXCEPT ![t] = {}]
  BY <1>2, OthersStay DEF Admissions
<1>4. Shared!MoveEnd(s) /\ s \in Admissions[t]
  BY <1>1, SharedActions DEF Admissions
<1>5. Shared!ExtendLate(t, s)
  BY <1>3, <1>4, Zenon DEF Shared!ExtendLate, Admissions
<1> QED
  BY <1>5 DEF SharedStep, Shared!SharedNext

LEMMA RemoveShared ==
    ASSUME TInv, NEW t \in Thread, RemoveWrite(t)
    PROVE  SharedStep
<1>1. /\ at[t] = <<"write", 1>> /\ Update("remove", [list EXCEPT ![call[t].s].tsEnd = 0])
      /\ at' = [at EXCEPT ![t] = <<"unlock", 1>>]
  BY DEF RemoveWrite, Return, GoTo
<1>2. Fitting(at[t], call[t]) /\ Uses(at[t], call[t], list) /\ at[t] # Idle
  BY <1>1, ThreadAt DEF Idle
<1>3. call[t].op = "remove" /\ call[t].s \in SessionId /\ list[call[t].s] # NoItem
  BY <1>1, <1>2, RequestFields DEF Fitting, Uses
<1>4. at'[t] \notin AdmittedAt /\ Admitted(t) = {call[t].s}
  BY <1>1, <1>3 DEF TInv, ThreadsTyped, AdmittedAt, Admitted
<1> QED
  BY <1>1, <1>3, <1>4, MoveShared DEF Proceed

LEMMA SessionShared ==
    ASSUME TInv, ClockFits, NEW t \in Thread, Session(t)
    PROVE  SharedStep
<1>1. /\ at[t] = <<"body", 2>> /\ call' = call
      /\ at' = [at EXCEPT ![t] = <<"unlock", 2>>]
  BY DEF Session, GoTo
<1>2. at'[t] \notin AdmittedAt
  BY <1>1 DEF TInv, ThreadsTyped, AdmittedAt
<1>3. CASE call[t].op = "prolong"
  <2> DEFINE e == IF call[t].lifetime # 0 THEN now + call[t].lifetime ELSE FarEnd
  <2>1. call[t].lifetime \in Lifetime
    BY <1>1, <1>3, AtSession, RequestFields
  <2>2. e \in Nat /\ e >= now
    BY <2>1, ProlongedRuns DEF TInv, IInv, TypeOK
  <2>3. Update("prolong", [list EXCEPT ![call[t].s].tsEnd = e])
    BY <1>3 DEF Session
  <2>4. Admitted(t) = {call[t].s}
    BY <1>1, <1>3 DEF Admitted
  <2> HIDE DEF e
  <2> QED
    BY <1>1, <1>2, <2>2, <2>3, <2>4, AtSession, MoveShared DEF Proceed
<1>4. CASE call[t].op # "prolong"
  <2>1. call[t].op # "remove"
    BY <1>1, AtSession DEF SessionOps
  <2>2. Admitted(t) = {} /\ Admitted(t)' = {}
    BY <1>1, <1>2, <1>4, <2>1, NotAdmitted DEF Admitted, AdmittedAt
  <2>3. CalmEffect
    BY <1>4, SessionEffect DEF CalmEffect
  <2> QED
    BY <2>2, <2>3, SameAdmissions, CalmShared DEF Proceed
<1> QED
  BY <1>3, <1>4

\* With the list held exclusively nobody is admitted to any session.
LEMMA WholeShared ==
    ASSUME TInv, NEW t \in Thread, Whole(t)
    PROVE  SharedStep
<1> DEFINE c == call[t]
<1>1. /\ at[t] = <<"body", 1>> /\ call' = call
      /\ at' = [at EXCEPT ![t] = <<"unlock", 1>>]
  BY DEF Whole, GoTo
<1>2. at'[t] \notin AdmittedAt /\ at[t] \notin AdmittedAt
  BY <1>1 DEF TInv, ThreadsTyped, AdmittedAt
<1>3. \A u \in Thread : Admitted(u) = {}
  <2>1. \A u \in Thread \ {t} : Taken(at[u]) = 0
    BY WholeAlone
  <2>2. \A p \in AdmittedAt : Taken(p) # 0
    BY DEF AdmittedAt, Taken
  <2> QED
    BY <1>2, <2>1, <2>2, NotAdmitted
<1>4. UNCHANGED Admissions
  BY <1>2, <1>3, SameAdmissions DEF Admitted, AdmittedAt, Proceed
<1>5. Shared!Awaited = {}
  BY <1>3 DEF Shared!Awaited
<1>6. c \in Request /\ IInv /\ limit # Unset
  BY <1>1, ThreadAt DEF Fitting, Idle, TInv
<1>7. ASSUME NEW s \in SessionId, Lifecycle!Open(s) \/ UNCHANGED Seen
      PROVE  SharedStep
  BY <1>4, <1>5, <1>7, SharedActions DEF SharedStep, Shared!SharedNext, Admissions
<1>8. CASE c.op = "add" /\ Add(c.s, c.lifetime)
  <2>1. c.s \in SessionId /\ c.lifetime \in Lifetime
    BY <1>6, <1>8, RequestFields
  <2> QED
    BY <1>6, <1>7, <1>8, <2>1, AddStep
<1>9. CASE c.op = "generate" /\ \E s \in SessionId : Generate(s, c.lifetime)
  <2>1. c.lifetime \in Lifetime
    BY <1>6, <1>9, RequestFields
  <2> QED
    BY <1>6, <1>7, <1>9, <2>1, AddStep
<1>10. CASE c.op = "clearInactive" /\ ClearInactive
  <2>1. Shared!Sweep
    BY <1>6, <1>10, SweepStep, SharedActions
  <2> QED
    BY <1>4, <1>5, <2>1 DEF SharedStep, Shared!SharedNext, Admissions
<1>11. CASE \/ c.op = "removeAllKey" /\ RemoveAllKey(c.k)
            \/ c.op = "addAllKey" /\ AddAllKey(c.k, c.d)
  <2>1. AllKeyOperation
    BY <1>6, <1>11, RequestFields DEF AllKeyOperation
  <2>2. UNCHANGED Seen
    BY <1>6, <2>1, KeyStepEffect, SameSeen DEF IInv, KeyEffect
  <2> QED
    BY <1>4, <2>2 DEF SharedStep
<1> QED
  BY <1>8, <1>9, <1>10, <1>11 DEF Whole

\* A step that works on a value stays at the third level.
LEMMA TouchGoesOn ==
    ASSUME NEW t, NEW v, NEW step, Touch(t, v, step)
    PROVE  GoTo(t, step, 3)
BY DEF Touch, GoOn

LEMMA PassGoesOn ==
    ASSUME NEW t, NEW limiter, NEW cap, NEW step, PassLimiter(t, limiter, cap, step)
    PROVE  GoTo(t, step, 3)
BY TouchGoesOn DEF PassLimiter

LEMMA ValueStepStays ==
    ASSUME NEW t,
           \/ ProlongKeyWrite(t) \/ CheckWrite(t) \/ WriteValue(t) \/ CountWrite(t)
           \/ LimitRead(t) \/ ReadValue(t) \/ ReadCounters(t)
    PROVE  /\ at[t][2] = 3
           /\ \E step \in {"unlock", "write", "count", "read", "answer"} : GoTo(t, step, 3)
<1>1. CASE ProlongKeyWrite(t)
  BY <1>1 DEF ProlongKeyWrite, Return
<1>2. CASE WriteValue(t)
  BY <1>2, TouchGoesOn DEF WriteValue
<1>3. CASE CountWrite(t)
  BY <1>3 DEF CountWrite, Return
<1>4. CASE CheckWrite(t)
  BY <1>4, PassGoesOn DEF CheckWrite, Fail, Return
<1>5. CASE LimitRead(t)
  BY <1>5, PassGoesOn DEF LimitRead, Fail, Return
<1>6. CASE ReadValue(t) \/ ReadCounters(t)
  BY <1>6 DEF ReadValue, ReadCounters
<1> QED
  BY <1>1, <1>2, <1>3, <1>4, <1>5, <1>6

\* The other steps neither admit a call nor end its admission.
LEMMA CalmAdmission ==
    ASSUME TInv, NEW t \in Thread, CalmStep(t), ~Find(t)
    PROVE  Admitted(t)' = Admitted(t)
<1>0. /\ at \in [Thread -> Places] /\ call \in [Thread -> Request \cup {NoCall}]
      /\ Fitting(at[t], call[t])
  BY ThreadAt DEF TInv, ThreadsTyped
<1>1. CASE Gate(t) \/ Mutex(t)
  BY <1>0, <1>1 DEF Gate, Mutex, GoTo, Admitted
<1>2. CASE Unlock(t) \/ Open(t)
  BY <1>0, <1>2 DEF Unlock, Open, Below, GoTo, Idle, Admitted
<1>3. CASE Fits(t) \/ FindKey(t)
  <2>1. at[t] \in {<<"fits", 1>>, <<"body", 2>>} /\ call' = call /\ at[t] # Idle
    BY <1>3 DEF Fits, FindKey, Fail, Return, GoOn, Idle
  <2>2. call[t].op \notin {"prolong", "remove"}
    BY <1>0, <1>3, <2>1 DEF Fits, FindKey, Fitting, Exclusive, SessionOps
  <2> QED
    BY <2>1, <2>2 DEF Admitted
<1>4. CASE \/ ProlongKeyWrite(t) \/ CheckWrite(t) \/ WriteValue(t) \/ CountWrite(t)
           \/ LimitRead(t) \/ ReadValue(t) \/ ReadCounters(t)
  <2>1. at[t][2] = 3 /\ at'[t][2] = 3
    BY <1>0, <1>4, ValueStepStays DEF GoTo
  <2> QED
    BY <2>1 DEF Admitted
<1> QED
  BY <1>1, <1>2, <1>3, <1>4 DEF CalmStep

LEMMA NextShared ==
    ASSUME TInv, ClockFits, [ThreadedNext]_allVars
    PROVE  SharedStep
<1>1. CASE UNCHANGED allVars
  BY <1>1 DEF allVars, vars, threadVars, SharedStep, Seen, Stored, Ends, Admissions,
              Admitted
<1>2. ASSUME NEW t \in Thread, Proceed(t)
      PROVE  SharedStep
  <2>1. CASE CalmStep(t) /\ ~Find(t)
    BY <1>2, <2>1, CalmStepEffect, CalmAdmission, SameAdmissions, CalmShared
  <2> QED
    BY <1>2, <2>1, SearchShared, RemoveShared, SessionShared, WholeShared
       DEF Proceed, CalmStep
<1>3. ASSUME NEW t \in Thread, NEW c \in Request, Begin(t, c)
      PROVE  SharedStep
  <2>1. /\ at[t] = Idle /\ at' = [at EXCEPT ![t] = <<"gate", 1>>]
        /\ call' = [call EXCEPT ![t] = c] /\ UNCHANGED vars
        /\ at \in [Thread -> Places] /\ call \in [Thread -> Request \cup {NoCall}]
    BY <1>3 DEF Begin, GoTo, Quietly, TInv, ThreadsTyped
  <2>2. \A u \in Thread : Admitted(u)' = Admitted(u)
    BY <2>1 DEF Admitted, Idle
  <2> QED
    BY <2>1, <2>2 DEF SharedStep, vars, Seen, Stored, Ends, Admissions
<1>4. CASE Tick /\ UNCHANGED threadVars
  <2>1. now' = now + 1 /\ UNCHANGED <<Stored, Ends, limit>>
    BY <1>4 DEF Tick, table, Stored, Ends
  <2>2. UNCHANGED Admissions
    BY <1>4 DEF threadVars, Admissions, Admitted
  <2> QED
    BY <2>1, <2>2, PassStep, SharedActions
       DEF SharedStep, Shared!SharedNext, Admissions
<1> QED
  BY <1>1, <1>2, <1>3, <1>4 DEF ThreadedNext

LEMMA InitShared == ThreadedInit => Shared!SharedInit
<1> SUFFICES ASSUME ThreadedInit PROVE Shared!SharedInit
  OBVIOUS
<1>1. Shared!Cardinality(Stored) = Cardinality(Stored)
  BY DEF Shared!Cardinality, Cardinality
<1>2. \A t \in Thread : Admitted(t) = {}
  BY NotAdmitted DEF ThreadedInit, Idle, AdmittedAt
<1> QED
  BY <1>1, <1>2 DEF ThreadedInit, Shared!SharedInit

\* The threads together keep the promises of SessionLifecycle, but that one may
\* bring back a session that lapsed while it waited, once for its check.
THEOREM ThreadsImplementSharedLifecycle ==
    ASSUME StartTime <= FarEnd, MaxTime <= FarEnd
    PROVE  ThreadedSpec => ImplementsSharedLifecycle
<1>1. ThreadedInit => ClockFits
  BY DEF ThreadedInit, ClockFits
<1>2. TInv /\ ClockFits /\ [ThreadedNext]_allVars => ClockFits'
  BY ClockFitsStep
<1>3. TInv /\ ClockFits /\ [ThreadedNext]_allVars => [Shared!SharedNext]_(Shared!shared)
  <2>1. SharedStep => [Shared!SharedNext]_(Shared!shared)
    BY Zenon DEF SharedStep, Shared!shared, Shared!lifecycle, Seen, Admissions
  <2> QED
    BY <2>1, NextShared
<1> QED
  BY <1>1, <1>2, <1>3, InitShared, ThreadedInvariance, PTL
     DEF ThreadedSpec, ImplementsSharedLifecycle, Shared!SharedSpec
===============================================================================
