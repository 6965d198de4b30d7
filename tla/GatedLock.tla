------------------------------ MODULE GatedLock ------------------------------
(***************************************************************************)
(* Threads that read and write under one RWGate lock, over and over: the   *)
(* pattern every operation of the multi-threaded Store repeats on up to    *)
(* three locks.  Readers come back for ever; each writer makes MaxWrites   *)
(* calls, since two writers that never pause keep the gate shut for ever   *)
(* and the readers out.                                                    *)
(***************************************************************************)
EXTENDS RWGate, FiniteSets

CONSTANTS
    Reader,     \* the threads that take the lock shared
    Writer,     \* the threads that take it exclusively
    MaxWrites   \* bound: how often each writer does

VARIABLES
    lock,       \* the atomic counter and the mutex
    at,         \* where each thread is in its call
    writes,     \* how many calls each writer has begun
    past        \* history: how often each reader got in past a waiting writer

vars == <<lock, at, writes, past>>

Thread == Reader \cup Writer

ASSUME ThreadAssumption ==
    IsFiniteSet(Thread) /\ Reader \cap Writer = {} /\ MaxWrites \in Nat

Mode(t) == IF t \in Writer THEN "exclusive" ELSE "shared"

GoTo(t, place) == at' = [at EXCEPT ![t] = place]

NoneYet == [r \in Reader |-> 0]

-------------------------------------------------------------------------------
Init ==
    /\ lock = FreeLock
    /\ at = [t \in Thread |-> "idle"]
    /\ writes = [t \in Writer |-> 0]
    /\ past = [t \in Writer |-> NoneYet]

\* A reader's call begins with the spin on the counter.
BeginRead(t) ==
    /\ at[t] = "idle"
    /\ GoTo(t, "gate")
    /\ UNCHANGED <<lock, writes, past>>

PassGate(t) ==
    /\ at[t] = "gate" /\ GateOpen(lock)
    /\ GoTo(t, "mutex")
    /\ UNCHANGED <<lock, writes, past>>

\* A writer's call begins with raising the counter.
BeginWrite(t) ==
    /\ at[t] = "idle" /\ writes[t] < MaxWrites
    /\ lock' = CloseGate(lock)
    /\ writes' = [writes EXCEPT ![t] = @ + 1]
    /\ GoTo(t, "mutex")
    /\ UNCHANGED past

\* A reader that gets in gets past every writer that waits; what a writer was
\* made to wait is forgotten when it gets in itself.  2 stands for more than once.
NotePassing(t) ==
    past' = [w \in Writer |->
               IF t \in Reader /\ at[w] = "mutex"
                 THEN [past[w] EXCEPT ![t] = IF @ = 0 THEN 1 ELSE 2]
                 ELSE IF t = w THEN NoneYet ELSE past[w]]

Enter(t) ==
    /\ at[t] = "mutex" /\ MutexFree(lock, Mode(t))
    /\ lock' = TakeMutex(lock, t, Mode(t))
    /\ GoTo(t, "inside")
    /\ NotePassing(t)
    /\ UNCHANGED writes

Exit(t) ==
    /\ at[t] = "inside"
    /\ lock' = LeaveMutex(lock, t, Mode(t))
    /\ GoTo(t, IF t \in Writer THEN "outside" ELSE "idle")
    /\ UNCHANGED <<writes, past>>

LowerGate(t) ==
    /\ at[t] = "outside"
    /\ lock' = OpenGate(lock)
    /\ GoTo(t, "idle")
    /\ UNCHANGED <<writes, past>>

\* The steps of a call that has begun.
Proceed(t) == PassGate(t) \/ Enter(t) \/ Exit(t) \/ LowerGate(t)

Next ==
    \/ \E t \in Reader : BeginRead(t)
    \/ \E t \in Writer : BeginWrite(t)
    \/ \E t \in Thread : Proceed(t)

Spec == Init /\ [][Next]_vars

\* The scheduler runs every thread, and the mutex, when it stays free, lets
\* its waiter in.  No thread has to begin a call.
FairSpec == Spec /\ \A t \in Thread : WF_vars(Proceed(t))

-------------------------------------------------------------------------------
TypeOK ==
    /\ lock \in [gate : Nat, owner : SUBSET Writer, readers : SUBSET Reader]
    /\ at \in [Thread -> {"idle", "gate", "mutex", "inside", "outside"}]
    /\ writes \in [Writer -> 0 .. MaxWrites]
    /\ past \in [Writer -> [Reader -> 0 .. 2]]

\* Writers between raising the counter and lowering it.
Engaged == {w \in Writer : at[w] # "idle"}

\* The counter never drifts: it is the number of writers engaged, zero once
\* they have all gone, so a reader is kept out only by a writer at work.
GateCountsWriters == lock.gate = Cardinality(Engaged)

\* What the gate is for: from the moment a writer has raised the counter, no
\* reader gets in past it twice, however the mutex chooses among its waiters.
OvertakenOnce == \A w \in Writer, r \in Reader : past[w][r] <= 1

\* Readers that keep coming do not starve a writer: the gate is there for it.
WriterGetsIn == \A w \in Writer : at[w] = "mutex" ~> at[w] = "inside"

\* A reader gets in once the writers have done their calls.
ReaderGetsIn == \A r \in Reader : at[r] = "gate" ~> at[r] = "inside"
==============================================================================
