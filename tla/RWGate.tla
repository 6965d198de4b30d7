-------------------------------- MODULE RWGate --------------------------------
(***************************************************************************)
(* The lock the multi-threaded build puts on the list, on every session    *)
(* and on every value: a counter of writers, std::atomic_uint, in front of *)
(* a std::shared_timed_mutex.  A writer raises the counter (LockAtomic),   *)
(* then takes the mutex exclusively; a reader spins until the counter is   *)
(* zero (Store::_wait), then takes the mutex shared.  Guards are destroyed *)
(* in reverse order: the mutex goes first, the counter after it.           *)
(*                                                                         *)
(* The mutex itself promises exclusion and nothing of who comes next.      *)
(***************************************************************************)
EXTENDS Naturals

FreeLock == [gate |-> 0, owner |-> {}, readers |-> {}]

\* Mutant: the readers do not wait.
GateIgnored(lock) == TRUE

\* _wait: the loop `while( atom )` falls through.
GateOpen(lock) == lock.gate = 0

\* LockAtomic's constructor
CloseGate(lock) == [lock EXCEPT !.gate = @ + 1]

\* Mutant: the counter is not lowered again.
GateStuck(lock) == lock

\* LockAtomic's destructor
OpenGate(lock) == [lock EXCEPT !.gate = @ - 1]

MutexFree(lock, mode) ==
    lock.owner = {} /\ (mode = "exclusive" => lock.readers = {})

\* Mutant: everybody takes the mutex shared.
TakeShared(lock, t, mode) == [lock EXCEPT !.readers = @ \cup {t}]

TakeMutex(lock, t, mode) ==
    IF mode = "exclusive" THEN [lock EXCEPT !.owner = {t}]
                          ELSE [lock EXCEPT !.readers = @ \cup {t}]

LeaveMutex(lock, t, mode) ==
    IF mode = "exclusive" THEN [lock EXCEPT !.owner = {}]
                          ELSE [lock EXCEPT !.readers = @ \ {t}]
==============================================================================
