# MemSess in TLA+

MemSess (`src/`) is a small C++ service that keeps web sessions in memory: a
client speaks a binary protocol over TCP, opens sessions with a lifetime and
stores keys in them. The server is built in two ways: `make mono`, one event
loop in one thread, and `make multi`, where every thread runs an event loop of
its own and all of them call one shared `Store`.

This directory holds TLA+ modules that model it, TLC configurations that check
them on small instances, and proofs that TLAPS checks for every instance.

    tlc -workers 2 -config MC_store_sessions.cfg MCSessionStore
    tlapm SessionStoreProofs.tla

`PROJECT.json` lists the runs, the lines of the source behind each definition
(`map`), a deliberate bug that each property catches (`mutants`), the hazards
of the code, the disagreements found and the theorems.

## The system

| component | state | operations | called by |
|---|---|---|---|
| `Store` (`core/store.hpp`) | `_list` (session id to `Item`: end, counter, map of keys to `Value`: bytes, end, counter, two limiters), `_count`, `_limit`, a lock per list, item and value | 5 on sessions, 7 on keys of one session, 2 on a key of all, `setLimit`, `clearInactive` | the controller; `start()` |
| limiter (`Store::incLimiter`) | per value, per limit named: second and count | one per read or write | `getKey`, `setKey`, `setForceKey` |
| gated lock (`util/lock_atomic.hpp`, `Store::_wait`) | counter of writers, shared mutex | lock and unlock, in two modes | every operation of the store |
| `ServerController` (`core/server_controller.hpp`) | none of its own | `parse` one request, `interval` | the event loops |
| `Monitoring` (`core/monitoring.hpp`) | some sixty atomic counters | `inc...`, `update...`, `getData` | controller, server, store |
| `Server` (`core/server.hpp`) | a read and a write buffer per connection | accept, read, write, close, timer (60 s, first thread only) | libevent |
| `Serialization`, `UUID` (`util/`) | none | pack and unpack, text to bytes and back | controller, store |
| `Cmd`, `start()` (`core/cmd.hpp`, `memsess_server.cpp`) | the options | parse the command line, set the limit, start the threads | the shell |

A request comes in through `Server::read`, which collects a length and a body
and calls `ServerController::parse`; that unpacks it, calls one operation of
the store, counts the outcome in `Monitoring` and packs an answer, which `read`
and `write` send. Nothing is persisted: a restart begins with an empty store.
There is one timer, for the sweep of expired sessions and keys.

What is hard:

* **Time.** Expiry is lazy. A session or key past its end is still in the maps
  until a sweep, each operation decides for itself whether it "is there", and
  an end of 0 stands for "no end" in some tests and for "long past" in others.
* **A count beside a map.** `_count`, `_limit` and `totalFreeSessions` live
  apart from the map whose size they describe, in unsigned arithmetic, with
  tests for equality.
* **Optimistic writes.** `setKey` compares two 32-bit counters, kept in two
  records, that a client read any time ago, to tell whether the value is the
  one read; sessions and keys are replaced and put back in between.
* **Three levels of locks**, each a counter in front of a mutex, taken in two
  modes and dropped on every early return; raw pointers into the maps; end
  times read before waiting for a lock and used after it.
* **Writers that must not starve**, with readers that spin.
* **Bytes in any portions.** One callback reads what has arrived of a request
  and sends what the socket takes of an answer; two buffers and two events, one
  of them not persistent, carry the rest over to the next callback.
* **Counters that others move.** Sixty atomics, counted one by one after the
  store has answered, copied one by one while other threads count.
* **Frames by offsets**: the length of one field says where the next begins.

`PROJECT.json` lists these one by one, at their lines, under `hazards`.

## What each component must do

* Store, sequential: never hold more sessions than the limit; count soundly;
  never drop a live session or readable key but by removal, by age; never let a
  dead one back in; free what expired; report the free places.
* Limiter: within one second, no more accepted calls than the limit named.
* Optimistic protocol: a stale `setKey` loses.
* Lock: an exact counter, no starvation of writers, readers served when the
  writers are done.
* Store, multi-threaded: the same promises, but for a caller that waited (see
  `SharedLifecycle`); no record destroyed under a thread
  that uses it; reads of one moment; no lost update; every call returns.
* Server: every byte of every answer goes out once and in order; a client that
  keeps to the protocol is not turned away; what arrives is read; the traffic
  counted is the traffic there was.
* Controller and monitoring: every call of the store is counted once, under its
  own operation, and every failure once, as the error it was; an answer tells
  what the store did; the statistics are off by no more than the requests in progress.
* Serialization and UUID: a frame is taken for the request it was made from, an
  identifier included, and a mangled frame for none.

## Modules

| module | what it is |
|---|---|
| `Limiter` | `incLimiter` as operators on one limiter |
| `SessionLifecycle` | abstract: a table of identifiers with ends, a clock and a cap |
| `SharedLifecycle` | abstract: the same table when callers wait between finding a session and moving its end |
| `SessionStore` | `Store`, one action per operation; refines `SessionLifecycle` |
| `OptimisticClient` | a client with remembered counters, over `SessionStore` |
| `RWGate` | `LockAtomic`, `_wait` and the shared mutex as operators on one lock |
| `GatedLock` | any number of readers and writers on one `RWGate` |
| `ThreadedStore` | the operations of `SessionStore` as threads run them, under the `RWGate` locks; refines `SharedLifecycle` |
| `AnswerStream` | abstract: what a client reads from one connection |
| `ServerConnection` | one connection of `Server`, its client and the network; refines `AnswerStream` |
| `Serialization`, `UUID` | `pack` and `unpack`, text to bytes and back, as operators |
| `Protocol` | the tables of `ServerController`: commands, frames, errors, which counter an outcome moves |
| `Monitoring` | the counters of requests and errors, and the order `getData` copies them in |
| `Controller` | `parse` as several threads run it, over `SessionStore` and `Monitoring` |
| `SessionStoreProofs`, `SessionKeysProofs`, `OptimisticClientProofs`, `GatedLockProofs`, `ServerConnectionProofs`, `PoliteClientProofs`, `ThreadedStoreProofs`, `ControllerProofs` | theorems |
| `MCSessionStore`, `MCOptimisticClient`, `MCGatedLock`, `MCThreadedStore`, `MCServerConnection`, `MCController` | symmetry, views and byte strings for TLC |

`ThreadedStore` extends `SessionStore` and `RWGate` and instantiates
`SharedLifecycle`, which extends `SessionLifecycle`; `SessionStore` extends
`Limiter` and instantiates `SessionLifecycle`; `OptimisticClient` extends
`SessionStore`; `GatedLock` extends `RWGate`; `ServerConnection` instantiates
`AnswerStream`; `Controller` extends `SessionStore` and `Monitoring` and
instantiates `Protocol`, which instantiates `Serialization` and `UUID`.

The two halves of the server meet at one place: `Server::read` hands a whole
frame to `parse` and gets an answer back. `ServerConnection` knows of the
controller only that it answers a frame with some number of bytes, and
`Controller` of the server only that whole frames come, from any connection to
any thread. A connection belongs to one event loop, and loops share nothing but
the controller, so each half is checked with everything the other may do to it.

### SessionStore

`list` is `_list`: a function that gives each identifier an item or `NoItem`.
An item is a record of the fields of `Store::Item`, and its `values` gives each
key a record of the fields of `Store::Value` or `NoValue`; a limiter gives each
limit the window opened for it. `count`, `limit` and `totalFree` are `_count`,
`_limit` and the number the store last told `Monitoring`. `now` is the clock.

Each public operation is one action, with a disjunct per return statement in
the order of the code (`Refuse` for those that change nothing); `reply` holds
the operation and its `Result`. `Generate` takes any identifier not stored,
which is what the loop around the random `UUID::generate` ends with. A value is
a member of `Data`, its length included. `clearInactive` is one action: the code
holds the list exclusively throughout.

Choices a reader may wonder about:

* The clock ticks between operations, not within one (except in
  `ThreadedStore`), and never goes back.
* 0xFFFFFFFF, written by `prolong`, is `UIntMod - 1`: a time, far away. The
  proofs of `NothingLostSilently` and of the two refinements assume that the
  clock has not passed it.
* `add` counts a session even when it replaces an expired one; `remove` sets the
  end to 0; `addAllKey` and `removeAllKey` skip sessions whose end is 0. This is
  what the code does; see "Disagreements".
* Record and key counters move modulo `UIntMod`, but `MaxCounter` keeps the
  runs below the point where they wrap.

### SessionLifecycle, SharedLifecycle and the refinements

`SessionLifecycle` has the identifiers in the table (`held`), the end of each
(`ends`), a clock (`time`), the limit (`cap`) and the name of the operation just
carried out (`done`). A session lapses when `Pass` moves the clock over its end,
and in no other way: every other step must leave it an end that has not passed.
`Open` takes a free place while there is one, or, as `add` only, a session that
lapsed; `Extend` moves the end of a session that is live, as `prolong` or `remove`;
`Sweep` takes out exactly those that lapsed. Every end but that of the session a
step is about stays. So a `prolong` or `remove` without its test of the end, an
end written in the past, a live session replaced or dropped, and an expired one
let back in are no steps of it.

`SessionStore` implements it with `held` the identifiers stored, `ends` their
`tsEnd` (an operator, `Ends`), `time` the clock, `cap` the limit and `done` the
operation in `reply`. Everything on keys stutters.

`SharedLifecycle` is for several callers. `Admit` notes that a caller has found a
session live; `ExtendLate` moves its end later, live or not, once for each
`Admit`. While a session that has lapsed is awaited so, nobody may sweep and
nobody may take it over. `ThreadedStore` implements it: a thread is admitted
(`Admitted`) from the moment `prolong` or `remove` has passed `checkActualTs`
until it has written `tsEnd`, waiting for the session's lock included.

### OptimisticClient

One client keeps a token: which key it read, the value, and the two counters
that `getKey` or `addKey` answered. Everybody else (and it) makes any move of
`SessionStore`. Ghost fields of the token note whether the key was written or
removed since (`changed`), whether the session was gone for a while (`lost`),
and whether `addAllKey` put the key back (`reinstalled`).

### RWGate and GatedLock

A lock is its atomic counter, the exclusive owner and the shared holders of the
mutex. Raising the counter, waiting for it, taking the mutex and each half of
the release are separate actions, as they are separate instructions. The mutex
is external (`std::shared_timed_mutex`): it promises exclusion, which is
therefore no property of this model, and nothing about who is next.

The gate is there so that readers do not keep a writer waiting. `WriterGetsIn`
says so in the long run, `OvertakenOnce` in numbers: from the moment a writer
has raised the counter, each reader gets in past it once at most, if it was
through the gate already. The history variable `past` counts that, up to two.

### ThreadedStore

A thread is at `<<step, level>>`, where level 1 is the list, 2 the session and
3 the value; `Exclusive` says which operations take which level exclusively.
Every operation is the same walk: `Gate`, `Mutex`, then its body at that level,
then the next level or the way back (`Unlock`, `Open`), down to no lock at all.
Steps are cut wherever another thread may get in: before each lock, between
`checkActualTs` and `checkChildTs`, between the check and the late write of
`remove` and `prolong`, between the comparison, the limiter, the value and the
counter in `setKey` and `setForceKey`, and between the value and the counters in
`getKey`. With the list held exclusively nobody can get in, and the body is the
action of `SessionStore` (`Whole`).

The lock of a session or value is part of the record in the code. So is it
here: `Reset` frees the lock of a record that is erased or replaced, and would
do so under a thread that holds it. `LocksMatchThreads` and `InUseExists` say
that this never happens.

`incLimiter`, behind a mutex of its own that no other lock is taken under, is
one step, but the second may turn within it (`PassLimiter`): it reads the clock
to see whether the limit is reached, again to see whether the window is still
the current one, and a third time to stamp a new one (`store.hpp:633-649`). Whatever the
three readings were, no window may count past its limit.

A thread makes `MaxCalls` calls. The store is at the start any that `add` and
`addKey` can have made in the second before (`Loaded`), so that two calls are
enough to meet interesting states; what was given a lifetime of 1 then ends in
the first second, and is dead in the next, while calls wait.

### ServerConnection and AnswerStream

One connection, from `accept` to `close`. The variables are the fields of
`Server::SockData`: the two buffers, each a length and how much of it is
`wrLength`, whether the write event is pending, the time stamp. An event loop
runs one callback at a time, so `accept`, `read` and `write` are one action
each; `read` is the disjunction of its early returns (`NoHeader`,
`FailedHeader`, `WrongHeader`) and `Body`, which goes on to `Respond` when the
request is whole. `SendFrom` is the tail that `read` and `write` share.

The client and the network are the environment: the client asks when it likes
(`hasty` notes that it did before the last answer had come), bytes arrive in any
portions (`Deliver`), it reads in any portions (`Drain`), shuts its side or
resets. The socket takes as many bytes as there is room for. `send` and `recv`
return what they would on such a socket, -1 included, which the code then puts
into unsigned variables.

`AnswerStream` knows only the bytes that have gone out and those of the last
answer still to go, each byte named by its answer and its place in it. `Begin`
starts an answer when all before it are done, `Continue` sends on, `Close` may
cut the last one off. A client that asks on while an answer is unfinished has
its write buffer replaced with `wrLength` left standing (`server.hpp:166-170`);
`Spoil` allows for it and promises nothing from then on, and `OnlyHastySpoil`
says that it takes such a client. `read` and `write` both implement the
abstract steps, whatever the socket took.

### Controller, Protocol, Monitoring, Serialization, UUID

`parse` in steps: the frame is taken apart (`TakeFrame`, `RefuseFrame`), the
store is called (`CallStore`, one action of `SessionStore`), the outcome is
counted under its method (`CountRequest`) and, if it failed, under its error
(`CountError`); then the answer is given. Between any two of them other threads
take their steps. `getData` copies one counter a step (`CopyCounter`). `interval`
is the timer of the first thread. The store is at the start any store that a
few requests can have left.

Two history variables say what has happened: `called` counts the calls of each
operation of the store, `returned` its results. `RequestsAreCounted` compares the
counters of each operation, passed and failed, with its calls, and
`ErrorsAreCounted` those of each error with the failures of that kind, allowing
only for the threads between the store's answer and the increment. Both have
tables of their own of which counter is meant for what (`CountedAs`,
`ErrorNamed`), so a case that falls under the wrong method, or the wrong error,
in any of the switches of the controller is seen. `wrongCommand` and `wrongParams`
stay 0.

Frames are sequences of bytes, packed and unpacked as the code does, with the
16 bytes of an identifier between them; a text, a key's name and a value have
bytes of their own (`TextOf`, `NameOf`, `ContentOf`), chosen to hold high bits,
zeros and every kind of digit. The network brings any frame that a client
makes, each of these one byte short or one byte too long, and an unknown
command. A frame that a byte was taken from or added to must be refused
(`MangledRefused`), one that was not must be taken for the request it was made
from (`FramesSurvive`). The answer is packed the same way, and
`ReadAnswer` is the client that unpacks it: what it reads there must be the
result, the value and the counters the store returned (`AnswersTellOutcome`).

## Runs

All bounds are constants of the `.cfg` files. `UIntMod` is 8, so 0xFFFFFFFF is 7.
Identifiers, keys, values and threads are symmetric wherever no liveness is
checked. The views leave out `reply`, which no guard reads and which the
properties only look at in the step that writes it.

| run | question | bounds |
|---|---|---|
| `store_sessions` | Is the count sound, the limit respected, the number of free places right, the lifecycle implemented, every expired session swept? | 3 sessions, lifetimes 0, 1, 2, limits 1, 2 and 7, 5 seconds, no keys |
| `optimistic` | Does a stale `setKey` lose? Does a readable key only go by age or its own removal, and is every change in place counted? | 1 session, 2 keys, 2 values, 3 seconds, counters to 2 |
| `lock` | Is the counter exact, does no reader overtake a waiting writer twice, does everybody get in? | 3 readers that never pause, 3 writers of 2 calls |
| `threads` | Do threads keep the shared lifecycle, do locks match their users, records outlive their use, reads show one moment, compared counters hold until written, windows their limit? | 2 threads of 2 calls, 9 operations, 1 session, 1 key, 2 seconds, lifetimes 0 and 1, a store loaded in the second before, limit 2 a second |
| `threads_liveness` | Does every call return? | 2 threads of 2 calls, 13 operations that between them take every level in both modes, 1 second |
| `connection` | Do the answers come out whole and in order, are polite clients kept, requests read, traffic and times counted right? | 3 requests of 4 lengths (0 and one too long among them), answers of 1 to 3 bytes, headers of 2, a socket that holds 2 |
| `controller` | Are frames taken for what they are, calls and errors counted once and under their names, answers truthful, statistics nearly consistent? | 2 threads, 2 requests and 1 for statistics, 1 session, 1 key, 2 seconds |
| `store_refused`, `store_remove`, `store_remove_all`, `optimistic_all`, `connection_answer` | violations, see below | the smallest instances that show them |

Why the bounds are enough to be worth running: five seconds let a session of
lifetime 1 be opened in the first, be dead and replaced in the third, and be dead
again in the fifth, and a sweep come between any two; three sessions and limits
1 and 2 reach the limit in every way,
the double count included, and 7 is `UIntMod - 1`, the default of `-l`. Two keys
of one session share `counterKeys`, which is where two records could disagree.
Two calls a thread let one thread remove and add again what the other is using.
In `threads` both sessions and keys die in the second second: sweeps then destroy
the records other calls are on their way to, and a `prolong` or `remove` that was
admitted in the first second comes too late. `generate`, `addAllKey`, `removeAllKey`, `exist`,
`existKey` and `prolongKey` are left to `threads_liveness`: the first three hold the
list exclusively, as `add` and `clearInactive` do, the next two only read, and the
last moves the end of a key, which no property of `threads` speaks of.
Three writers on one lock show one waiting behind another with readers
behind both. A limit of 2 lets a window be opened, filled and overfilled by calls
of two threads at the turn of a second. Headers of two bytes can be cut in two; an answer
of three does not fit the socket of two, so it takes two sends; three requests
put a third behind an answer that took the place of another. Two requests beside
the one for statistics are the fewest that could break the margin of one in
`StatisticsAgree`: both must fail while the counters are copied. With one session and
a limit of one the limit refuses an `add` before its name can, so `duplicateSession`
is counted in the theorem only.

`CHECK_DEADLOCK FALSE` stands where a bound stops the model: the clock, the
counters, the threads' calls or the clients' requests; and a connection that is
closed is at its end. `lock` checks deadlock: its readers never stop.

### Fairness

* `SessionStore!FairSpec`: weak fairness of the sweep alone. The first thread's
  event loop has a persistent timer (`server.hpp:267-276`) whose handler calls
  `clearInactive`. Clients and the clock owe nothing.
* `GatedLock!FairSpec` and `ThreadedStore!FairThreadedSpec`: weak fairness of
  each thread's steps once its call has begun: the scheduler runs every thread.
  For the step that takes the mutex this says only that a mutex that stays free
  lets its waiter in. No thread is obliged to begin a call.

* `ServerConnection!FairSpec`: weak fairness of `accept`, `read` and `write`: a
  level-triggered event loop runs the callback of every event that is active.
  The client and the network owe nothing. `DrainedSpec`, under which
  `AnswersGoOut` fails, adds a client that keeps reading, without which an answer
  that does not go out would be nobody's fault.

Writers of `GatedLock` make a bounded number of calls, because the code does not
protect readers from writers that never pause: two of them can keep the counter
above zero for ever. Readers are unbounded, and a writer gets in in spite of
them; take the gate away (`GateIgnored`) and it does not.

## Disagreements found

Each is a run that TLC ends with a counterexample.

* `store_refused`: `add()` over an expired session replaces it but does
  `_count++` (`store.hpp:172`). The old one will never be subtracted, so the
  count stays one too high for ever, and clients are refused under a limit that
  is not reached, contrary to what `readme.md:15` says of `-l`.
* `store_remove`: `remove()` writes 0 to the end (`store.hpp:245`), which is how
  "no end" is stored: the session removed can be found for ever.
* `store_remove_all`: `removeAllKey()` (`store.hpp:685`) takes sessions without
  an end for dead and leaves the key in them. (`addAllKey` skips them as well.)
* `optimistic_all`: `addAllKey()` (`store.hpp:669`) does not move `counterKeys`
  as `addKey()` does. A key removed and put back this way has its old counters,
  and a `setKey` that ought to fail with `E_RECORD_BEEN_CHANGED` succeeds.

* `connection_answer`: the write event is added without `EV_PERSIST`, in
  `accept` only (`server.hpp:248`), and fires at once, when there is nothing to
  write. What `send()` in `read()` leaves over is never sent, however long the
  client reads, unless another request comes; `write()` (`server.hpp:179`),
  which would send it on, is not called again.

Seen while modelling, and part of the models rather than runs of their own:

* Requests that fail to parse return before any counter moves, and nothing calls
  `incErrorWrongCommand` or `incErrorWrongParams` but the code that is then not
  reached (`server_controller.hpp:822-838`): these two stay 0.
* A header that comes without any of its body closes the connection
  (`server.hpp:143-148`): `recv` has nothing more, returns -1 or 0, and either is
  taken for the end. `PoliteStays` has to excuse it (`split`).
* A `recv` that fails on a fresh request is compared with an unsigned `sizeof`
  and not found less, so the traffic counted grows by 2^32-1 (`server.hpp:124`).
  `TrafficIsCounted` says exactly that: on a connection that was reset the number
  may be too high by 2^32-1, once, and is otherwise never too high.
* `prolong` and `remove` check the end of the session and then wait for a lock (or
  are preempted), so in the multi-threaded build a session that lapsed meanwhile
  comes back to life. `SharedLifecycle` allows for this and nothing else:
  `ImplementsSharedLifecycle` says that it takes a call that had found the
  session live, once for each such call, and that the session has not been swept
  or taken over in between.

## Proofs

TLAPS checks these for every value of the constants that meets the named
assumptions (`StoreAssumption`, `NullAssumption`, `TokenAssumption`,
`ThreadAssumption`, `ThreadedAssumption`, `ConnectionAssumption`,
`BytesAssumption`, `FiniteAssumption`), which say
that identifiers, threads and keys are finitely many, that different names and
contents are different bytes, that lifetimes and limits are
numbers, that the limit given is neither 0 nor above 2^32-1 (`Cmd::_getLimit`
refuses 0), that the null values are not records, that a header has a size, that
the controller's answers are not empty and their lengths fit their type, and
that a socket takes at least one byte when it is empty.

`SessionStoreProofs`:

* `TypeCorrect`, `CountIsSound`, `FreeSessionsAreReported`, `LimitIsRespected`.
  The inductive invariant is `TypeOK /\ CountSound /\ FreeSessionsReported`.
  `LimitRespected` is not inductive: the code never looks at the size of the
  list, only at `_count`, with `==`. `CountSound` has what is missing: the count
  is at least the size, so refusing at `count = limit` is in time, and the sweep
  never subtracts below zero; and at most the limit, so equality cannot be
  jumped over. The double count of `add` is harmless to these for the same
  reason: it errs on the high side.
* `StoreImplementsLifecycle`: the refinement, while the clock has not passed
  2^32-1, the end that `prolong` writes for "no end" (`ClockFits`). One lemma per
  operation says which step of `SessionLifecycle` it is; the operations on keys
  share one (`KeyStepEffect`, `SameSeen`), as they leave every end of a session
  alone. `Open` needs `CountSound`, to have `Cardinality(held) < cap` from
  `count # limit`.

`GatedLockProofs`: `LockTypeCorrect`, `GateIsExact`, `WritersAreOvertakenOnce`. The
inductive invariant adds to `TypeOK` that readers and writers are only where
their kind goes (`PlacesOK`), that the counter is the number of writers engaged,
which is what lets the decrement stay in `Nat`, and that a reader which has got in
past a waiting writer is not on its way to the mutex again (`PastSpent`): to be
there it would have had to pass the gate, which that writer keeps shut.

`SessionKeysProofs`, about the keys within the sessions. `KeyStep` says what any
step may do to one record: leave it, write it and move its counter, count one
more call in one of its windows, put its end off to a time that has not passed,
remove it, or begin it anew where no key could be found. One lemma per operation
shows that it does no more (`NextKeys`); the theorems follow from it:

* `RateIsBound`: `incLimiter` refuses at `count == limit` and not above, which is
  enough because an accepted call moves the count by one from below.
* `ChangesMoveCounter`: a value that stays readable never changes without its
  `counterRecord`.
* `NothingLostSilently`: a readable key goes by its removal or the clock, and a
  removal takes no other key with it. Like the refinements it assumes that the
  clock has not passed 2^32-1: `prolong` with no lifetime writes that number for
  "no end" (`store.hpp:268`), and would end the session from then on.

`OptimisticClientProofs`: `ClientTypeCorrect` and `StaleTokensLose`. Both take
`MaxCounter < UIntMod`, that no counter has wrapped: after exactly 2^32 writes
the counters are what they were, and a stale write does succeed. The invariant
is `TokenTells`: while the session stays, its `counterKeys` is at least the
token's; and while it is equal, the key is gone, or has a greater
`counterRecord`, or is as the client saw it, unless `addAllKey` put it back. That
is why two counters are needed and what each is for. The step rests on `KeyStep`,
strengthened by what each step does to `counterKeys`.

`ServerConnectionProofs`: `ConnectionImplementsStream`, the refinement of
`AnswerStream`. The invariant `BufferOK` says that, unless an answer has been
spoilt, the write buffer is empty or holds an answer not wholly sent; so
`wrLength` is 0 whenever a new answer finds it empty, and the difference given to
`send` never wraps. Each callback is first reduced to what it does to the
answers (`Quiet`, `Ends`, `SendsOn`, `Answers`), and these are steps of the
stream (`StreamStep`).

`PoliteClientProofs`, for all lengths, sizes and numbers of requests:

* `ConnectionTypeCorrect`. The server is always at the end of a request or
  within one: `PositionOK` ties the bytes read to the requests answered, so that
  the next four bytes read for a header are one.
* `TrafficIsExact` adds `CountOK` for every callback that leaves the connection
  open, and what the ways of closing it leave out.
* `PatienceKeepsAnswers` and `PoliteIsServed`. A client that has read the last
  byte of the last answer has read all that was sent, because that byte occurs
  once (`LastIsLast`, `ServedIsWhole`). So when it asks again the socket is empty
  and the buffer too: the answer finds its place (`PatienceKeepsAnswers`) and
  `send` takes some of it (`RoomTakes`), which leaves only the excuses named in
  `PoliteStays`.
* `DurationsAreTimed`: `TimedOK` says that the stamp is that of the answer in the
  buffer and all before it have been counted.

`ThreadedStoreProofs`, for any number of threads, sessions and keys. The
inductive invariant `TInv` adds to that of `SessionStoreProofs` that

* `at` and `call` fit: a thread is only where its operation leads (`Fitting`);
* each lock's counter, owner and readers are exactly the threads whose place says
  so (`LocksMatch`), and an exclusive owner is alone (`Excludes`). From the two
  follows that a lock no thread claims is free, so that to destroy a record, and
  its lock with it, takes a lock from nobody;
* the records a thread has locked its way to are in the list (`Uses`);
* what `getKey` has copied, and what `setKey` has compared, is what the record
  holds (`ReadMark`, `CheckMark`).

Each step of a thread changes one place, at most one lock, and the list only as
the locks it holds exclusively allow: sessions go under the list's lock, keys and
`counterKeys` under the session's, a value and its `counterRecord` under the
value's (`Confined`). A thread that holds a lock is therefore spared by all
others (`Spared`), and `Uses` and the two marks last. The theorems:

* `ThreadedTypeCorrect`, `LocksMatchTheThreads`, `RecordsInUseExist`,
  `ReadsAreConsistent`, `NoUpdateIsLost`: parts of `TInv`, or one step from it.
* `ThreadedRateIsBound`. `RateInv` adds that no window was opened in the future:
  the second may end between two readings of the clock that one call makes, and a
  full window stamped with the next second would pass the check in this one and be
  counted on in the next.
* `ThreadsImplementSharedLifecycle`. With the list held shared a step finds a
  session for `prolong` or `remove` and so admits its thread (`SearchShared`), moves
  the end of the session its thread is admitted to (`MoveShared`), or moves no end
  and nobody's admission (`CalmShared`). With the list held exclusively no thread
  is admitted to anything, which is why nothing is swept or taken over while it
  is awaited, and the step is an operation of `SessionStore`, whose refinement
  covers it (`WholeShared`).

`ControllerProofs`, for any number of threads and requests:

* `RequestsAreCountedOnce`, `ErrorsAreCountedOnce`. The invariant `Tally` balances,
  operation by operation and error by error, the counters and the threads about
  to move them against the calls made and the results returned. That a thread
  counts under the operation it has called is `CallIsNamed`: the dispatch by
  commands and the two tables of the counters agree. `Countable` adds that
  a thread about to count finds a counter for what it counts.
* `StatisticsNearlyAgree`, `StatisticsMissNothing`. A copy under way mixes counters
  of different moments. The invariant `Reading` looks at what it would become if
  nobody interfered (`SeenOf`): it is never behind what was counted when the
  copy was asked for; and once the failures are all copied (28 of the 38 fields), its failures stand
  still while its errors can only grow, so they agree but for one request of each
  other thread. It is the order of the fields in `getData` that makes this so:
  with errors copied before failures no bound would hold.
  The totals are sums over sequences; the lemmas on `SumOf` prove what is needed
  of them (they exist, grow with their items, add up over parts) by induction on
  sets of numbers, from the well-foundedness of `<`.
* `ThreadsCallTheStore`: a step of the controller is to the store one of its
  operations or none, so what is proved of `SessionStore` carries over:
  `LimitHoldsUnderThreads`, and `SystemTypeCorrect`. These three take
  `FramesHoldRequests` as a hypothesis, that `initParams` makes of no frame, sent
  or mangled, anything but a request with known arguments. It is a statement
  about constants, on what `pack` and `unpack` compute for every sequence of
  bytes, which the prover cannot unfold. The run `controller` shows it of its
  instance: every frame that can arrive is taken there, and `SystemTypeOK` says
  that what it was taken for is a request.

Only model-checked:

* everything that something eventually happens (`ExpiredGo`, `WriterGetsIn`,
  `ReaderGetsIn`, `CallsReturn`, `RequestsAreRead`): the prover has no rules for
  fairness;
* `FramesSurvive`, `MangledRefused`, `AnswersTellOutcome`, and
  `FramesHoldRequests`: they rest on what the recursive functions of
  `Serialization` compute item by item and digit by digit, in powers of 256, which
  the prover does not evaluate;
* the five disagreements: a counterexample is all they need.

## Not modelled

* Wrap-around of the record and key counters after 2^32 writes.
* A clock that is set back; `time( NULL )` changing between the readings of one
  operation, but in the limiter and between the steps of `ThreadedStore`.
* Two operations that write the end of one session at the same moment, as
  anything but one after the other: an aligned 64-bit store is one store.
* Memory: allocation that fails, and the size of values. `accept` that fails.
* Header lengths of 2^31 and more, which `server.hpp:132` compares as signed
  numbers, and strings in a frame whose length field is not their own: both are
  written by no client of the protocol.
* The numbers of an answer to `GET_STATISTICS` that `Monitoring` does not keep:
  traffic, disconnections, durations and free sessions, which other modules have
  or leave out. And `parse` returning no answer, which `server.hpp:163` provides
  for and no path of `parse` does.
* The buckets of durations in `Monitoring`: how long something takes is nothing
  the models know. How often a duration is counted is in `ServerConnection`.
* Frames reach `Controller` one whole frame at a time; see above why.
* `Cmd`: a sequential parser of `argv` that runs once before anything else. The
  console output and the Makefile: nothing to check.

## Plan

Done: the store with its abstract specification, the optimistic client, the lock
and the connection with its abstract specification, the threads over the store,
the controller with its protocol and counters, all with their proofs. To come:

1. Proofs: that `initParams` takes a frame for the request it was made from, and
   for nothing else. It needs `unpack` to undo `pack`, by the induction on sets of
   numbers that the sums of counters go by, and `InNetworkOrder` without powers.
2. `Controller` over `ThreadedStore`: several threads within the store at once,
   for which the instances so far are too large to be multiplied. The proofs make
   it less pressing: both parts hold for any number of threads.
