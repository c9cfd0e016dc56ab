# eventreg in TLA+

A verification project for eventreg, the Go backend under `src/eventreg`: events
with a number of seats, bookings, a waitlist that is promoted when somebody
cancels, seat holds in Redis, a cached event listing, notifications over gRPC,
a rate limiter, accounts, and the replicas' startup and shutdown. The modules here are translated from the source; line numbers refer to it.
Paths are relative to `src/eventreg` (`P` = `internal/storage/postgres.go`).

Contents: [the system](#the-system) · [modules](#modules) · [runs](#runs) ·
[what TLC found](#what-tlc-found) · [proofs](#proofs) ·
[not modelled](#not-modelled-and-why) · [what is left](#what-is-left)

## The system

| Component | State it keeps | Operations |
|---|---|---|
| Store interface (`internal/storage/storage.go`) | none | List, Get, Create, Book, CancelBooking, ListUserBookings, ListUserWaitlist, EventStats |
| Postgres store (`P`, migration 000002) | tables events, bookings, waitlist; row locks; the connections' transactions | Create; Book and CancelBooking as transactions under `SELECT ... FOR UPDATE`; promoteTx; Seed |
| In-memory store (`storage.go`) | three maps, one mutex | the same, each under the mutex |
| Event list cache (`cached.go`) | in Redis: `events:gen`, pages keyed by generation with a TTL | List (cache-aside), INCR of the generation after every write |
| Seat holds (`internal/holds/holds.go`) | in Redis per event: a sorted set of expiries, a hash of seats | Acquire (Lua), Release (pipeline) |
| HTTP handlers (`internal/handlers/handlers.go`) | none of their own | bookEvent, cancelBooking, createHold, releaseHold, ready, ... |
| Notification client (`internal/notify/notify.go`) | goroutines with an RPC under way | Send (fire and forget), Key, Close |
| Notifier (`cmd/notifier/main.go`) | map of seen keys, a counter, under a mutex | SendNotification, Health |
| Rate limiter (`internal/ratelimit/ratelimit.go`) | in Redis: one counter per client and window | Allow (a pipeline of INCR, EXPIRE and TTL), Middleware |
| Accounts (`internal/storage/users.go`, `internal/handlers/auth.go`, `internal/auth`) | table users, or a map under a mutex; tokens live with the clients | register, login, RequireAuth, /auth/me |
| Startup and shutdown (`cmd/api/main.go`, `internal/config`) | where each replica is in run(); the pool and who holds its connections | load, migrate, connect, seed, serve; drain, release, close |
| Migrations (`internal/db/migrate.go`) | `schema_migrations`: version and dirty flag; an advisory lock | Migrate, Version |
| Logging, metrics, deployment | none that other parts decide on | |

How they meet: a handler calls the Store, which is the cached store around the
Postgres store when Redis is configured, and the Postgres store alone otherwise.
All replicas share Postgres, Redis and the notifier. bookEvent calls Store.Book,
then Manager.Release, then Store.Get and Client.Send; cancelBooking calls
Store.CancelBooking, then Store.Get and Send once per promoted user. Holds and
bookings meet in two places only: createHold reads the seats left before it runs
its script, and bookEvent releases the booker's hold. The limiter's middleware runs
before every handler and RequireAuth before the protected ones; the id a token
names is the user id of everything above. A replica serves when run() has migrated and
seeded; the pool it closes at the end is the one that stores and accounts share.

What is hard about it:

- *Concurrency.* Book and CancelBooking of one event are serialised by a row lock;
  what they read before and write after, and what is visible in between, decides
  whether a seat is sold twice or a queue is skipped. List is not serialised with
  the writes that invalidate it. Acquire of one replica runs between the two
  commands of another's Release.
- *Failure.* A transaction may end at any statement, a replica may die after its
  COMMIT and before the INCR or the notification, Redis evicts keys on its own
  (`allkeys-lru`), an RPC is given up after its timeout, the notifier forgets
  what it has seen when it restarts. Redis commands of one pipeline are sent again
  when the answer is lost. A replica dies in the middle of a migration, or is told
  to stop while it serves.
- *Ordering.* The queue is ordered by `created_at`, which is the time of BEGIN.
  Pages read before a write are stored after it. RPCs overtake each other.
- *Time.* Holds, pages and counters expire; the time of an acquisition or of a
  window is read on the replica, before Redis is asked. A drain has a deadline.
- *Retries.* A client repeats a booking or a registration whose answer it lost.

What makes each component correct is stated by the properties under
[Runs](#runs). `PROJECT.json` lists every hazard at its line with the properties
that would catch it.

## Modules

```
SeatRows                  rows, and the questions asked of them
  BookingLedger           what a Store promises            (abstract)
    MemoryStore           internal/storage/storage.go      implements BookingLedger
  PostgresStore           internal/storage/postgres.go     implements BookingLedger
  Notifications           handlers, notify.go, notifier    uses BookingLedger as its store
CachedList                internal/storage/cached.go
SeatHolds                 internal/holds/holds.go and its handlers
RateLimit                 internal/ratelimit/ratelimit.go
Accounts                  auth.go, users.go, jwt.go, password.go
Lifecycle                 cmd/api/main.go, migrate.go, NewPool, Seed
```

`MC...` modules hold the symmetry sets and the values of the TLC instances, `...Proofs` modules
the theorems. Definitions called "faulty variant" are plausible mistakes in the
definition below them, which no specification uses: putting one in its place
breaks the property named in `PROJECT.json`.

**SeatRows.** A booking is event, user and seats; a waitlist row has its stamp
too. `Oldest` is what `ORDER BY created_at LIMIT 1` may return, which is a set,
because stamps are not unique. `SeatSum` is SUM(seats), counted as units so that
it needs no recursion.

**BookingLedger.** The promise of the Store interface, each operation one step.
`Cancel` states the result of the promotion loop and not the loop: a first part
of the queue is promoted (`InOrder`), and what is left cannot be served
(`Blocked`). The stamp of a new entry is left open, so that both stores can
implement it. Its invariants are the three things bookings are about:
`SeatsConserved`, `OnePlacePerUser`, `QueueBlocked`.

**PostgresStore.** Committed tables, one row lock per event, and per connection
the transaction it runs: which statement is next (`pc`), what it has read
(`left`, the found rows) and what it has written and only itself can see
(`booked`, `unbooked`, `queued`, `unqueued`). One action per SQL statement:
`BeginBook`, `LockEvent`, `FindBooking`, `FindWaitlist`, `InsertWaitlist`,
`InsertBooking`, `TakeSeats` for Book; `BeginCancel`, `LockEvent`,
`DeleteBooking`, `Promote`, `PromoteDone`, `SetSeats` for CancelBooking; then
`Commit`. `Rollback` may happen at any of them: an error, a broken connection, a
dead replica. Locks are granted to any waiter (Postgres queues them; the model
has more behaviours), and `BEGIN` fixes the stamp. READ COMMITTED is modelled as
each statement seeing the committed tables and the transaction's own writes.

**MemoryStore.** The methods hold the mutex from the first line to the return,
so each is one step. The promotion loop is there in full, as the set of states
it can end in (`Results`, by number of rounds), because two entries with one
stamp may be served either way.

**CachedList.** The content of the events table is a version, the number of
writes so far. A page is the pair of versions its COUNT and its SELECT saw. A
List call is at one of its Redis or database calls, and every one of these may
fail; a write is committed first and invalidates afterwards, or dies in between, or
comes from a replica whose store main.go left unwrapped because it found no Redis
when it started (`WriteUncached`).
`gen` is the generation in Redis, `cache` the pages by generation. Two history
variables say what is promised: `acked` is the newest write that was answered
after its INCR arrived, `intact` says that Redis never lost the generation.
`Tick`, `Outage`, `Recovery` and the evictions are the environment.

**SeatHolds.** One event. `expiry` and `held` are the sorted set and the hash.
The Lua script is one step with three results: `Acquire`, `Deny` and
`UnpackFails`. The seats left and the replica's clock are read before it, in two steps
(`BeginHold`, `ReadClock`), and may both be old when it runs. It may run and its answer be lost
(`Answered`): then go-redis gives up (`Fails`; createHold passes on the request's context) or sends
the same script with the same arguments again. Release is the two steps `ZRem`
and `HDel`, which a pipeline that is sent again repeats. Postgres is reduced to the number of seats left and to what everybody
booked. Redis may evict one of the two keys, or the connection break in the middle of
a pipeline. `granted` is the hold reserved last for each user, whether or not the user heard
of it, and `damage` what has gone wrong in Redis so far (history).

**Notifications.** The store is the ledger. An outcome is what happened to a user
in an event (`confirmed`, `waitlisted`, `promoted`) with a number, because the
same may happen again; its key, `notify.Key`, has no number. A handler that has
committed has outcomes to tell (`call[c].news`), reads the event, and for each user
looks up the address and hands an RPC to a goroutine (`wire`). The notifier
emails or drops it. What fails on the way ends in `lost`. grpc is configured
without a retry policy, so an RPC is not sent twice.

**RateLimit.** One client's counters of one limiter; the two limiters of main.go have
different prefixes, and a login passes both in turn. Each command of the pipeline
is a step of its own (`Incr`, `Expire`, `Ttl`), because a pipeline is no transaction:
other requests' commands run in between, and the connection may break after any
of them, upon which go-redis sends the whole pipeline again (`Retry`) or Allow
lets the request through (`FailOpen`), whether it was counted or not; or the replica dies
(`Dies`). `got` is what INCR returned; a key without
an expiry, an expired key and no key are three different states. `passed`, `begun`
and `evicted` are history. `passed` counts whoever was let through (`LetThrough`), on a verdict or on an
error, with a count within the limit. A request is counted in the window its replica saw, and
may be counted when that window is over; only those counted in time are promised anything.

**Accounts.** A call is a registration, a login or a /auth/me on any replica, at one
of its steps; `backend` says whether the users are in Postgres or in the map. The
INSERT decides alone (`Insert`, `InsertRefused`), and it may have been executed
although its answer is an error (`InsertFails`). An address has spellings
(`Normal`), a password a part that bcrypt looks at (`First72`). A token records the
credentials that were presented for it, which the code forgets; its expiry and
signature are the 401 that `BeginMe` may always answer. `known` is what a call could
rely on when it began (history).

**Lifecycle.** Replicas with DATABASE_URL over one database. `pc` is where each is in
run(): golang-migrate's lock, version, script and mark are steps of their own, then
NewPool, then Seed's COUNT and INSERT, then the server. A request waits for its
client or for a connection, or holds one. On a signal the replica drains until no
request is left (`Drained`) or the deadline (`Deadline`), releases, and closes the
pool, which refuses new queries at once and returns when the last connection is
back (`Closed`). A signal before NotifyContext, a second one, a crash and SIGKILL
are `Dies`; a server that dies by itself closes the pool over whatever is in flight
(`ServerFails`, main.go:364-370).

## Runs

`tlc -config X.cfg M`, with the modules and configurations `PROJECT.json` lists.

| Run | Instance | Shows |
|---|---|---|
| `store` | 2 connections, 3 users, 1 event of 2 or 3 seats, wants of 1 or 2, 2 times | `SeatsConserved`, `OnePlacePerUser`, `QueueBlocked` of the committed tables; `ReadStaysTrue`: what a transaction decides on is still true when it acts; `ImplementsLedger`: every COMMIT is one step of the ledger, everything else none; `ConstraintsNeverFire`: no transaction runs into UNIQUE or CHECK; `PlaceBounded`: a place in line moves back only for bookings that were already on their way; `TransactionsEnd`: no transaction waits for ever |
| `memory` | 4 users, 1 event of 2 or 3 seats, wants of 1 to 3, 3 times | the ledger's invariants, `ImplementsLedger`, and `PlaceKept`: the number of entries ahead of a waiting user never grows |
| `cache` | 2 readers, 1 writer, 2 writes, TTL of 1 | `ReadYourWrites`: a listing is never older than the last write answered and invalidated before it was asked for; `SelfCorrects`: when writes stop, the cache comes to hold the table's content only |
| `holds` | 2 users, 2 calls, 2 seats, TTL of 1, 3 times, unpack limit of 1 | while Redis keeps its keys (and, for the second and third, runs the script to its end), `NeverOverheld`: the holds reserved last, if neither expired nor released, fit into the event, whether their users heard of them or not, `HeldSeatsExpire`: a hold that blocks others has an expiry, `DeniedByLiveHolds`: nobody is denied but for the sake of bookings and of reserved holds that are unexpired or being released; and whatever becomes of the keys, `CountFits`: the seats counted as held fit into the event |
| `notify` | 3 users, 2 requests, 1 event of 2 seats, 5 outcomes, each at most twice | `NeverToldTwice`, `NothingForgotten` |
| `ratelimit` | 2 concurrent requests, limit of 2, windows of 2 ticks, 1 retry, 3 requests begun per window, 3 times in 2 windows | `WithinLimit`: of the requests counted before their window ended, no more than the limit are let through, those let through on an error included unless their own count was beyond it, unless Redis lost the counter; `RefusedForThisWindow`: nobody is refused for what was done in another window; `WaitIsEnough`: after Retry-After the window is over, whatever became of the counter's TTL |
| `accounts` | 2 calls, 1 address in two spellings and another, 3 passwords, 2 ids, both backends, 1 restart | `OneAccount`; `RefusedRightly`: no login is refused with the credentials of an account that was there when it began, the retry of a registration without an answer included; `ConflictIsReal`: whoever gets 409 finds an account; `TokenNamesOwner`: a token names the account whose credentials were presented for it, and /auth/me finds it |
| `lifecycle` | 2 replicas, 2 requests, 2 migrations, pool of 1, 2 faults | `ServesMigrated`: no replica past Migrate has an incomplete or dirty schema; `NoneCutShort`: no request fails for a closed pool unless it outlived the deadline or the server died; `RestartSeedsNothing`; `ShutdownEnds`: a replica told to stop exits, unless it closes its pool over a query that hangs for ever |
| `holds_unpack`, `holds_kept`, `notify_dropped`, `queue_jumped` | small | counterexamples, see below |

*Bounds.* Three users are the least with which a cancellation by one promotes two others, or
one and not the next; seats of 2 or 3 against wants of 1 and 2 make entries that
fit exactly, that do not fit, and that fit only behind one that does not. Two connections
are enough for any conflict of two transactions; the row lock keeps the
others waiting. `MaxClock` and `Stamps` bound the distinct times, equal stamps
included. In `cache` a second write makes the page of the first stale while a
reader is anywhere in its call; a TTL of 1 lets pages expire at every point. In
`holds` the clock passes a hold's whole life and the next one's beginning.
`UnpackLimit` stands for Lua's 8000, which two expired holds exceed here. In `notify` five outcomes are what it takes for one booking of both seats, two entries in the queue
and their promotion by one cancellation; `MaxRepeats` of 2 lets a key come up again.
In `ratelimit` the third request of a window is the first that may be refused, the
clock reaches into the next window while the first one's pipelines are under way, and one retry
counts a request twice. In `accounts` two calls race for one address in both spellings, and
two ids let a second account take what belongs to the first. In `lifecycle` two
migrations make a database that has a part of the schema, a pool of one makes a
request wait for another's connection, and two faults a dirty database with a replica left that meets it.
The theorems below remove these bounds for the properties they state; transactions of
several events, which `store` has no room for, are in the theorems about PostgresStore.

*Deadlock* is checked everywhere but in Notifications, whose bound on outcomes ends
a behaviour when everything has been told; in RateLimit and Accounts, whose bounds on
requests, ids and restarts do the same; and in Lifecycle, where replicas meet a dirty
database, which the code leaves to an operator, or have no fault left to die of.

*Symmetry* is used where no liveness is checked.

*Fairness.* `store`: every transaction gets to its next statement
(weak fairness per connection of `Statement`; `Rollback` may come first, nothing obliges
it to), because Book and CancelBooking run to their end without waiting for
anything but the lock; and a waiter for a row lock that is free again
and again is granted it (strong fairness of LockEvent), because
Postgres grants row locks in the order of the waiters. Nothing obliges a client to begin. `cache`: time
passes, and a List call goes on, its Redis or database call returning or failing
(weak fairness); writes, evictions and outages are not obliged to happen or to stop
happening, except that writes are bounded. `lifecycle`: run() goes on with its
shutdown when it can (weak fairness of `Stop`), and that is all: nothing in the code ends a
query, as the stores query with `context.Background()`, and no client is obliged to read its
answer. That the drain ends nevertheless is what the deadline is for; that pool.Close may not is
the exception `ShutdownEnds` makes. There is no fairness elsewhere.

*Action properties.* `ImplementsLedger` (with the ledger as the abstract
specification), `PlaceBounded`, `WaitingHavePriority`, `PlaceKept`, `DeniedByLiveHolds` and
`DropsOnlyRepeats` speak of steps.

## What TLC found

Each is a run that ends in a counterexample, and a finding in `PROJECT.json` with the
quotation it contradicts.

1. `notify_dropped` — *the notifier drops news.* Book, cancel, book again: the
   second confirmation has the key of the first, and is answered as "A RETRY, not
   an error". The same happens to a second promotion, of a user who "would never
   find out" otherwise. As the client never retries, new outcomes are all that
   deduplication ever catches.
2. `holds_unpack` — *expired holds that never go away.* If more holds have expired
   than `unpack` can return, the script fails after ZREMRANGEBYSCORE and before
   HDEL. The next run finds nothing expired, and the seats stay in the hash (`SeatsComeBack`).
3. `holds_kept` — *a hold does not keep seats.* Store.Book does not ask for holds.
4. `queue_jumped` — *a newcomer overtakes the queue.* Of two seats one is booked, a user who
   wants both waits, and a third books the other one: Book (`P:283`) compares with the seats left
   and does not look at the queue. `P:328-329` says that "the people who already waited have priority over
   someone arriving now", `P:393-394` that letting small requests by could starve a larger one
   forever, and README.md:474 of the repository "It is FIFO — first come, first served". Only promoteTx is
   (`WaitingHavePriority`). By `QueueBlocked` the newcomer at least asks for less
   than the head of the queue.

Met while modelling and not kept as runs, because the properties above bound what they
can do, or because the code tolerates them:

- *A shutdown that does not end.* The deadline ends the drain, and pool.Close (main.go:438)
  then waits for the connection of the very query that outlived it, so one query that hangs
  is enough, although "THE TIMEOUT IS ESSENTIAL" (main.go:389-390) and requests running at the deadline "are
  now cut off" (main.go:401). `ShutdownEnds` says that this is the only way not to exit;
  the platform's SIGKILL ends it.
- *A hold replaced unheard.* A user who was told of a hold of 2 seats asks for 1, and the script runs
  while its answer is lost (`holds.go:174-186`): Redis now holds 1, with an error for
  an answer, and the other seat goes to whoever asks next. `NeverOverheld` speaks of what
  was reserved last, since of what users were last told it does not hold.
- *More than the limit on an error.* A request whose count was beyond the limit is let through
  when its pipeline fails after INCR (`ratelimit.go:111-124`): fail open, as the comment there wants.
- */ready does not ask the database* (`handlers.go:285`) but the cached store, which
  answers from Redis while Postgres is down: "the cheapest query that proves the
  database is answering" (`handlers.go:282`) proves nothing then.
- *A replica that found no Redis when it started* has no cache, no holds and no rate
  limit for its whole life (main.go:190, 213, 284), although Redis may be back: its
  writes invalidate nothing (`WriteUncached`), and clients served by it are not counted.
- *Two first starts seed twice* (`P:84-91`): COUNT and INSERT are two statements, so two
  replicas that boot on an empty database may both insert. `RestartSeedsNothing` is what
  holds: whoever boots later, when there are events, never does.
- *A counter without a TTL locks nobody out.* `ratelimit.go:103-105` fears "a counter stuck
  forever, locking that client out"; the next window has a key of its own, so such a key
  only stays in memory. The repair (128-132) sees only a key that lost its
  TTL between EXPIRE and TTL, not one whose pipeline broke after INCR; a
  later request of the same window repairs that one with its own EXPIRE.
- *Retry-After is a whole window and a second*, because every request refreshes the key's TTL
  before it reads it: enough (`WaitIsEnough`), and up to a window longer than needed.
- *A window below a second* (`ratelimit.go:89`) divides by zero in every request, and
  config.Load accepts it (`config.go:108`).
- *Boundary bursts.* Twice the limit in a short time, at the meeting of two windows, is
  what `ratelimit.go:41` accepts; `WithinLimit` is per window.
- *A registration whose answer was lost* is answered with 409 when it is retried, and
  the way in is a login (`RefusedRightly`). Every 409 burns an id of the sequence.
- *Long passwords.* `password.go:30` says that bcrypt truncates beyond 72 bytes;
  GenerateFromPassword refuses them, and registering answers 500.
- *Ids given out again.* The memory store starts its ids anew after a restart while the tokens
  of the old accounts live on, and then they name new ones; only without DATABASE_URL.
- *A dirty database* stops every replica at Migrate until an operator repairs it, as
  `migrate.go:83-88` says; `ServesMigrated` is what that is for.
- *Place in line.* `created_at` is the time of BEGIN (000002, line 72), so a Book
  that began earlier and got the row lock later enters the queue ahead of a user who
  is already in it, although "the user keeps their place in line" (`P:278`).
  `PlaceBounded` is how far that goes: whoever is in front of a user after a step was so
  before, or was a booking already under way that had begun earlier. `PlaceKept` of the map-based store
  shows what reading the clock under the mutex gives.
- *Constraints that nothing reaches.* The UNIQUE constraints of bookings and waitlist and the
  CHECK of the counter are a second line of defence: behind the row lock and the reads that
  follow it no interleaving makes one of them fire (`ConstraintsNeverFire`).
- *Generation 0.* `generation` takes an unreachable Redis for generation 0, and
  `cached.go:114-115` says that this "only causes a cache miss". Generation 0 has
  pages if somebody listed before the first write or after the key was evicted.
  In the model such a call is promised nothing (floor 0); `ReadYourWrites` shows
  that it spoils nothing for the other calls.
- *Wrong for at most `ttl`* (`cached.go:168`): the TTL runs from the SET, so a slow
  reader's old page lives longer than a TTL after the write it misses.
- *Half a hold.* With the sorted set evicted, or a Release broken in half, the
  seats left in the hash are denied to others until the hash goes; with the hash evicted, the seats of
  good holds are granted again. `CountFits` is what remains true.
- *Replays.* A retry is not announced, "they were already told the first time"
  (`handlers.go:104`), also when the first attempt's replica died after COMMIT.

## Proofs

TLAPS checks these for every value of the constants that the named assumptions allow
(`SeatAssumption`: capacities and wants are positive numbers; `StampAssumption`:
stamps are natural numbers; `ConnAssumption`: finitely many connections, `NoConn` is none of them;
`ClockAssumption`, `BoundAssumption`, `HoldAssumption`, `RepeatAssumption`,
`RateAssumption`: bounds are natural numbers, lifetimes, windows and an event's seats
positive, the holds' users and the limiter's requests finite; `AccountAssumption`:
normalising and cutting off twice is the same as once; `LifecycleAssumption`:
finitely many replicas, a pool of at least one connection). Part of the model, and so of
every theorem, is that now() of the database is not set back (`Later` in PostgresStore;
`PlaceBounded` fails without it).

| Theorem | Statement |
|---|---|
| `LedgerConservesSeats`, `LedgerOnePlace`, `LedgerQueueBlocked` | the ledger keeps its three invariants |
| `LedgerDropsNobody` | who leaves a queue has a booking, and no step gives up more than one |
| `MemoryImplementsLedger` | `MemSpec => ImplementsLedger`, for every queue and any number of rounds |
| `MemoryInvariant`, `MemoryKeepsLedger` | the map-based store keeps the ledger's invariants |
| `MemoryKeepsPlace` | `PlaceKept` of the map-based store |
| `MemoryDropsNobody` | the same of the map-based store |
| `StoreImplementsLedger` | `Spec => ImplementsLedger`, for any number of connections |
| `StoreConservesSeats`, `StoreOnePlacePerUser`, `StoreQueueBlocked`, `StoreKeepsLedger` | the invariants of the committed tables |
| `StoreTypes`, `StoreReadsStayTrue` | types, the counter never negative; reads under the lock stay true |
| `StoreConstraintsNeverFire` | `ConstraintsNeverFire` |
| `StoreDropsNobody` | who leaves a queue has a booking, and a booking goes only by its own user's cancellation |
| `StoreStampsInThePast`, `StorePlaceBounded` | no stamp is later than the clock; `PlaceBounded` |
| `StoreLocksOwned`, `StoreNobodyStuck` | a row lock has one live owner; whoever waits does so for somebody who can go on |
| `StoreStatementsRunOut` | a transaction with its lock has finitely many statements left, and fewer after each |
| `CachedListTypes`, `CachedListFresh` | types; `ReadYourWrites` |
| `CachedListAgesOnly` | without another write stale pages only age, and no List call begins to carry one |
| `HoldTypes`, `HoldsNeverOverheld`, `HoldsExpire`, `HoldsDenyForLiveOnly` | types; the three properties of holds |
| `HoldsCountFits` | `CountFits`, whatever Redis evicts |
| `HoldsComeBack` | `SeatsComeBack`, with no more users than unpack can return |
| `NotifyTypes`, `NobodyToldTwice`, `OutcomesAccounted` | types; `NeverToldTwice`, `NothingForgotten` |
| `RateTypes`, `RateWithinLimit`, `RateRefusedForThisWindow`, `RateWaitIsEnough` | types; the limiter's three properties |
| `AccountTypes`, `AccountsOneEach`, `AccountsRefuseRightly`, `AccountsConflictIsReal`, `AccountsTokenNamesOwner` | types; the four properties of accounts |
| `LifeTypes`, `LifeServesMigrated`, `LifeNoneCutShort`, `LifeRestartSeedsNothing` | types; the three safety properties of a replica's life |
| `LifeStopsForGood` | a replica told to stop only moves onward, takes nobody in, and gets its connections back |

*BookingLedgerProofs* begins with the arithmetic of rows: `SeatSum` of finite sets of
rows is a natural number, additive over disjoint sets, and unchanged by
`AsBooking`. It rests on the library's facts about cardinality. `LedgerInv` adds to the
three invariants that the tables are finite, without which a sum is nothing. The case of weight is
`Cancel`: the balance is the sum over a union of disjoint rows, and one place per
user holds because those promoted had no booking. `DropsNobody` follows from `Cancel` alone.

The module goes on with the map-based store. Its loop is a recursive function of
the number of rounds, and an induction over it is out of reach as an operator to cite; the
proof goes by the well-founded order of the numbers instead. `RoundsExist`: were there a number
of rounds without a value, the least such would have a predecessor that has one. `RoundKeepsLoopInv`: a round keeps what
the loop has done so far a first part of the queue, with the seats balanced
(`LoopInv`); were there a result without it, take the least round that has one. The last round
is reached because each takes an entry out of a finite queue, and what it leaves is
`Cancel` of the ledger (`ResultsKeepPromise`). `MemInv` adds to `LedgerInv` that nobody
waits since a time to come, which is why an entry that is added now goes to the end (`PlaceKept`).

*PostgresStoreProofs.* `SeatsConserved` is not inductive: between DELETE and UPDATE
nothing in the tables tells that a transaction is about to balance them. `StoreInv`
says for each transaction what it has written so far, relative to what is
committed: that it holds the lock from `LockEvent` on, that what it read is still
there, that `left` is the committed counter plus what it freed minus what it
promoted, that those promoted were a first part of the queue. Two transactions with
a lock have different events, so a step of one leaves the other's part alone
(`Frame`). With it, COMMIT is one of the ledger's steps (`CommitRefines`) and
every other step leaves the tables alone, except `CreateEvent`. The three invariants then come
from the ledger's theorems by refinement, and are not proved twice; so does `DropsNobody`,
for which `UnbooksOwn` adds that a transaction takes out the booking
of its own user only. `ConstraintsNeverFire` combines the two sides: what a transaction read
is still true, and the rows of others are kept apart by `OnePlacePerUser`.

A place in line is a matter of the clock. `StampsInThePast` says that stamps in the table and
the start times of bookings under way are not later than it. So a booking that begins
is not one of a waiting user's `Overtakers`, and one that joins the queue in front of them
(`Joins`) ceases to be one in the same step: the sum that `PlaceBounded` speaks of does not grow.

`TransactionsEnd` is liveness; what it rests on is proved. `LocksOwned`: a row lock
belongs to a transaction of that event that is past `LockEvent`. `NobodyStuck`: whoever
waits for a lock does so for a transaction that waits for none, so there is no cycle, and whoever
does not wait has a statement whose guard holds. `StatementsRunOut`: the number of statements a
transaction can still make, with a round of the promotion loop for every entry in the queue it sees,
falls with each one and is left alone by everybody else.

*CachedListProofs.* The generation changes together with `acked`, so to every
generation belongs one floor: readers of one generation have the same floor
(`SameFloor`), readers of the current one have `acked` (`ReaderInv`), and a page
stored under a generation holds that generation's floor (`CacheInv`). Calls that
take Redis for empty fit in because generation 0 has floor 0 (`ZeroInv`). This
holds while `intact`; a lost generation counts from 0 again, and floors no longer
belong to generations. `AgesOnly` needs none of that, only types: it is what
`SelfCorrects` rests on, that without another write staleness comes from List calls that
have read an older table, each of which stores its page once, and runs out with every tick.

*SeatHoldsProofs.* `HoldInv` has what survives every fault, the types, the balance of
Postgres and `CountFits`, which the purge and the evictions can only lower and the
script's own check bounds; `Dated`, that no call brings a time to come along; and `Tied`, which
holds while Redis keeps its keys and ties them
to what was reserved: a field of the hash is its user's last grant, an expiry in the
sorted set is the one granted, and a grant that has not expired has its field. A script that runs again
makes the same check and reserves anew, so neither it nor a lost answer undoes any of this.
`HoldsComeBack` is the property `holds_unpack` refutes, under the assumption that there
are no more users than unpack can return.

*NotificationsProofs.* Outcomes are numbered key by key (`Numbered`), so that what
the store commits is new. Then what is told, on the wire, emailed and lost are
disjoint, and a remembered key comes from an email (`SeenEmailed`), which is why a
dropped RPC still leaves an email for its key. The types of its store come from the
ledger's theorems, as every step is one of the ledger's or leaves the store alone (`StoreSteps`). The module
has no clock; `clock <- 0` fills in the variable of the map-based store, of which nothing is used here.

*RateLimitProofs.* `WithinLimit` is not inductive: a request that was counted may not
have its answer yet. `Charged` adds to those let through those that will be, and bounds both by
the limit and, while the window lasts, by the counter, an error's requests like the others. That needs `Clocked`: no key
expires before its window ends, because EXPIRE never gives less than a window. `Budget` bounds
the counter from above by the requests begun: every INCR spends one of the
Retries + 1 pipelines its request may send, and `Left` is the set of those not sent yet.

*AccountsProofs.* `CallOK` says what a request knows between two of its steps, in terms
of the accounts there are. Accounts are only ever added, so what one call knows stays true when another moves
(`CallKept`); a restart of the memory store, which does lose accounts, ends every call,
and `TokensOK` promises nothing to the tokens of earlier lives.

*LifecycleProofs.* `LifeInv` has three parts on top of the types. `SchemaOK` ties marks,
tables and the replica inside the lock to one another: a database that is not dirty has exactly
the migrations its version counts, and only the holder of the lock is between two. `SeedOK`
says that until there are events every replica that runs booted before them. `PoolOK`
says that a pool is closed over requests in flight only after the deadline or by a server
that died. `StopsForGood` is what `ShutdownEnds` rests on: from the signal on a replica's requests
get fewer, its `pc` goes only onward, and once it closes the pool no connection is given out.
The theorems are about `Spec`, which `FairSpec` implies.

*Only model-checked:* `TransactionsEnd`, `SelfCorrects` and `ShutdownEnds`, because liveness
under fairness is out of this prover's reach. What is proved of them is safety: that
nothing blocks for ever and that a measure falls (`StoreNobodyStuck`, `StoreStatementsRunOut`),
that staleness only runs out (`CachedListAgesOnly`), that a shutdown only goes onward
(`LifeStopsForGood`). The fairness that turns these into liveness, and that Postgres grants
a lock to one waiter after the other, is TLC's part.

## Not modelled, and why

- *HeldSeats* (`holds.go`) is called by nobody. The 24-hour TTL the script sets on
  both keys as a whole is far beyond a hold's life and is renewed by every acquisition.
- *ListUserBookings, ListUserWaitlist, EventStats* and Get read one snapshot and
  change nothing.
- *A page unreadable in the cache* is a lost page (`EvictPage`) and a miss (`GetFails`).
- *JSON, SQL text, HTTP status codes, Swagger, metrics, request ids*: wording and layout.
- *nginx, k8s, compose* are configuration; what they mean for Redis and for several
  replicas is in the models. *The load test* is a client; *docs and gen* are generated.
- *The wiring of Redis and the notifier* in main.go: which parts a replica has is fixed for
  its life, and each module is about the part that is there. RPCs in flight at the
  shutdown are lost in Notifications (`RpcFails`), as main.go:417-422 tolerates.
- *Configuration*: Load is one step that succeeds or ends the process.
- *Tokens' time*: a token may be refused at any time, which stands for its expiry.
- *Clocks of the replicas* are one clock in SeatHolds and RateLimit; the time may be old
  when it is used, but two replicas do not disagree about it.
- *Lists*: List is modelled with the cache; what of a page a client sees (limit, offset, has_more)
  is arithmetic on one answer.

## What is left

Every part that decides about state is modelled. Worth adding, in this order:

1. bookEvent as one sequence (Book, Release, Get, Send) over the ledger, the holds and the
   notifier. Neither part reads what the other writes, which is why they are apart.
2. Clocks that disagree between replicas, for holds and windows.
