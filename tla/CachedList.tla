----------------------------- MODULE CachedList -----------------------------
(***************************************************************************)
(* internal/storage/cached.go: the event listing cached in Redis under a   *)
(* key that holds the generation number, INCR on the generation after      *)
(* every write.                                                            *)
(*                                                                         *)
(* Content is a version number, the number of writes committed so far, and *)
(* a page is the pair of versions its two SELECTs saw.  One page is        *)
(* modelled: limit and offset are in the key, so pages do not meet.  Two   *)
(* calls to Redis are two steps, and every call may find Redis failing.    *)
(***************************************************************************)
EXTENDS Integers

CONSTANTS Readers,     \* concurrent List calls, on all replicas
          Writers,     \* concurrent Create, Book and CancelBooking calls
          MaxVersion,  \* bound on the number of writes
          Ttl          \* lifetime of a cached page, in ticks

ASSUME BoundAssumption == MaxVersion \in Nat /\ Ttl \in Nat \ {0}

VARIABLES db,      \* committed version of the events table
          up,      \* Postgres answers
          acked,   \* newest write whose call returned after its INCR (history)
          gen,     \* events:gen in Redis; 0: no such key
          cache,   \* events:list:g<gen>:..., by generation
          intact,  \* Redis never lost the generation (history)
          writer,  \* Writers: the version to invalidate for, or 0
          reader   \* Readers: the state of the List call

vars == <<db, up, acked, gen, cache, intact, writer, reader>>

Versions == 0..MaxVersion
Generations == 0..MaxVersion
Page == [total : Versions, items : Versions]
NoPage == [total |-> 0, items |-> 0]

\* A cached page lives for `left' more ticks; 0: there is none.
Entry == [page : Page, left : 0..Ttl]
NoEntry == [page |-> NoPage, left |-> 0]

\* floor  what acked was when the call began (history)
Reader == [pc : {"idle", "get", "count", "select", "set", "done"},
           gen : Generations, floor : Versions, page : Page]
Idle == [pc |-> "idle", gen |-> 0, floor |-> 0, page |-> NoPage]

Init == /\ db = 0 /\ up = TRUE /\ acked = 0 /\ gen = 0
        /\ cache = [g \in Generations |-> NoEntry]
        /\ intact = TRUE
        /\ writer = [w \in Writers |-> 0]
        /\ reader = [r \in Readers |-> Idle]

Later(a, b) == IF a > b THEN a ELSE b
-----------------------------------------------------------------------------
\* Faulty variant of Write: the store's error is not looked at.
WriteIgnoresError(w) == /\ writer[w] = 0
                        /\ up
                        /\ db < MaxVersion
                        /\ db' \in {db, db + 1}
                        /\ writer' = [writer EXCEPT ![w] = db + 1]
                        /\ UNCHANGED <<up, acked, gen, cache, intact, reader>>

\* The write paths call the store first, and return its error if there is one.  Every call that succeeds counts as a
\* version, the replays that change nothing included.
Write(w) == /\ writer[w] = 0
            /\ up
            /\ db < MaxVersion
            /\ db' = db + 1
            /\ writer' = [writer EXCEPT ![w] = db + 1]
            /\ UNCHANGED <<up, acked, gen, cache, intact, reader>>

\* invalidateEvents: INCR events:gen, which starts from 0 when there is none.
\* Then the call answers its client.
Invalidate(w) == /\ writer[w] # 0
                 /\ gen < MaxVersion
                 /\ gen' = gen + 1
                 /\ acked' = Later(acked, writer[w])
                 /\ writer' = [writer EXCEPT ![w] = 0]
                 /\ UNCHANGED <<db, up, cache, intact, reader>>

\* INCR fails: logged, and the write succeeds nevertheless.  Or the replica dies
\* between COMMIT and INCR, or the answer to COMMIT is lost and the store's
\* error returned: nothing is invalidated either.
InvalidateFails(w) == /\ writer[w] # 0
                      /\ writer' = [writer EXCEPT ![w] = 0]
                      /\ UNCHANGED <<db, up, acked, gen, cache, intact, reader>>

\* A write on a replica that found no Redis when it started: main.go left its
\* store unwrapped, and it never invalidates what the others cache.
WriteUncached == /\ up
                 /\ db < MaxVersion
                 /\ db' = db + 1
                 /\ UNCHANGED <<up, acked, gen, cache, intact, writer, reader>>
-----------------------------------------------------------------------------
Goto(r, pc) == reader' = [reader EXCEPT ![r].pc = pc]
\* The generation is of no use any more once the page is there.
Done(r, page) == [pc |-> "done", gen |-> 0, floor |-> reader[r].floor, page |-> page]
Have(r, page) == reader' = [reader EXCEPT ![r] = Done(r, page)]
ReaderOnly == UNCHANGED <<db, up, acked, gen, cache, intact, writer>>

StartWith(r, g, floor) ==
  /\ reader[r].pc = "idle"
  /\ reader' = [reader EXCEPT ![r] = [pc |-> "get", gen |-> g, floor |-> floor, page |-> NoPage]]
  /\ ReaderOnly

\* generation: GET events:gen, "0" when the key does not exist.
Start(r) == StartWith(r, gen, acked)

\* generation: "0" on any error as well.  Such a call is promised nothing.
StartWithoutRedis(r) == StartWith(r, 0, 0)

\* GET of the page: a hit is the answer.
Hit(r) == LET e == cache[reader[r].gen]
          IN  /\ reader[r].pc = "get"
              /\ e.left > 0
              /\ Have(r, e.page)
              /\ ReaderOnly

Miss(r) == /\ reader[r].pc = "get"
           /\ cache[reader[r].gen].left = 0
           /\ Goto(r, "count")
           /\ ReaderOnly

\* GET fails although the page may be there.
GetFails(r) == reader[r].pc = "get" /\ Goto(r, "count") /\ ReaderOnly

\* postgresStore.List: SELECT COUNT(*), then SELECT ... LIMIT OFFSET, each
\* with a snapshot of its own.
Count(r) == /\ reader[r].pc = "count"
            /\ up
            /\ reader' = [reader EXCEPT ![r].page.total = db, ![r].pc = "select"]
            /\ ReaderOnly

Select(r) == /\ reader[r].pc = "select"
             /\ up
             /\ reader' = [reader EXCEPT ![r].page.items = db, ![r].pc = "set"]
             /\ ReaderOnly

\* SET of the page read, under the key of generation g.
StoreUnder(r, g, left) ==
  /\ reader[r].pc = "set"
  /\ cache' = [cache EXCEPT ![g] = [page |-> reader[r].page, left |-> left]]
  /\ Have(r, reader[r].page)
  /\ UNCHANGED <<db, up, acked, gen, intact, writer>>

\* Faulty variant of Store: the generation is read again for the SET.
StoreUnderNewest(r) == StoreUnder(r, gen, Ttl)

\* SET under the key built before the database was read.
Store(r) == StoreUnder(r, reader[r].gen, Ttl)

\* SET fails: the page is returned all the same.
StoreFails(r) == reader[r].pc = "set" /\ Have(r, reader[r].page) /\ ReaderOnly

Leave(r) == reader' = [reader EXCEPT ![r] = Idle] /\ ReaderOnly

\* A query fails: List returns the error.
DatabaseFails(r) == reader[r].pc \in {"count", "select"} /\ Leave(r)

\* List returns the page.
Return(r) == reader[r].pc = "done" /\ Leave(r)
-----------------------------------------------------------------------------
\* Redis drops a page early (allkeys-lru, or a restart without persistence).
EvictPage(g) == /\ cache[g].left > 0
                /\ cache' = [cache EXCEPT ![g] = NoEntry]
                /\ UNCHANGED <<db, up, acked, gen, intact, writer, reader>>

\* The same happens to the generation.
EvictGeneration == /\ gen > 0
                   /\ gen' = 0
                   /\ intact' = FALSE
                   /\ UNCHANGED <<db, up, acked, cache, writer, reader>>

\* Faulty variant of Older: pages without a TTL.
NeverOlder(e) == e

\* A page expires when its time is over.
Older(e) == IF e.left <= 1 THEN NoEntry ELSE [e EXCEPT !.left = @ - 1]

Tick == /\ cache' = [g \in Generations |-> Older(cache[g])]
        /\ UNCHANGED <<db, up, acked, gen, intact, writer, reader>>

\* Postgres goes away and comes back.
Outage == up /\ up' = FALSE /\ UNCHANGED <<db, acked, gen, cache, intact, writer, reader>>
Recovery == ~up /\ up' = TRUE /\ UNCHANGED <<db, acked, gen, cache, intact, writer, reader>>

List(r) == Hit(r) \/ Miss(r) \/ Count(r) \/ Select(r) \/ Store(r) \/ StoreFails(r)
           \/ DatabaseFails(r) \/ Return(r)

Next == \/ \E w \in Writers : Write(w) \/ Invalidate(w) \/ InvalidateFails(w)
        \/ \E r \in Readers : Start(r) \/ StartWithoutRedis(r) \/ GetFails(r) \/ List(r)
        \/ \E g \in Generations : EvictPage(g)
        \/ WriteUncached \/ EvictGeneration \/ Tick \/ Outage \/ Recovery

Spec == Init /\ [][Next]_vars

\* A List call under way goes on, calls in Redis or the database returning or
\* failing, and time passes.
FairSpec == Spec /\ WF_vars(Tick) /\ \A r \in Readers : WF_vars(List(r))
-----------------------------------------------------------------------------
\* Every variable has its type, and nothing is invalidated or acknowledged that
\* was not committed.
TypeOK == /\ db \in Versions /\ up \in BOOLEAN /\ acked \in Versions /\ gen \in Generations
          /\ cache \in [Generations -> Entry]
          /\ intact \in BOOLEAN
          /\ writer \in [Writers -> Versions]
          /\ reader \in [Readers -> Reader]
          /\ acked <= db /\ \A w \in Writers : writer[w] <= db

\* Whoever lists the events after a write that was answered and invalidated sees
\* that write or a later state, from the cache or not: pages read before the
\* INCR can only be stored under a generation nobody asks for any more
\* (cached.go:80-100, 194-204).  Other writes' lost INCRs, other calls that take
\* Redis for empty and lost pages change nothing about it; only a lost
\* generation, which counts from 0 again, does.
ReadYourWrites ==
  intact => \A r \in Readers : reader[r].pc = "done" =>
    reader[r].page.total >= reader[r].floor /\ reader[r].page.items >= reader[r].floor

\* Whatever goes wrong with Redis, once writes stop the cache comes to hold
\* nothing but the table's content: "stale for at most `ttl`, then
\* self-corrects" (cached.go:188-189).
SelfCorrects ==
  <>[](\A g \in Generations : cache[g].left > 0 => cache[g].page = [total |-> db, items |-> db])
=============================================================================
