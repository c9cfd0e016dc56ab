----------------------------- MODULE Lifecycle -----------------------------
(***************************************************************************)
(* cmd/api/main.go: the life of the replicas over one Postgres, from       *)
(* migration and seeding to serving, draining and release, with the        *)
(* requests they serve.                                                    *)
(*                                                                         *)
(* Modelled for a replica with DATABASE_URL.  What Redis and the notifier  *)
(* are wired to is left out: a replica starts and stops in the same way    *)
(* without them.  golang-migrate and pgxpool are external and modelled as  *)
(* main.go and migrate.go use them.                                        *)
(***************************************************************************)
EXTENDS Naturals, FiniteSets

CONSTANTS Replicas,   \* processes of the API
          Requests,   \* requests that may be in flight at once, on all replicas
          Latest,     \* number of embedded migrations
          PoolSize,   \* connections of a replica's pool
          MaxFaults,  \* bound on deaths, and on errors that end a process
          Nobody      \* no replica

ASSUME LifecycleAssumption ==
  /\ IsFiniteSet(Replicas) /\ Nobody \notin Replicas
  /\ Latest \in Nat /\ PoolSize \in Nat \ {0} /\ MaxFaults \in Nat

VARIABLES pc,       \* where each replica is in run()
          marked,   \* schema_migrations: the version and the dirty flag
          applied,  \* how many migrations the tables really have
          lock,     \* who holds the advisory lock of the migrations
          seeded,   \* how often the demo events were inserted
          late,     \* replicas whose drain ended by its deadline
          failed,   \* replicas whose server died on its own
          request,  \* where each request is, and on which replica
          faults,   \* deaths and errors so far
          fresh     \* replicas that booted before there were events (history)

database == <<marked, applied, lock, seeded>>
vars == <<pc, database, late, failed, request, faults, fresh>>

Starting == {"migrate", "version", "script", "mark", "ping", "count", "insert"}
\* "listen" is served while the signal handler is not installed yet.
Serving == {"listen", "serve"}
Stopping == {"drain", "release", "close"}

\* step  "client": the server reads from the client or writes to it
\* cut   a query was refused because the pool was closed (history)
Request == [at : Replicas \cup {Nobody}, step : {"none", "client", "acquire", "query"},
            cut : BOOLEAN]
NoRequest == [at |-> Nobody, step |-> "none", cut |-> FALSE]

Init == /\ pc = [r \in Replicas |-> "off"]
        /\ marked = [version |-> 0, dirty |-> FALSE]
        /\ applied = 0
        /\ lock = Nobody
        /\ seeded = 0
        /\ late = {} /\ failed = {} /\ fresh = {}
        /\ request = [q \in Requests |-> NoRequest]
        /\ faults = 0

At(r) == {q \in Requests : request[q].at = r}
Holding(r) == {q \in At(r) : request[q].step = "query"}

Goes(r, step) == pc' = [pc EXCEPT ![r] = step]
\* The process is gone: Postgres drops its sessions, the clients their requests.
Ends(r) == /\ Goes(r, "off")
           /\ lock' = IF lock = r THEN Nobody ELSE lock
           /\ request' = [q \in Requests |-> IF q \in At(r) THEN NoRequest ELSE request[q]]
           /\ late' = late \ {r} /\ failed' = failed \ {r} /\ fresh' = fresh \ {r}
Process == <<late, failed, faults, fresh>>
-----------------------------------------------------------------------------
\* config.Load accepts the environment, or run returns at once.
Boot(r) == /\ pc[r] = "off"
           /\ Goes(r, "migrate")
           /\ fresh' = IF seeded = 0 THEN fresh \cup {r} ELSE fresh
           /\ UNCHANGED <<database, late, failed, request, faults>>

\* m.Up takes the lock.
TakeLock(r) == /\ pc[r] = "migrate"
               /\ lock = Nobody
               /\ lock' = r
               /\ Goes(r, "version")
               /\ UNCHANGED <<marked, applied, seeded, request, Process>>

\* The version says that everything is applied: ErrNoChange, which is no error.
UpToDate(r) == /\ pc[r] = "version"
               /\ ~marked.dirty /\ marked.version = Latest
               /\ lock' = Nobody
               /\ Goes(r, "ping")
               /\ UNCHANGED <<marked, applied, seeded, request, Process>>

\* The next migration is pending: its version is marked dirty, ...
MarkDirty(r) == /\ pc[r] = "version"
                /\ ~marked.dirty /\ marked.version < Latest
                /\ marked' = [version |-> marked.version + 1, dirty |-> TRUE]
                /\ Goes(r, "script")
                /\ UNCHANGED <<applied, lock, seeded, request, Process>>
\* ... its script runs, as one transaction, ...
RunScript(r) == /\ pc[r] = "script"
                /\ applied' = applied + 1
                /\ Goes(r, "mark")
                /\ UNCHANGED <<marked, lock, seeded, request, Process>>
\* ... and the mark is taken off.
MarkClean(r) == /\ pc[r] = "mark"
                /\ marked' = [marked EXCEPT !.dirty = FALSE]
                /\ Goes(r, "version")
                /\ UNCHANGED <<applied, lock, seeded, request, Process>>

\* Faulty variant of MigrateFails: the error is logged, and the replica starts.
MigrateFailsSoftly(r) ==
  /\ \/ pc[r] = "version" /\ marked.dirty
     \/ pc[r] \in {"migrate", "version", "script", "mark"} /\ faults < MaxFaults
  /\ lock' = IF lock = r THEN Nobody ELSE lock
  /\ Goes(r, "ping")
  /\ UNCHANGED <<marked, applied, seeded, request, Process>>
\* Migrate returns an error: the database is dirty, the lock was not got in time,
\* or a statement failed.  run returns it.
MigrateFails(r) ==
  /\ \/ pc[r] = "version" /\ marked.dirty /\ UNCHANGED faults
     \/ /\ pc[r] \in {"migrate", "version", "script", "mark"}
        /\ faults < MaxFaults /\ faults' = faults + 1
  /\ Ends(r)
  /\ UNCHANGED <<marked, applied, seeded>>

\* NewPool.
Ping(r) == /\ pc[r] = "ping"
           /\ Goes(r, "count")
           /\ UNCHANGED <<database, request, Process>>

\* Faulty variant of Empty: Seed does not look.
EmptyAlways == TRUE
\* What COUNT(*) says.
Empty == seeded = 0

\* Seed counts the events, ...
Count(r) == /\ pc[r] = "count"
            /\ Goes(r, IF Empty THEN "insert" ELSE "listen")
            /\ UNCHANGED <<database, request, Process>>
\* ... and inserts its own.
Seed(r) == /\ pc[r] = "insert"
           /\ seeded' = seeded + 1
           /\ Goes(r, "listen")
           /\ UNCHANGED <<marked, applied, lock, request, Process>>

\* Postgres cannot be asked, or the answer is lost: the pool is closed, run returns.
StoreFails(r) == /\ pc[r] \in {"ping", "count", "insert"}
                 /\ faults < MaxFaults /\ faults' = faults + 1
                 /\ \/ UNCHANGED seeded
                    \/ pc[r] = "insert" /\ seeded' = seeded + 1
                 /\ Ends(r)
                 /\ UNCHANGED <<marked, applied>>
-----------------------------------------------------------------------------
\* signal.NotifyContext: from now on a signal is waited for.
Handle(r) == /\ pc[r] = "listen"
             /\ Goes(r, "serve")
             /\ UNCHANGED <<database, request, Process>>

\* Faulty variant of Accept: the server is started first.
AcceptEarly(q, r) ==
  /\ pc[r] # "off"
  /\ request[q].step = "none"
  /\ request' = [request EXCEPT ![q] = [NoRequest EXCEPT !.at = r, !.step = "client"]]
  /\ UNCHANGED <<pc, database, Process>>
\* A client connects to a replica that listens.
Accept(q, r) == /\ pc[r] \in Serving
                /\ request[q].step = "none"
                /\ request' = [request EXCEPT ![q] = [NoRequest EXCEPT !.at = r, !.step = "client"]]
                /\ UNCHANGED <<pc, database, Process>>

Steps(q, step) == /\ request' = [request EXCEPT ![q].step = step]
                  /\ UNCHANGED <<pc, database, Process>>

\* The handler wants to query: it waits for a connection of the pool.
Ask(q) == request[q].step = "client" /\ Steps(q, "acquire")

\* It gets one, unless the pool is closed.
Acquire(q) == LET r == request[q].at
              IN  /\ request[q].step = "acquire"
                  /\ pc[r] # "close"
                  /\ Cardinality(Holding(r)) < PoolSize
                  /\ Steps(q, "query")
\* "closed pool": the handler answers 500.
Refuse(q) == /\ request[q].step = "acquire"
             /\ pc[request[q].at] = "close"
             /\ request' = [request EXCEPT ![q].step = "client", ![q].cut = TRUE]
             /\ UNCHANGED <<pc, database, Process>>

\* The query is answered; its connection goes back.
QueryEnds(q) == request[q].step = "query" /\ Steps(q, "client")

\* The client has its answer, or is gone.
Finish(q) == /\ request[q].step = "client"
             /\ request' = [request EXCEPT ![q] = NoRequest]
             /\ UNCHANGED <<pc, database, Process>>
-----------------------------------------------------------------------------
\* A signal, and NotifyContext has cancelled its context.  stop() follows.
Signal(r) == /\ pc[r] = "serve"
             /\ Goes(r, "drain")
             /\ UNCHANGED <<database, request, Process>>

\* serverErr: the server died, and the pool is closed at once.
ServerFails(r) == /\ pc[r] = "serve"
                  /\ faults < MaxFaults /\ faults' = faults + 1
                  /\ failed' = failed \cup {r}
                  /\ Goes(r, "close")
                  /\ UNCHANGED <<database, request, late, fresh>>

\* Faulty variant of Drained: Shutdown is not waited for.
DrainedAtOnce(r) == /\ pc[r] = "drain"
                    /\ Goes(r, "release")
                    /\ UNCHANGED <<database, request, Process>>
\* Shutdown returns: every request is answered ...
Drained(r) == /\ pc[r] = "drain"
              /\ At(r) = {}
              /\ Goes(r, "release")
              /\ UNCHANGED <<database, request, Process>>
\* Faulty variant of Deadline: there is none.
NoDeadline(r) == FALSE /\ UNCHANGED vars
\* ... or its context has expired, and they go on.
Deadline(r) == /\ pc[r] = "drain"
               /\ At(r) # {}
               /\ late' = late \cup {r}
               /\ Goes(r, "release")
               /\ UNCHANGED <<database, request, failed, faults, fresh>>

\* The notifier and Redis are closed, then the pool: it grants nothing any more.
Release(r) == /\ pc[r] = "release"
              /\ Goes(r, "close")
              /\ UNCHANGED <<database, request, Process>>
\* pool.Close returns when every connection is back, and run returns.
Closed(r) == /\ pc[r] = "close"
             /\ Holding(r) = {}
             /\ Ends(r)
             /\ UNCHANGED <<marked, applied, seeded, faults>>

\* The process dies: a crash, SIGKILL, a signal before NotifyContext or a second one.
Dies(r) == /\ pc[r] # "off"
           /\ faults < MaxFaults /\ faults' = faults + 1
           /\ Ends(r)
           /\ UNCHANGED <<marked, applied, seeded>>

Start(r) == \/ TakeLock(r) \/ UpToDate(r) \/ MarkDirty(r) \/ RunScript(r) \/ MarkClean(r)
            \/ MigrateFails(r) \/ Ping(r) \/ Count(r) \/ Seed(r)
Stop(r) == Drained(r) \/ Deadline(r) \/ Release(r) \/ Closed(r)
Work(q) == Ask(q) \/ Acquire(q) \/ Refuse(q) \/ QueryEnds(q) \/ Finish(q)

Next == \/ \E r \in Replicas :
             \/ Boot(r) \/ Start(r) \/ StoreFails(r) \/ Handle(r) \/ Signal(r)
             \/ ServerFails(r) \/ Stop(r) \/ Dies(r)
        \/ \E q \in Requests : Work(q) \/ \E r \in Replicas : Accept(q, r)

Spec == Init /\ [][Next]_vars

\* run() goes on when it can.  No client is fair, and nor is a query.
FairSpec == Spec /\ \A r \in Replicas : WF_vars(Stop(r))
-----------------------------------------------------------------------------
\* Everything has its type, and only a replica that has listened has requests.
TypeOK == /\ pc \in [Replicas -> {"off"} \cup Starting \cup Serving \cup Stopping]
          /\ marked \in [version : 0..Latest, dirty : BOOLEAN]
          /\ applied \in 0..Latest
          /\ lock \in Replicas \cup {Nobody}
          /\ seeded \in Nat
          /\ late \subseteq Replicas /\ failed \subseteq Replicas /\ fresh \subseteq Replicas
          /\ request \in [Requests -> Request]
          /\ \A r \in Replicas : At(r) # {} => pc[r] \in Serving \cup Stopping
          /\ faults \in 0..MaxFaults

\* main.go: "The app should never talk to a database whose schema it hasn't
\* verified": a replica past Migrate has every table, however many start at once
\* and wherever they die.
ServesMigrated == \A r \in Replicas :
  pc[r] \notin {"off", "migrate", "version", "script", "mark"} =>
    applied = Latest /\ ~marked.dirty

\* main.go: "closing the pool while requests are still finishing would fail those
\* requests": none is failed by the shutdown, unless it outlived the deadline or
\* the server died.
NoneCutShort == \A q \in Requests :
  request[q].cut => request[q].at \in late \cup failed

\* Seed: "already has data; don't duplicate on every restart".
RestartSeedsNothing == \A r \in Replicas : pc[r] = "insert" => r \in fresh

\* main.go: "Without a deadline, one slow request (or a hung one) would block
\* shutdown forever": with it, a replica told to stop exits, whatever its clients
\* do, unless there is for ever a query that keeps its connection from
\* pool.Close (main.go:438).
ShutdownEnds ==
  \A r \in Replicas :
    pc[r] \in Stopping ~> (pc[r] = "off" \/ [](pc[r] = "close" /\ Holding(r) # {}))
=============================================================================
