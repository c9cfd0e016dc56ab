--------------------------- MODULE PostgresStore ---------------------------
(***************************************************************************)
(* internal/storage/postgres.go, one action per SQL statement.  The API    *)
(* replicas share the database and nothing else; what runs concurrently    *)
(* is transactions, one per pool connection, whichever replica owns it.    *)
(*                                                                         *)
(* A transaction keeps its writes to itself until Commit and holds the     *)
(* lock on its event's row from SELECT ... FOR UPDATE until it ends.  The  *)
(* isolation level is READ COMMITTED, pgx's and Postgres's default: each   *)
(* statement sees what is committed when it runs and the transaction's own *)
(* writes.  A failing statement, a violated constraint, a dead replica     *)
(* and a broken connection all end in Rollback.                            *)
(***************************************************************************)
EXTENDS SeatRows

CONSTANTS Conns,     \* connections of the pools of all replicas
          NoConn,    \* nobody
          MaxClock   \* bound on now()

ASSUME ConnAssumption == NoConn \notin Conns /\ IsFiniteSet(Conns)
ASSUME ClockAssumption == MaxClock \in Nat

VARIABLES capacity,  \* seats the event was created with (history); 0: no row
          seats,     \* events.seats, committed
          bookings,  \* rows of bookings, committed
          waitlist,  \* rows of waitlist, committed
          lock,      \* the connection holding the event's row lock
          clock,     \* now()
          tx         \* the transaction on each connection

tables == <<capacity, seats, bookings, waitlist>>
vars == <<capacity, seats, bookings, waitlist, lock, clock, tx>>

\* pc is the statement to run next.
PCs == {"lock", "findBooking", "findWaitlist", "decide", "takeSeats",
        "delete", "promote", "setSeats", "commit"}
Outcomes == {"none", "booked", "waitlisted", "already_booked",
             "already_waitlisted", "cancelled"}

\* start    created_at of every row it inserts: DEFAULT now() is the time of
\*          BEGIN and not of the INSERT
\* left     the seats it counts as left: e.Seats as read, then as changed
\* booked, unbooked, queued, unqueued   rows inserted and deleted so far
Tx == [pc : PCs, op : {"book", "cancel"}, event : Events, user : Users,
       want : Nat, start : Nat, left : Nat, outcome : Outcomes,
       booked : SUBSET Booking, unbooked : SUBSET Booking,
       queued : SUBSET WaitlistEntry, unqueued : SUBSET WaitlistEntry]
NoTx == [pc |-> "idle"]

Init == /\ capacity = [e \in Events |-> 0]
        /\ seats = [e \in Events |-> 0]
        /\ bookings = {}
        /\ waitlist = {}
        /\ lock = [e \in Events |-> NoConn]
        /\ clock = 0
        /\ tx = [c \in Conns |-> NoTx]

\* The tables as the transaction on c sees them.
SeenBookings(c) == (bookings \ tx[c].unbooked) \cup tx[c].booked
SeenWaitlist(c) == (waitlist \ tx[c].unqueued) \cup tx[c].queued
HasBooking(c, u) == RowsFor(SeenBookings(c), tx[c].event, u) # {}
InQueue(c, u) == RowsFor(SeenWaitlist(c), tx[c].event, u) # {}
Queue(c) == RowsOf(SeenWaitlist(c), tx[c].event)

\* The transaction on c ends: its locks are released.
End(c) == /\ tx' = [tx EXCEPT ![c] = NoTx]
          /\ lock' = [e \in Events |-> IF lock[e] = c THEN NoConn ELSE lock[e]]
          /\ UNCHANGED clock

\* Inside a transaction nothing but the transaction's own record changes.
Private == UNCHANGED <<tables, lock, clock>>
-----------------------------------------------------------------------------
\* Create: one INSERT, a transaction of its own.
CreateEvent(e) == /\ capacity[e] = 0
                  /\ \E n \in Capacities :
                       /\ capacity' = [capacity EXCEPT ![e] = n]
                       /\ seats' = [seats EXCEPT ![e] = n]
                  /\ UNCHANGED <<bookings, waitlist, lock, clock, tx>>

Started(op, e, u, n, now) ==
  [pc |-> "lock", op |-> op, event |-> e, user |-> u, want |-> n,
   start |-> now, left |-> 0, outcome |-> "none",
   booked |-> {}, unbooked |-> {}, queued |-> {}, unqueued |-> {}]

\* Faulty variant of Later: the clock of the database's host is set back.
SetBack == 0..MaxClock
\* Time passes between two BEGINs, or does not: two transactions may start
\* within the clock's resolution.
Later == {clock, clock + 1} \cap 0..MaxClock

\* Book's pool.Begin.
BeginBook(c) ==
  /\ tx[c] = NoTx
  /\ clock' \in Later
  /\ \E e \in Events, u \in Users, n \in Wants :
       tx' = [tx EXCEPT ![c] = Started("book", e, u, n, clock')]
  /\ UNCHANGED <<tables, lock>>

\* CancelBooking's pool.Begin: nothing it stores depends on the time or on a
\* seat count of its own.
BeginCancel(c) ==
  /\ tx[c] = NoTx
  /\ \E e \in Events, u \in Users :
       tx' = [tx EXCEPT ![c] = Started("cancel", e, u, 0, 0)]
  /\ UNCHANGED <<tables, lock, clock>>

\* SELECT ... FOR UPDATE waits for the lock, then reads the row.
\* Faulty variant of CanLock: the SELECT without FOR UPDATE.
NeverWaits(e) == TRUE
CanLock(e) == lock[e] = NoConn

LockEvent(c) ==
  LET e == tx[c].event
  IN  /\ tx[c].pc = "lock"
      /\ capacity[e] > 0
      /\ CanLock(e)
      /\ lock' = [lock EXCEPT ![e] = c]
      /\ tx' = [tx EXCEPT ![c].left = seats[e],
                          ![c].pc = IF tx[c].op = "book" THEN "findBooking" ELSE "delete"]
      /\ UNCHANGED <<tables, clock>>

\* pgx.ErrNoRows: 404, the deferred Rollback ends the transaction.
EventNotFound(c) == /\ tx[c].pc = "lock"
                    /\ capacity[tx[c].event] = 0
                    /\ End(c)
                    /\ UNCHANGED tables
-----------------------------------------------------------------------------
\* Idempotency check 1, getBookingTx.
FindBooking(c) ==
  /\ tx[c].pc = "findBooking"
  /\ tx' = IF HasBooking(c, tx[c].user)
           THEN [tx EXCEPT ![c].pc = "commit", ![c].outcome = "already_booked"]
           ELSE [tx EXCEPT ![c].pc = "findWaitlist"]
  /\ Private

\* Faulty variant of FindWaitlist: no idempotency check 2.
SkipFindWaitlist(c) == /\ tx[c].pc = "findWaitlist"
                       /\ tx' = [tx EXCEPT ![c].pc = "decide"]
                       /\ Private

\* Idempotency check 2, getWaitlistTx.
FindWaitlist(c) ==
  /\ tx[c].pc = "findWaitlist"
  /\ tx' = IF InQueue(c, tx[c].user)
           THEN [tx EXCEPT ![c].pc = "commit", ![c].outcome = "already_waitlisted"]
           ELSE [tx EXCEPT ![c].pc = "decide"]
  /\ Private

\* seats > e.Seats: INSERT INTO waitlist.  On a conflict DO NOTHING returns
\* no row, and Scan's error rolls back.
InsertWaitlist(c) ==
  /\ tx[c].pc = "decide"
  /\ tx[c].want > tx[c].left
  /\ ~InQueue(c, tx[c].user)
  /\ tx' = [tx EXCEPT
       ![c].queued = {[event |-> tx[c].event, user |-> tx[c].user,
                       seats |-> tx[c].want, at |-> tx[c].start]},
       ![c].outcome = "waitlisted",
       ![c].pc = "commit"]
  /\ Private

\* Room: INSERT INTO bookings, where UNIQUE is an error.
InsertBooking(c) ==
  /\ tx[c].pc = "decide"
  /\ tx[c].want <= tx[c].left
  /\ ~HasBooking(c, tx[c].user)
  /\ tx' = [tx EXCEPT
       ![c].booked = {[event |-> tx[c].event, user |-> tx[c].user,
                       seats |-> tx[c].want]},
       ![c].pc = "takeSeats"]
  /\ Private

\* UPDATE ... SET seats = seats - $1 works on the row as it is now, and
\* CHECK (seats >= 0) guards it.
TakeSeats(c) ==
  /\ tx[c].pc = "takeSeats"
  /\ tx[c].want <= seats[tx[c].event]
  /\ tx' = [tx EXCEPT ![c].left = seats[tx[c].event] - tx[c].want,
                      ![c].outcome = "booked",
                      ![c].pc = "commit"]
  /\ Private
-----------------------------------------------------------------------------
\* Faulty variant of DeleteBooking: the seats that were left are forgotten.
DeleteForgetsLeft(c) ==
  /\ tx[c].pc = "delete"
  /\ \E b \in RowsFor(SeenBookings(c), tx[c].event, tx[c].user) :
       tx' = [tx EXCEPT ![c].unbooked = {b}, ![c].left = b.seats, ![c].pc = "promote"]
  /\ Private

\* DELETE FROM bookings ... RETURNING seats.
DeleteBooking(c) ==
  /\ tx[c].pc = "delete"
  /\ \E b \in RowsFor(SeenBookings(c), tx[c].event, tx[c].user) :
       tx' = [tx EXCEPT ![c].unbooked = {b},
                        ![c].left = @ + b.seats,
                        ![c].pc = "promote"]
  /\ Private

\* No row deleted: 404.
NothingToCancel(c) == /\ tx[c].pc = "delete"
                      /\ ~HasBooking(c, tx[c].user)
                      /\ End(c)
                      /\ UNCHANGED tables

\* promoteTx, one round of the loop: insert the booking of an entry of
\* `chosen' and delete its row.  A failure in between is a Rollback.
PromoteOneOf(c, chosen) ==
  /\ tx[c].pc = "promote"
  /\ tx[c].left > 0
  /\ \E w \in chosen :
       /\ ~HasBooking(c, w.user)
       /\ tx' = [tx EXCEPT ![c].booked = @ \cup {AsBooking(w)},
                           ![c].unqueued = @ \cup {w},
                           ![c].left = @ - w.seats]
  /\ Private

\* Faulty variants of Promote: no check that the entry fits, and no ORDER BY.
PromoteUnfitting(c) == PromoteOneOf(c, Oldest(Queue(c)))
PromoteAnyone(c) == PromoteOneOf(c, {w \in Queue(c) : w.seats <= tx[c].left})

\* The round promoteTx makes: the oldest entry, if it fits.
Promote(c) ==
  PromoteOneOf(c, {w \in Oldest(Queue(c)) : w.seats <= tx[c].left})

\* Faulty variant of PromoteDone: the loop may stop while the head fits.
PromoteDoneEarly(c) == /\ tx[c].pc = "promote"
                       /\ tx' = [tx EXCEPT ![c].pc = "setSeats"]
                       /\ Private

\* The loop ends: no seat left, nobody waiting, or strict FIFO stops it.
PromoteDone(c) ==
  /\ tx[c].pc = "promote"
  /\ \/ tx[c].left = 0
     \/ Queue(c) = {}
     \/ \E w \in Oldest(Queue(c)) : w.seats > tx[c].left
  /\ tx' = [tx EXCEPT ![c].pc = "setSeats"]
  /\ Private

\* UPDATE events SET seats = $1, an absolute value computed from the read.
SetSeats(c) == /\ tx[c].pc = "setSeats"
               /\ tx' = [tx EXCEPT ![c].outcome = "cancelled", ![c].pc = "commit"]
               /\ Private
-----------------------------------------------------------------------------
\* COMMIT publishes the writes and releases the lock.  Whether the answer
\* reaches the client changes nothing here: its retry is another Begin.
Commit(c) ==
  LET t == tx[c]
  IN  /\ t.pc = "commit"
      /\ bookings' = SeenBookings(c)
      /\ waitlist' = SeenWaitlist(c)
      /\ seats' = IF t.outcome \in {"booked", "cancelled"}
                  THEN [seats EXCEPT ![t.event] = t.left]
                  ELSE seats
      /\ UNCHANGED capacity
      /\ End(c)

\* Faulty variant of Rollback: the transaction is left open.
RollbackLeaks(c) == /\ tx[c] # NoTx
                    /\ tx' = [tx EXCEPT ![c] = NoTx]
                    /\ UNCHANGED <<tables, lock, clock>>

\* Any error before COMMIT, or the death of the replica or the connection.
Rollback(c) == tx[c] # NoTx /\ End(c) /\ UNCHANGED tables

\* What the code does next on its own once it has the lock.
Statement(c) ==
  \/ EventNotFound(c)
  \/ FindBooking(c) \/ FindWaitlist(c) \/ InsertWaitlist(c)
  \/ InsertBooking(c) \/ TakeSeats(c)
  \/ DeleteBooking(c) \/ NothingToCancel(c)
  \/ Promote(c) \/ PromoteDone(c) \/ SetSeats(c)
  \/ Commit(c)

Next == \/ \E e \in Events : CreateEvent(e)
        \/ \E c \in Conns : BeginBook(c) \/ BeginCancel(c) \/ LockEvent(c)
                           \/ Statement(c) \/ Rollback(c)

Spec == Init /\ [][Next]_vars

\* The process and the database keep running a transaction they began, and a
\* row lock released again and again is granted in the end: Postgres queues
\* the waiters of a row.
FairSpec == Spec /\ \A c \in Conns : WF_vars(Statement(c)) /\ SF_vars(LockEvent(c))
-----------------------------------------------------------------------------
TypeOK == /\ capacity \in [Events -> Nat]
          /\ seats \in [Events -> Nat]
          /\ bookings \subseteq Booking
          /\ waitlist \subseteq WaitlistEntry
          /\ lock \in [Events -> Conns \cup {NoConn}]
          /\ clock \in 0..MaxClock
          /\ tx \in [Conns -> Tx \cup {NoTx}]

\* Every step of a transaction is a step of the ledger or none at all, however
\* many transactions overlap and wherever they fail: each outcome takes effect
\* once, at its COMMIT (Book and CancelBooking, postgres.go:218-386).
Ledger == INSTANCE BookingLedger WITH Stamps <- 0..MaxClock
ImplementsLedger == Ledger!Spec

\* The seats left and the seats booked add up to the event's capacity, in
\* every committed state: never oversold, none lost to a failure between the
\* booking's INSERT and the UPDATE of the counter (postgres.go:203-206).
SeatsConserved == Ledger!SeatsConserved

\* A user holds at most one booking and one waitlist entry for an event and
\* never both, whatever duplicates of a request run side by side
\* (postgres.go:241-275, 421-422).
OnePlacePerUser == Ledger!OnePlacePerUser

\* While someone waits, the oldest entry does not fit: the freed seats went
\* to the queue before the cancellation became visible (postgres.go:323-329).
QueueBlocked == Ledger!QueueBlocked

\* What a transaction decides on is still true when it acts on it: the counter
\* it read under the lock is the committed one, and the rows its idempotency
\* checks did not find have not appeared since ("the \"is there room?\" answer
\* can't change between checking and acting", postgres.go:216-217).
ReadStaysTrue ==
  \A c \in Conns :
    LET t == tx[c]
    IN  /\ t.pc \in {"findBooking", "findWaitlist", "decide", "takeSeats", "delete"}
             => t.left = seats[t.event]
        /\ t.pc \in {"decide", "takeSeats"}
             => /\ RowsFor(bookings, t.event, t.user) = {}
                /\ RowsFor(waitlist, t.event, t.user) = {}

\* The database's constraints are a second line of defence that no interleaving
\* reaches: no INSERT meets a row of the same user, in Book or in the promotion
\* of somebody else (UNIQUE, 000002:39 and 74), and no UPDATE takes the counter
\* below zero (CHECK, 000001:16).  A request never fails for another's sake.
ConstraintsNeverFire ==
  \A c \in Conns :
    LET t == tx[c]
    IN  /\ t.pc = "decide" => IF t.want > t.left THEN ~InQueue(c, t.user)
                                                 ELSE ~HasBooking(c, t.user)
        /\ t.pc = "takeSeats" => t.want <= seats[t.event]
        /\ t.pc = "promote" => \A w \in Oldest(Queue(c)) : ~HasBooking(c, w.user)

\* Who is in front of the waiting row w, and who may still get there because
\* created_at is the time of BEGIN: bookings under way that began earlier.
Ahead(w) == {v \in waitlist : v.event = w.event /\ v.at < w.at}
Overtakers(w) == {c \in Conns : /\ tx[c] # NoTx
                                /\ tx[c].op = "book" /\ tx[c].event = w.event
                                /\ tx[c].start < w.at}

\* "The user keeps their place in line" (postgres.go:278), as far as it goes: a
\* place may move back, but only for one of those who were already on their
\* way, whose number nobody can add to.
PlaceBounded ==
  [][\A w \in waitlist \cap waitlist' :
       Cardinality(Ahead(w)') + Cardinality(Overtakers(w)')
         <= Cardinality(Ahead(w)) + Cardinality(Overtakers(w))]_vars

\* "The people who already waited have priority over someone arriving now"
\* (postgres.go:329): a booking is made for one of those who waited, or while
\* nobody waits.
WaitingHavePriority ==
  [][\A b \in bookings' \ bookings : \/ RowsFor(waitlist, b.event, b.user) # {}
                                     \/ RowsOf(waitlist, b.event) = {}]_vars

\* Every transaction that began ends: waiting for a row lock is never for
\* ever, and no two transactions wait for each other.
TransactionsEnd == \A c \in Conns : tx[c] # NoTx ~> tx[c] = NoTx
=============================================================================
