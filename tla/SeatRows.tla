------------------------------ MODULE SeatRows ------------------------------
(***************************************************************************)
(* The rows of the tables bookings and waitlist and the questions the      *)
(* stores ask of them.  A row is reduced to what the code decides on: the  *)
(* event, the user, the number of seats and, for a waitlist row, the       *)
(* created_at stamp that orders the queue.                                 *)
(***************************************************************************)
EXTENDS Integers, FiniteSets

CONSTANTS Events,       \* event ids
          Users,        \* user ids
          Capacities,   \* seat counts an event may be created with
          Wants         \* seat counts a user may ask for

\* createEvent and bookEvent refuse a seat count that is not positive.
ASSUME SeatAssumption == Capacities \subseteq Nat \ {0} /\ Wants \subseteq Nat \ {0}

Booking == [event : Events, user : Users, seats : Wants]
WaitlistEntry == [event : Events, user : Users, seats : Wants, at : Nat]

\* The rows of event e, and those of user u for event e.
RowsOf(rows, e) == {x \in rows : x.event = e}
RowsFor(rows, e, u) == {x \in rows : x.event = e /\ x.user = u}

\* The booking that promoting the waitlist row w creates.
AsBooking(w) == [event |-> w.event, user |-> w.user, seats |-> w.seats]

\* What ORDER BY created_at LIMIT 1 may return: stamps are not unique, so it
\* is any row no other row is older than.
Oldest(queue) == {w \in queue : \A v \in queue : w.at <= v.at}

\* One unit per seat of every row: SUM(seats) is the number of units.
Units(rows) == UNION {{x} \X (1..x.seats) : x \in rows}
SeatSum(rows) == Cardinality(Units(rows))

\* UNIQUE (event_id, user_id)
OneRowPerUser(rows) ==
  \A x, y \in rows : x.event = y.event /\ x.user = y.user => x = y
=============================================================================
