--------------------------- MODULE BookingLedger ---------------------------
(***************************************************************************)
(* What the Store interface promises its callers: one seat counter, one    *)
(* set of bookings and one waitlist per event, and three operations on     *)
(* them, each taking effect in one indivisible step.  Cancelling states    *)
(* its result and not the loop that computes it: a first part of the queue *)
(* is promoted and what is left of the queue cannot be served.             *)
(***************************************************************************)
EXTENDS SeatRows

CONSTANT Stamps   \* the created_at values a waitlist row may be given
ASSUME StampAssumption == Stamps \subseteq Nat

VARIABLES capacity,   \* seats the event was created with; 0: no such event
          seats,      \* seats left, the column events.seats
          bookings,   \* committed rows of bookings
          waitlist    \* committed rows of waitlist

vars == <<capacity, seats, bookings, waitlist>>

Init == /\ capacity = [e \in Events |-> 0]
        /\ seats = [e \in Events |-> 0]
        /\ bookings = {}
        /\ waitlist = {}

Create(e, n) == /\ capacity[e] = 0
                /\ capacity' = [capacity EXCEPT ![e] = n]
                /\ seats' = [seats EXCEPT ![e] = n]
                /\ UNCHANGED <<bookings, waitlist>>

Newcomer(e, u) == RowsFor(bookings, e, u) = {} /\ RowsFor(waitlist, e, u) = {}

\* Outcome "booked".
Book(e, u, n) ==
  /\ capacity[e] > 0
  /\ Newcomer(e, u)
  /\ n <= seats[e]
  /\ bookings' = bookings \cup {[event |-> e, user |-> u, seats |-> n]}
  /\ seats' = [seats EXCEPT ![e] = @ - n]
  /\ UNCHANGED <<capacity, waitlist>>

\* Outcome "waitlisted".  The place in the queue is the entry's stamp, which
\* the promise leaves open.
Enqueue(e, u, n, at) ==
  /\ capacity[e] > 0
  /\ Newcomer(e, u)
  /\ n > seats[e]
  /\ waitlist' = waitlist \cup {[event |-> e, user |-> u, seats |-> n, at |-> at]}
  /\ UNCHANGED <<capacity, seats, bookings>>

\* Nobody in the queue can be served with `free' seats without skipping an
\* older entry.
Blocked(queue, free) == queue = {} \/ \E w \in Oldest(queue) : w.seats > free

\* `promoted' is a first part of the queue.
InOrder(promoted, rest) == \A p \in promoted, w \in rest : p.at <= w.at

Cancel(e, b, promoted) ==
  LET rest == RowsOf(waitlist, e) \ promoted
      free == seats[e] + b.seats - SeatSum(promoted)
  IN  /\ free >= 0
      /\ InOrder(promoted, rest)
      /\ Blocked(rest, free)
      /\ bookings' = (bookings \ {b}) \cup {AsBooking(w) : w \in promoted}
      /\ waitlist' = waitlist \ promoted
      /\ seats' = [seats EXCEPT ![e] = free]
      /\ UNCHANGED capacity

Next == \E e \in Events :
          \/ \E n \in Capacities : Create(e, n)
          \/ \E u \in Users, n \in Wants : Book(e, u, n)
          \/ \E u \in Users, n \in Wants, at \in Stamps : Enqueue(e, u, n, at)
          \/ \E b \in RowsOf(bookings, e), promoted \in SUBSET RowsOf(waitlist, e) :
               Cancel(e, b, promoted)

Spec == Init /\ [][Next]_vars
-----------------------------------------------------------------------------
TypeOK == /\ capacity \in [Events -> Nat]
          /\ seats \in [Events -> Nat]
          /\ bookings \subseteq Booking
          /\ waitlist \subseteq WaitlistEntry

Sold(e) == SeatSum(RowsOf(bookings, e))

\* No seat is sold twice and none is lost: the seats of an event are either
\* left or held by a booking.  With TypeOK this is also "never oversold".
SeatsConserved == \A e \in Events : seats[e] + Sold(e) = capacity[e]

\* UNIQUE holds in both tables and a user is never booked for an event and
\* waiting for it at the same time (postgres.go:421-422).
OnePlacePerUser ==
  /\ OneRowPerUser(bookings)
  /\ OneRowPerUser(waitlist)
  /\ \A b \in bookings : RowsFor(waitlist, b.event, b.user) = {}

\* No seat stays free that the head of the queue could take.
QueueBlocked == \A e \in Events : Blocked(RowsOf(waitlist, e), seats[e])
=============================================================================
