---------------------------- MODULE MemoryStore ----------------------------
(***************************************************************************)
(* internal/storage/storage.go: the store of a process without a database. *)
(* Every method holds the mutex from its first line to its return, so each *)
(* is one step; the rows live in three maps.  It has the variables of the  *)
(* ledger and promises the same, with a loop for what the ledger only      *)
(* states, and it reads the clock under the mutex.                         *)
(***************************************************************************)
EXTENDS BookingLedger

VARIABLE clock   \* the newest time.Now() read; Stamps bounds it

memVars == <<vars, clock>>

MemInit == Init /\ clock \in Stamps /\ \A t \in Stamps : clock <= t

\* Faulty variant of Now: the time is read before the mutex is locked.
ReadBeforeLock == Stamps
\* time.Now(), whose monotonic reading never goes back.
Now == {t \in Stamps : t >= clock}

MemCreate(e, n) == Create(e, n) /\ UNCHANGED clock

\* No room: the user joins the queue.
Join(e, u, n) ==
  \E now \in Now :
    /\ waitlist' = waitlist \cup {[event |-> e, user |-> u, seats |-> n, at |-> now]}
    /\ clock' = now
    /\ UNCHANGED <<capacity, seats, bookings>>

\* Faulty variant of TakeSeats: the event's copy is never written back.
TakeFromCopy(e, u, n) ==
  /\ bookings' = bookings \cup {[event |-> e, user |-> u, seats |-> n]}
  /\ UNCHANGED <<capacity, seats, waitlist, clock>>

TakeSeats(e, u, n) ==
  /\ bookings' = bookings \cup {[event |-> e, user |-> u, seats |-> n]}
  /\ seats' = [seats EXCEPT ![e] = @ - n]
  /\ UNCHANGED <<capacity, waitlist, clock>>

\* Faulty variant of HasPlace: the loop over the waitlist is forgotten.
HasBooking(e, u) == RowsFor(bookings, e, u) # {}
HasPlace(e, u) == RowsFor(bookings, e, u) \cup RowsFor(waitlist, e, u) # {}

\* A user who has a place gets it returned, whatever the request asks for.
MemBook(e, u, n) ==
  /\ capacity[e] > 0
  /\ \/ HasPlace(e, u) /\ UNCHANGED memVars
     \/ ~HasPlace(e, u) /\ n > seats[e] /\ Join(e, u, n)
     \/ ~HasPlace(e, u) /\ n <= seats[e] /\ TakeSeats(e, u, n)

\* CancelBooking's loop keeps these: what is left, who was promoted, and
\* whether it is over.
Loop(left, promoted, over) == [left |-> left, promoted |-> promoted, over |-> over]

\* Faulty variant of Fits: an entry that takes the last seat does not fit.
FitsWithRoom(w, left) == w.seats < left
Fits(w, left) == w.seats <= left

\* Faulty variant of FirstOf: the maps are not sorted.
AnyEntry(queue) == queue
\* The queue's first element, once sorted by CreatedAt: equal stamps leave it open.
FirstOf(queue) == Oldest(queue)

\* What one round makes of the loop's state s.
Round(e, s) ==
  LET queue == RowsOf(waitlist, e) \ s.promoted
  IN  IF s.over \/ s.left = 0 \/ queue = {}
      THEN {[s EXCEPT !.over = TRUE]}
      ELSE {IF Fits(w, s.left)
            THEN Loop(s.left - w.seats, s.promoted \cup {w}, FALSE)
            ELSE [s EXCEPT !.over = TRUE] : w \in FirstOf(queue)}

\* The states the loop can end in.  Every round but the last promotes one.
Results(e, available) ==
  LET rounds[k \in 0..Cardinality(RowsOf(waitlist, e)) + 1] ==
        IF k = 0 THEN {Loop(available, {}, FALSE)}
                 ELSE UNION {Round(e, s) : s \in rounds[k - 1]}
  IN  rounds[Cardinality(RowsOf(waitlist, e)) + 1]

MemCancel(e, u) ==
  \E b \in RowsFor(bookings, e, u) :
    \E s \in Results(e, seats[e] + b.seats) :
      /\ bookings' = (bookings \ {b}) \cup {AsBooking(w) : w \in s.promoted}
      /\ waitlist' = waitlist \ s.promoted
      /\ seats' = [seats EXCEPT ![e] = s.left]
      /\ UNCHANGED <<capacity, clock>>

MemNext == \E e \in Events :
             \/ \E n \in Capacities : MemCreate(e, n)
             \/ \E u \in Users, n \in Wants : MemBook(e, u, n)
             \/ \E u \in Users : MemCancel(e, u)

MemSpec == MemInit /\ [][MemNext]_memVars
-----------------------------------------------------------------------------
\* The map-based store keeps the promise of the interface: its loop finds what
\* the ledger asks of a cancellation, and all that a booking does is one step of
\* the ledger (storage.go:140-251).
ImplementsLedger == Spec

\* "The user keeps their place in line" (postgres.go:278).  Here it is true,
\* where entries get their stamp under the lock that orders them: whoever waits
\* never sees the number of older entries grow.
Ahead(queue, w) == {v \in queue : v.event = w.event /\ v.at < w.at}
PlaceKept ==
  [][\A w \in waitlist \cap waitlist' :
       Cardinality(Ahead(waitlist', w)) <= Cardinality(Ahead(waitlist, w))]_memVars
=============================================================================
