------------------------ MODULE PostgresStoreProofs ------------------------
(***************************************************************************)
(* PostgresStore implements BookingLedger, for any number of connections,  *)
(* users and events.  The argument is the row lock: from the moment a      *)
(* transaction has it, the rows of its event stand still, so what the      *)
(* transaction has worked out so far (TxInv) stays true until it commits,  *)
(* and the commit is then one step of the ledger.                          *)
(***************************************************************************)
EXTENDS PostgresStore, FiniteSetTheorems, WellFoundedInduction, TLAPS

LedgerProofs == INSTANCE BookingLedgerProofs WITH Stamps <- 0..MaxClock

BookPCs == {"findBooking", "findWaitlist", "decide", "takeSeats"}
CancelPCs == {"delete", "promote", "setSeats"}

\* The transaction has the lock of its event.
Holds(c) == lock[tx[c].event] = c /\ capacity[tx[c].event] > 0

NoInserts(t) == t.booked = {} /\ t.queued = {}
NoDeletes(t) == t.unbooked = {} /\ t.unqueued = {}
NothingWritten(t) == NoInserts(t) /\ NoDeletes(t)

\* The user of t has no row for its event.
NewHere(t) == /\ \A b \in RowsOf(bookings, t.event) : b.user # t.user
              /\ \A w \in RowsOf(waitlist, t.event) : w.user # t.user

BookingOf(t) == [event |-> t.event, user |-> t.user, seats |-> t.want]
EntryOf(t) == [event |-> t.event, user |-> t.user, seats |-> t.want, at |-> t.start]

\* What a Book has inserted so far.
Booking1(t) == /\ t.booked = {BookingOf(t)} /\ t.queued = {} /\ NoDeletes(t)
               /\ NewHere(t)
               /\ t.want <= seats[t.event]
Waiting1(t) == /\ t.queued = {EntryOf(t)} /\ t.booked = {} /\ NoDeletes(t)
               /\ NewHere(t)
               /\ t.want > seats[t.event]

\* The queue a CancelBooking has left to promote from.
Rest(t) == RowsOf(waitlist, t.event) \ t.unqueued

\* The rounds promoteTx has made: a first part of the queue became bookings,
\* and the seats are either promoted or still counted as left.
Promoting(t) ==
  /\ t.queued = {}
  /\ t.unqueued \subseteq RowsOf(waitlist, t.event)
  /\ IsFiniteSet(t.unqueued)
  /\ t.booked = {AsBooking(w) : w \in t.unqueued}
  /\ Ledger!InOrder(t.unqueued, Rest(t))
  /\ \E b \in RowsOf(bookings, t.event) :
       /\ t.unbooked = {b}
       /\ t.left + SeatSum(t.unqueued) = seats[t.event] + b.seats

TxInv(c) ==
  LET t == tx[c]
  IN  t # NoTx =>
        /\ t.op = "book" => t.want \in Wants /\ t.start \in 0..MaxClock
        /\ t.pc \in BookPCs => t.op = "book"
        /\ t.pc \in CancelPCs => t.op = "cancel"
        /\ t.pc \in {"lock", "findBooking", "findWaitlist", "decide", "delete"}
             => NothingWritten(t)
        /\ t.pc # "lock" => Holds(c)
        /\ t.pc \in BookPCs \cup {"delete"} => t.left = seats[t.event]
        /\ t.pc \in {"findWaitlist", "decide"}
             => \A b \in RowsOf(bookings, t.event) : b.user # t.user
        /\ t.pc = "decide" => NewHere(t)
        /\ t.pc = "takeSeats" => Booking1(t)
        /\ t.pc \in {"promote", "setSeats"} => Promoting(t)
        /\ t.pc = "setSeats" => Ledger!Blocked(Rest(t), t.left)
        /\ t.pc = "commit" =>
             \/ /\ t.outcome = "booked" /\ t.op = "book" /\ Booking1(t)
                /\ t.left = seats[t.event] - t.want
             \/ t.outcome = "waitlisted" /\ t.op = "book" /\ Waiting1(t)
             \/ t.outcome \in {"already_booked", "already_waitlisted"} /\ NothingWritten(t)
             \/ t.outcome = "cancelled" /\ Promoting(t) /\ Ledger!Blocked(Rest(t), t.left)

StoreInv == TypeOK /\ \A c \in Conns : TxInv(c)
-----------------------------------------------------------------------------
LEMMA StampsAreNumbers == 0..MaxClock \subseteq Nat
OBVIOUS

\* What the ledger's proofs say of adding up seats, of the tables here.
Counted(rows) == IsFiniteSet(rows) /\ \A x \in rows : x.seats \in Nat

LEMMA SeatSumSame ==
  ASSUME NEW rows
  PROVE  /\ LedgerProofs!SeatSum(rows) = SeatSum(rows)
         /\ LedgerProofs!Units(rows) = Units(rows)
         /\ LedgerProofs!Counted(rows) <=> Counted(rows)
BY DEF LedgerProofs!SeatSum, SeatSum, LedgerProofs!Units, Units, LedgerProofs!Cardinality,
       Cardinality, LedgerProofs!Counted, Counted, LedgerProofs!IsFiniteSet, IsFiniteSet

\* The sum over finitely many rows is a number.
LEMMA SeatSumType ==
  ASSUME NEW rows, Counted(rows)
  PROVE  SeatSum(rows) \in Nat
BY SeatSumSame, StampsAreNumbers, SeatAssumption, LedgerProofs!SeatSumType

\* An empty table sums to zero.
LEMMA SeatSumEmpty == SeatSum({}) = 0
BY SeatSumSame, StampsAreNumbers, SeatAssumption, LedgerProofs!SeatSumEmpty

\* A row that is added adds its seats.
LEMMA SeatSumInsert ==
  ASSUME NEW A, NEW x, Counted(A), x.seats \in Nat, x \notin A
  PROVE  SeatSum(A \cup {x}) = SeatSum(A) + x.seats
BY SeatSumSame, StampsAreNumbers, SeatAssumption, LedgerProofs!SeatSumInsert
-----------------------------------------------------------------------------
\* The rows of event e and its counter, lock and capacity are as they were.
Still(e) == /\ seats'[e] = seats[e]
            /\ RowsOf(bookings', e) = RowsOf(bookings, e)
            /\ RowsOf(waitlist', e) = RowsOf(waitlist, e)
            /\ lock'[e] = lock[e]
            /\ capacity'[e] = capacity[e]

\* A transaction whose event stands still keeps its invariant; before it has
\* the lock it has nothing to lose.
LEMMA Frame ==
  ASSUME NEW c \in Conns, TxInv(c), tx'[c] = tx[c],
         tx[c] # NoTx /\ tx[c].pc # "lock" => Still(tx[c].event)
  PROVE  TxInv(c)'
<1>1. CASE tx[c] = NoTx
  BY <1>1 DEF TxInv
<1>2. CASE tx[c] # NoTx /\ tx[c].pc = "lock"
  BY <1>2 DEF TxInv, NothingWritten, NoInserts, NoDeletes, BookPCs, CancelPCs
<1>3. CASE tx[c] # NoTx /\ tx[c].pc # "lock"
  <2>1. Still(tx[c].event)
    BY <1>3
  <2>2. Rest(tx[c])' = Rest(tx[c])
    BY <2>1 DEF Rest, Still
  <2>3. Holds(c)' = Holds(c) /\ NewHere(tx[c])' = NewHere(tx[c])
    BY <2>1 DEF Holds, NewHere, Still
  <2>4. Promoting(tx[c])' = Promoting(tx[c])
    BY <2>1, <2>2 DEF Promoting, Still
  <2>5. Booking1(tx[c])' = Booking1(tx[c]) /\ Waiting1(tx[c])' = Waiting1(tx[c])
    BY <2>1, <2>3 DEF Booking1, Waiting1, Still, BookingOf, EntryOf, NoDeletes
  <2> QED BY <2>1, <2>2, <2>3, <2>4, <2>5 DEF TxInv, Still, NothingWritten, NoInserts, NoDeletes
<1> QED BY <1>1, <1>2, <1>3

\* A step inside one transaction needs to be checked for that one only.
LEMMA PrivateStep ==
  ASSUME StoreInv, NEW c \in Conns, Private, tx' = [tx EXCEPT ![c] = tx'[c]],
         tx'[c] \in Tx, TxInv(c)'
  PROVE  StoreInv'
<1>1. TypeOK'
  BY DEF StoreInv, TypeOK, Private, tables
<1>2. ASSUME NEW d \in Conns PROVE TxInv(d)'
  <2>1. CASE d = c
    BY <2>1
  <2>2. CASE d # c
    <3>1. tx'[d] = tx[d]
      BY <2>2 DEF StoreInv, TypeOK
    <3>2. Still(tx[d].event)
      BY DEF Still, Private, tables
    <3> QED BY <3>1, <3>2, Frame DEF StoreInv
  <2> QED BY <2>1, <2>2
<1> QED BY <1>1, <1>2 DEF StoreInv

-----------------------------------------------------------------------------
\* The invariant holds before anything is stored.
LEMMA InitInv == Init => StoreInv
<1> SUFFICES ASSUME Init PROVE StoreInv
  OBVIOUS
<1>1. TypeOK
  BY ClockAssumption DEF Init, TypeOK
<1>2. \A c \in Conns : TxInv(c)
  BY DEF Init, TxInv
<1> QED BY <1>1, <1>2 DEF StoreInv

\* A transaction begins with nothing read and nothing written.
LEMMA BeginInv ==
  ASSUME StoreInv, NEW c \in Conns, BeginBook(c) \/ BeginCancel(c)
  PROVE  StoreInv'
<1>1. PICK op \in {"book", "cancel"}, e \in Events, u \in Users, n \in Nat, now \in 0..MaxClock :
        /\ op = "book" => n \in Wants
        /\ tx' = [tx EXCEPT ![c] = Started(op, e, u, n, now)]
  <2>1. CASE BeginBook(c)
    BY <2>1, SeatAssumption DEF BeginBook, Later
  <2>2. CASE BeginCancel(c)
    <3>1. PICK e \in Events, u \in Users :
            tx' = [tx EXCEPT ![c] = Started("cancel", e, u, 0, 0)]
      BY <2>2 DEF BeginCancel
    <3>2. 0 \in Nat /\ 0 \in 0..MaxClock
      BY ClockAssumption
    <3>3. "cancel" \in {"book", "cancel"} /\ "cancel" # "book"
      OBVIOUS
    <3> QED BY <3>1, <3>2, <3>3, Zenon
  <2> QED BY <2>1, <2>2
<1>2. UNCHANGED <<tables, lock>> /\ clock' \in 0..MaxClock
  BY DEF BeginBook, BeginCancel, Later, StoreInv, TypeOK
<1>3. tx'[c] = Started(op, e, u, n, now)
  BY <1>1 DEF StoreInv, TypeOK
<1>4. tx'[c] \in Tx
  BY <1>3, ClockAssumption DEF Tx, Started, PCs, Outcomes
<1>5. TypeOK'
  BY <1>1, <1>2, <1>3, <1>4 DEF StoreInv, TypeOK, tables
<1>6. TxInv(c)'
  BY <1>1, <1>3 DEF TxInv, Started, NothingWritten, NoInserts, NoDeletes, BookPCs, CancelPCs
<1>7. ASSUME NEW d \in Conns, d # c PROVE TxInv(d)'
  <2>1. tx'[d] = tx[d]
    BY <1>1, <1>7 DEF StoreInv, TypeOK
  <2>2. Still(tx[d].event)
    BY <1>2 DEF Still, tables
  <2> QED BY <2>1, <2>2, Frame DEF StoreInv
<1> QED BY <1>5, <1>6, <1>7 DEF StoreInv

\* Two transactions that have the lock of their events are about different
\* events.
LEMMA DifferentEvents ==
  ASSUME NEW c \in Conns, NEW d \in Conns, c # d, Holds(c), Holds(d)
  PROVE  tx[c].event # tx[d].event
BY DEF Holds

\* A new event is nobody's yet.
LEMMA CreateInv ==
  ASSUME StoreInv, NEW e \in Events, CreateEvent(e)
  PROVE  StoreInv'
<1>1. TypeOK'
  BY SeatAssumption DEF CreateEvent, StoreInv, TypeOK
<1>2. ASSUME NEW c \in Conns PROVE TxInv(c)'
  <2>1. TxInv(c) /\ tx'[c] = tx[c]
    BY DEF CreateEvent, StoreInv
  <2>2. ASSUME tx[c] # NoTx /\ tx[c].pc # "lock" PROVE Still(tx[c].event)
    <3>1. tx[c].event # e
      BY <2>1, <2>2 DEF TxInv, Holds, CreateEvent
    <3> QED BY <3>1 DEF Still, CreateEvent, StoreInv, TypeOK
  <2> QED BY <2>1, <2>2, Frame
<1> QED BY <1>1, <1>2 DEF StoreInv

\* SELECT ... FOR UPDATE: the lock was free, so no other transaction is
\* concerned, and what is read is the committed counter.
LEMMA LockInv ==
  ASSUME StoreInv, NEW c \in Conns, LockEvent(c)
  PROVE  StoreInv'
<1> DEFINE e == tx[c].event
<1>1. /\ tx[c] # NoTx /\ tx[c] \in Tx /\ tx[c].pc = "lock"
      /\ NothingWritten(tx[c])
      /\ tx[c].op = "book" => tx[c].want \in Wants /\ tx[c].start \in 0..MaxClock
  BY DEF LockEvent, StoreInv, TypeOK, NoTx, TxInv
<1>2. /\ UNCHANGED <<tables, clock>>
      /\ capacity[e] > 0 /\ lock[e] = NoConn
      /\ lock' = [lock EXCEPT ![e] = c]
      /\ tx' = [tx EXCEPT ![c].left = seats[e],
                          ![c].pc = IF tx[c].op = "book" THEN "findBooking" ELSE "delete"]
  BY DEF LockEvent, CanLock
<1>3. tx'[c] = [tx[c] EXCEPT !.left = seats[e],
                             !.pc = IF tx[c].op = "book" THEN "findBooking" ELSE "delete"]
  BY <1>2 DEF StoreInv, TypeOK
<1>4. e \in Events /\ seats[e] \in Nat
  BY <1>1 DEF Tx, StoreInv, TypeOK
<1>5. tx'[c] \in Tx
  BY <1>1, <1>3, <1>4 DEF Tx, PCs
<1>6. TypeOK'
  BY <1>2, <1>4, <1>5 DEF StoreInv, TypeOK, tables
<1>7. TxInv(c)'
  <2>1. lock'[e] = c
    BY <1>2, <1>4 DEF StoreInv, TypeOK
  <2>2. /\ tx'[c].event = e /\ tx'[c].op = tx[c].op /\ tx'[c].want = tx[c].want
        /\ tx'[c].start = tx[c].start /\ tx'[c].left = seats'[e]
        /\ NothingWritten(tx'[c])
        /\ \/ tx[c].op = "book" /\ tx'[c].pc = "findBooking"
           \/ tx[c].op = "cancel" /\ tx'[c].pc = "delete"
    <3>1. seats' = seats
      BY <1>2 DEF tables
    <3>2. CASE tx[c].op = "book"
      BY <1>1, <1>3, <3>1, <3>2 DEF Tx, NothingWritten, NoInserts, NoDeletes
    <3>3. CASE tx[c].op = "cancel"
      BY <1>1, <1>3, <3>1, <3>3 DEF Tx, NothingWritten, NoInserts, NoDeletes
    <3> QED BY <1>1, <3>2, <3>3 DEF Tx
  <2>3. Holds(c)'
    BY <1>2, <2>1, <2>2 DEF Holds, tables
  <2>4. NothingWritten(tx[c])'
    BY <2>2 DEF NothingWritten, NoInserts, NoDeletes
  <2> QED BY <1>1, <2>2, <2>3, <2>4 DEF TxInv, BookPCs, CancelPCs
<1>8. ASSUME NEW d \in Conns, d # c PROVE TxInv(d)'
  <2>1. TxInv(d) /\ tx'[d] = tx[d]
    BY <1>2, <1>8 DEF StoreInv, TypeOK
  <2>2. ASSUME tx[d] # NoTx /\ tx[d].pc # "lock" PROVE Still(tx[d].event)
    <3>1. tx[d].event # e
      BY <1>2, <2>1, <2>2, ConnAssumption DEF TxInv, Holds
    <3> QED BY <1>2, <3>1 DEF Still, tables, StoreInv, TypeOK
  <2> QED BY <2>1, <2>2, Frame
<1> QED BY <1>6, <1>7, <1>8 DEF StoreInv

-----------------------------------------------------------------------------
\* What a transaction that has written nothing sees is what is committed.
LEMMA SeenUnwritten ==
  ASSUME NEW c \in Conns, NothingWritten(tx[c])
  PROVE  /\ SeenBookings(c) = bookings
         /\ SeenWaitlist(c) = waitlist
BY DEF NothingWritten, NoInserts, NoDeletes, SeenBookings, SeenWaitlist

\* The idempotency checks find nothing, or end the transaction with nothing
\* written.
LEMMA FindInv ==
  ASSUME StoreInv, NEW c \in Conns, FindBooking(c) \/ FindWaitlist(c)
  PROVE  StoreInv'
<1>1. /\ tx[c] \in Tx /\ tx[c] # NoTx /\ TxInv(c)
      /\ tx[c].pc \in {"findBooking", "findWaitlist"}
  BY DEF FindBooking, FindWaitlist, StoreInv, TypeOK, NoTx
<1>2. /\ NothingWritten(tx[c]) /\ Holds(c) /\ tx[c].left = seats[tx[c].event]
      /\ tx[c].op = "book" /\ tx[c].want \in Wants /\ tx[c].start \in 0..MaxClock
  BY <1>1 DEF TxInv, BookPCs
<1>3. Private /\ seats' = seats /\ bookings' = bookings /\ waitlist' = waitlist
      /\ lock' = lock /\ capacity' = capacity
  BY DEF FindBooking, FindWaitlist, Private, tables
<1>4. \/ tx' = [tx EXCEPT ![c].pc = "commit", ![c].outcome = "already_booked"]
      \/ tx' = [tx EXCEPT ![c].pc = "commit", ![c].outcome = "already_waitlisted"]
      \/ /\ tx[c].pc = "findBooking" /\ ~HasBooking(c, tx[c].user)
         /\ tx' = [tx EXCEPT ![c].pc = "findWaitlist"]
      \/ /\ tx[c].pc = "findWaitlist" /\ ~InQueue(c, tx[c].user)
         /\ tx' = [tx EXCEPT ![c].pc = "decide"]
  BY DEF FindBooking, FindWaitlist
<1>5. \/ tx'[c] = [tx[c] EXCEPT !.pc = "commit", !.outcome = "already_booked"]
      \/ tx'[c] = [tx[c] EXCEPT !.pc = "commit", !.outcome = "already_waitlisted"]
      \/ /\ tx[c].pc = "findBooking" /\ ~HasBooking(c, tx[c].user)
         /\ tx'[c] = [tx[c] EXCEPT !.pc = "findWaitlist"]
      \/ /\ tx[c].pc = "findWaitlist" /\ ~InQueue(c, tx[c].user)
         /\ tx'[c] = [tx[c] EXCEPT !.pc = "decide"]
  BY <1>4 DEF StoreInv, TypeOK
<1>6. tx'[c] \in Tx /\ tx' = [tx EXCEPT ![c] = tx'[c]]
  <2>1. tx'[c] \in Tx
    BY <1>1, <1>5 DEF Tx, PCs, Outcomes
  <2> QED BY <1>4, <2>1 DEF StoreInv, TypeOK
<1>7. /\ tx'[c].event = tx[c].event /\ tx'[c].op = tx[c].op /\ tx'[c].want = tx[c].want
      /\ tx'[c].start = tx[c].start /\ tx'[c].left = tx[c].left /\ tx'[c].user = tx[c].user
  BY <1>1, <1>5 DEF Tx
<1>8. NothingWritten(tx[c])' /\ Holds(c)'
  BY <1>1, <1>2, <1>3, <1>5 DEF Tx, NothingWritten, NoInserts, NoDeletes, Holds
<1>9. TxInv(c)'
  <2>1. CASE tx'[c].pc = "commit"
    <3>1. tx'[c].outcome \in {"already_booked", "already_waitlisted"}
      BY <1>1, <1>5, <2>1 DEF Tx
    <3> QED BY <1>2, <1>7, <1>8, <2>1, <3>1 DEF TxInv, BookPCs, CancelPCs
  <2>2. CASE tx'[c].pc = "findWaitlist"
    <3>1. ~HasBooking(c, tx[c].user)
      BY <1>1, <1>5, <2>2 DEF Tx
    <3>2. \A b \in RowsOf(bookings, tx[c].event) : b.user # tx[c].user
      BY <1>2, <3>1, SeenUnwritten DEF HasBooking, RowsOf, RowsFor
    <3> QED BY <1>2, <1>3, <1>7, <1>8, <2>2, <3>2 DEF TxInv, BookPCs, CancelPCs
  <2>3. CASE tx'[c].pc = "decide"
    <3>1. tx[c].pc = "findWaitlist" /\ ~InQueue(c, tx[c].user)
      BY <1>1, <1>5, <2>3 DEF Tx
    <3>2. NewHere(tx[c])
      BY <1>1, <1>2, <3>1, SeenUnwritten DEF InQueue, RowsOf, RowsFor, NewHere, TxInv
    <3>3. NewHere(tx[c])'
      BY <1>3, <1>7, <3>2 DEF NewHere
    <3> QED BY <1>2, <1>3, <1>7, <1>8, <2>3, <3>3 DEF TxInv, BookPCs, CancelPCs, NewHere
  <2> QED BY <1>1, <1>5, <2>1, <2>2, <2>3 DEF Tx
<1> QED BY <1>3, <1>6, <1>9, PrivateStep

\* The INSERT of Book, into either table, is of the row the request asks for,
\* by a user who has none.
LEMMA InsertInv ==
  ASSUME StoreInv, NEW c \in Conns, InsertWaitlist(c) \/ InsertBooking(c)
  PROVE  StoreInv'
<1>1. /\ tx[c] \in Tx /\ tx[c] # NoTx /\ TxInv(c) /\ tx[c].pc = "decide"
  BY DEF InsertWaitlist, InsertBooking, StoreInv, TypeOK, NoTx
<1>2. /\ NothingWritten(tx[c]) /\ Holds(c) /\ tx[c].left = seats[tx[c].event]
      /\ tx[c].op = "book" /\ tx[c].want \in Wants /\ tx[c].start \in 0..MaxClock
      /\ NewHere(tx[c])
  BY <1>1 DEF TxInv, BookPCs
<1>3. Private /\ seats' = seats /\ bookings' = bookings /\ waitlist' = waitlist
      /\ lock' = lock /\ capacity' = capacity
  BY DEF InsertWaitlist, InsertBooking, Private, tables
<1>t. {EntryOf(tx[c])} \in SUBSET WaitlistEntry /\ {BookingOf(tx[c])} \in SUBSET Booking
  BY <1>1, <1>2 DEF EntryOf, BookingOf, WaitlistEntry, Booking, Tx
<1>4. CASE InsertWaitlist(c)
  <2>1. tx'[c] = [tx[c] EXCEPT !.queued = {EntryOf(tx[c])}, !.outcome = "waitlisted",
                               !.pc = "commit"]
    BY <1>4 DEF InsertWaitlist, EntryOf, StoreInv, TypeOK
  <2>2. tx'[c] \in Tx
    BY <1>1, <1>t, <2>1 DEF Tx, PCs, Outcomes
  <2>3. tx' = [tx EXCEPT ![c] = tx'[c]]
    BY <1>4, <2>2 DEF InsertWaitlist, StoreInv, TypeOK
  <2>4. /\ tx'[c].event = tx[c].event /\ tx'[c].op = "book" /\ tx'[c].want = tx[c].want
        /\ tx'[c].start = tx[c].start /\ tx'[c].user = tx[c].user
        /\ tx'[c].booked = {} /\ tx'[c].unbooked = {} /\ tx'[c].unqueued = {}
        /\ tx'[c].queued = {EntryOf(tx[c])}
        /\ tx'[c].pc = "commit" /\ tx'[c].outcome = "waitlisted"
    BY <1>1, <1>2, <2>1 DEF Tx, NothingWritten, NoInserts, NoDeletes
  <2>5. tx[c].want > seats[tx[c].event]
    BY <1>2, <1>4 DEF InsertWaitlist
  <2>6. Waiting1(tx[c])'
    BY <1>2, <1>3, <2>4, <2>5 DEF Waiting1, NoDeletes, NewHere, EntryOf
  <2>7. TxInv(c)'
    BY <1>2, <1>3, <2>4, <2>6 DEF TxInv, BookPCs, CancelPCs, Holds
  <2> QED BY <1>3, <2>2, <2>3, <2>7, PrivateStep
<1>5. CASE InsertBooking(c)
  <2>1. tx'[c] = [tx[c] EXCEPT !.booked = {BookingOf(tx[c])}, !.pc = "takeSeats"]
    BY <1>5 DEF InsertBooking, BookingOf, StoreInv, TypeOK
  <2>2. tx'[c] \in Tx
    BY <1>1, <1>t, <2>1 DEF Tx, PCs, Outcomes
  <2>3. tx' = [tx EXCEPT ![c] = tx'[c]]
    BY <1>5, <2>2 DEF InsertBooking, StoreInv, TypeOK
  <2>4. /\ tx'[c].event = tx[c].event /\ tx'[c].op = "book" /\ tx'[c].want = tx[c].want
        /\ tx'[c].start = tx[c].start /\ tx'[c].user = tx[c].user /\ tx'[c].left = tx[c].left
        /\ tx'[c].queued = {} /\ tx'[c].unbooked = {} /\ tx'[c].unqueued = {}
        /\ tx'[c].booked = {BookingOf(tx[c])}
        /\ tx'[c].pc = "takeSeats"
    BY <1>1, <1>2, <2>1 DEF Tx, NothingWritten, NoInserts, NoDeletes
  <2>5. tx[c].want <= seats[tx[c].event]
    BY <1>2, <1>5 DEF InsertBooking
  <2>6. Booking1(tx[c])'
    BY <1>2, <1>3, <2>4, <2>5 DEF Booking1, NoDeletes, NewHere, BookingOf
  <2>7. TxInv(c)'
    BY <1>2, <1>3, <2>4, <2>6 DEF TxInv, BookPCs, CancelPCs, Holds
  <2> QED BY <1>3, <2>2, <2>3, <2>7, PrivateStep
<1> QED BY <1>4, <1>5

\* The UPDATE takes from the counter what the booking holds.
LEMMA TakeSeatsInv ==
  ASSUME StoreInv, NEW c \in Conns, TakeSeats(c)
  PROVE  StoreInv'
<1>1. /\ tx[c] \in Tx /\ tx[c] # NoTx /\ TxInv(c) /\ tx[c].pc = "takeSeats"
  BY DEF TakeSeats, StoreInv, TypeOK, NoTx
<1>2. /\ Holds(c) /\ tx[c].op = "book" /\ tx[c].want \in Wants /\ tx[c].start \in 0..MaxClock
      /\ Booking1(tx[c])
  BY <1>1 DEF TxInv, BookPCs
<1>3. Private /\ seats' = seats /\ bookings' = bookings /\ waitlist' = waitlist
      /\ lock' = lock /\ capacity' = capacity
  BY DEF TakeSeats, Private, tables
<1>4. tx'[c] = [tx[c] EXCEPT !.left = seats[tx[c].event] - tx[c].want,
                             !.outcome = "booked", !.pc = "commit"]
  BY DEF TakeSeats, StoreInv, TypeOK
<1>5. seats[tx[c].event] - tx[c].want \in Nat
  <2>1. seats[tx[c].event] \in Nat /\ tx[c].want \in Nat
    BY <1>1 DEF Tx, StoreInv, TypeOK
  <2> QED BY <2>1 DEF TakeSeats
<1>6. tx'[c] \in Tx
  BY <1>1, <1>4, <1>5 DEF Tx, PCs, Outcomes
<1>7. tx' = [tx EXCEPT ![c] = tx'[c]]
  BY <1>6 DEF TakeSeats, StoreInv, TypeOK
<1>8. /\ tx'[c].event = tx[c].event /\ tx'[c].op = "book" /\ tx'[c].want = tx[c].want
      /\ tx'[c].start = tx[c].start /\ tx'[c].user = tx[c].user
      /\ tx'[c].left = seats[tx[c].event] - tx[c].want
      /\ tx'[c].booked = tx[c].booked /\ tx'[c].unbooked = tx[c].unbooked
      /\ tx'[c].queued = tx[c].queued /\ tx'[c].unqueued = tx[c].unqueued
      /\ tx'[c].pc = "commit" /\ tx'[c].outcome = "booked"
  BY <1>1, <1>2, <1>4 DEF Tx
<1>9. Booking1(tx[c])'
  BY <1>2, <1>3, <1>8 DEF Booking1, NoDeletes, NewHere, BookingOf
<1>10. TxInv(c)'
  BY <1>2, <1>3, <1>8, <1>9 DEF TxInv, BookPCs, CancelPCs, Holds
<1> QED BY <1>3, <1>6, <1>7, <1>10, PrivateStep

-----------------------------------------------------------------------------
\* Somebody in a queue has waited longest.
LEMMA OldestExists ==
  ASSUME NEW queue \in SUBSET WaitlistEntry, queue # {}
  PROVE  Oldest(queue) # {}
BY StampsAreNumbers, SeatAssumption, LedgerProofs!OldestExists
   DEF LedgerProofs!Oldest, Oldest, LedgerProofs!WaitlistEntry, WaitlistEntry

\* The deleted booking's seats are added to those that were left.
LEMMA DeleteInv ==
  ASSUME StoreInv, NEW c \in Conns, DeleteBooking(c)
  PROVE  StoreInv'
<1>1. /\ tx[c] \in Tx /\ tx[c] # NoTx /\ TxInv(c) /\ tx[c].pc = "delete"
  BY DEF DeleteBooking, StoreInv, TypeOK, NoTx
<1>2. /\ Holds(c) /\ tx[c].op = "cancel" /\ NothingWritten(tx[c])
      /\ tx[c].left = seats[tx[c].event]
  BY <1>1 DEF TxInv, CancelPCs
<1>3. Private /\ seats' = seats /\ bookings' = bookings /\ waitlist' = waitlist
      /\ lock' = lock /\ capacity' = capacity
  BY DEF DeleteBooking, Private, tables
<1>4. PICK b \in RowsOf(bookings, tx[c].event) :
        tx' = [tx EXCEPT ![c].unbooked = {b}, ![c].left = @ + b.seats, ![c].pc = "promote"]
  BY <1>2, SeenUnwritten DEF DeleteBooking, RowsFor, RowsOf
<1>5. tx'[c] = [tx[c] EXCEPT !.unbooked = {b}, !.left = tx[c].left + b.seats, !.pc = "promote"]
  BY <1>4 DEF StoreInv, TypeOK
<1>6. {b} \in SUBSET Booking /\ tx[c].left + b.seats \in Nat /\ b.seats \in Nat
  <2>1. b \in Booking
    BY DEF RowsOf, StoreInv, TypeOK
  <2>2. b.seats \in Nat
    BY <2>1, SeatAssumption DEF Booking
  <2>3. tx[c].left \in Nat
    BY <1>1 DEF Tx
  <2> QED BY <2>1, <2>2, <2>3
<1>7. tx'[c] \in Tx
  BY <1>1, <1>5, <1>6 DEF Tx, PCs
<1>8. tx' = [tx EXCEPT ![c] = tx'[c]]
  BY <1>4, <1>7 DEF StoreInv, TypeOK
<1>9. /\ tx'[c].event = tx[c].event /\ tx'[c].op = "cancel" /\ tx'[c].pc = "promote"
      /\ tx'[c].left = seats[tx[c].event] + b.seats
      /\ tx'[c].booked = {} /\ tx'[c].unbooked = {b}
      /\ tx'[c].queued = {} /\ tx'[c].unqueued = {}
  BY <1>1, <1>2, <1>5 DEF Tx, NothingWritten, NoInserts, NoDeletes
<1>10. Promoting(tx[c])'
  <2>1. seats[tx[c].event] + b.seats + SeatSum({}) = seats[tx[c].event] + b.seats
    BY <1>1, <1>6, SeatSumEmpty DEF Tx, StoreInv, TypeOK
  <2> QED BY <1>3, <1>9, <2>1, FS_EmptySet DEF Promoting, Ledger!InOrder
<1>11. TxInv(c)'
  BY <1>2, <1>3, <1>9, <1>10 DEF TxInv, BookPCs, CancelPCs, Holds
<1> QED BY <1>3, <1>7, <1>8, <1>11, PrivateStep

\* A round of promoteTx keeps the promoted a first part of the queue.
LEMMA PromoteInv ==
  ASSUME StoreInv, NEW c \in Conns, Promote(c)
  PROVE  StoreInv'
<1> DEFINE t == tx[c]
<1>1. /\ t \in Tx /\ t # NoTx /\ TxInv(c) /\ t.pc = "promote"
  BY DEF Promote, PromoteOneOf, StoreInv, TypeOK, NoTx
<1>2. /\ Holds(c) /\ t.op = "cancel" /\ Promoting(t)
  BY <1>1 DEF TxInv, CancelPCs
<1>3. Private /\ seats' = seats /\ bookings' = bookings /\ waitlist' = waitlist
      /\ lock' = lock /\ capacity' = capacity
  BY DEF Promote, PromoteOneOf, Private, tables
<1>4. Queue(c) = Rest(t)
  BY <1>2 DEF Queue, SeenWaitlist, Rest, RowsOf, Promoting
<1>5. PICK w \in Oldest(Rest(t)) :
        /\ w.seats <= t.left
        /\ tx' = [tx EXCEPT ![c].booked = @ \cup {AsBooking(w)},
                            ![c].unqueued = @ \cup {w},
                            ![c].left = @ - w.seats]
  BY <1>4 DEF Promote, PromoteOneOf
<1>6. tx'[c] = [t EXCEPT !.booked = t.booked \cup {AsBooking(w)},
                         !.unqueued = t.unqueued \cup {w},
                         !.left = t.left - w.seats]
  BY <1>5 DEF StoreInv, TypeOK
<1>7. /\ w \in Rest(t) /\ w \in WaitlistEntry /\ w \in RowsOf(waitlist, t.event)
      /\ w \notin t.unqueued
      /\ \A v \in Rest(t) : w.at <= v.at
  BY DEF Oldest, Rest, RowsOf, StoreInv, TypeOK
<1>8. w.seats \in Nat /\ AsBooking(w) \in Booking
  BY <1>7, SeatAssumption DEF WaitlistEntry, Booking, AsBooking
<1>9. t.left - w.seats \in Nat
  BY <1>1, <1>5, <1>8 DEF Tx
<1>10. /\ t.booked \cup {AsBooking(w)} \in SUBSET Booking
       /\ t.unqueued \cup {w} \in SUBSET WaitlistEntry
  BY <1>1, <1>7, <1>8 DEF Tx
<1>11. tx'[c] \in Tx
  BY <1>1, <1>6, <1>9, <1>10 DEF Tx
<1>12. tx' = [tx EXCEPT ![c] = tx'[c]]
  BY <1>5, <1>11 DEF StoreInv, TypeOK
<1>13. /\ tx'[c].event = t.event /\ tx'[c].op = "cancel" /\ tx'[c].pc = "promote"
       /\ tx'[c].left = t.left - w.seats
       /\ tx'[c].booked = t.booked \cup {AsBooking(w)} /\ tx'[c].unbooked = t.unbooked
       /\ tx'[c].queued = {} /\ tx'[c].unqueued = t.unqueued \cup {w}
  BY <1>1, <1>2, <1>6 DEF Tx, Promoting
<1>14. Promoting(tx[c])'
  <2>1. /\ t.unqueued \cup {w} \subseteq RowsOf(waitlist, t.event)
        /\ IsFiniteSet(t.unqueued \cup {w})
    BY <1>2, <1>7, FS_AddElement DEF Promoting
  <2>2. t.booked \cup {AsBooking(w)} = {AsBooking(v) : v \in t.unqueued \cup {w}}
    BY <1>2 DEF Promoting
  <2>3. Ledger!InOrder(t.unqueued \cup {w}, RowsOf(waitlist, t.event) \ (t.unqueued \cup {w}))
    BY <1>2, <1>7 DEF Promoting, Rest, Ledger!InOrder
  <2>4. PICK b \in RowsOf(bookings, t.event) :
          /\ t.unbooked = {b}
          /\ t.left + SeatSum(t.unqueued) = seats[t.event] + b.seats
    BY <1>2 DEF Promoting
  <2>5. Counted(t.unqueued)
    BY <1>1, <1>2, SeatAssumption DEF Counted, Promoting, Tx, WaitlistEntry
  <2>6. SeatSum(t.unqueued \cup {w}) = SeatSum(t.unqueued) + w.seats
        /\ SeatSum(t.unqueued) \in Nat
    BY <1>7, <1>8, <2>5, SeatSumInsert, SeatSumType
  <2>7. t.left - w.seats + SeatSum(t.unqueued \cup {w}) = seats[t.event] + b.seats
    <3>1. t.left \in Nat
      BY <1>1 DEF Tx
    <3> QED BY <1>8, <2>4, <2>6, <3>1
  <2> QED BY <1>3, <1>13, <2>1, <2>2, <2>3, <2>4, <2>7 DEF Promoting, Rest
<1>15. TxInv(c)'
  BY <1>2, <1>3, <1>13, <1>14 DEF TxInv, BookPCs, CancelPCs, Holds
<1> QED BY <1>3, <1>11, <1>12, <1>15, PrivateStep

\* The loop stops only when nobody else can be served in order.
LEMMA PromoteDoneInv ==
  ASSUME StoreInv, NEW c \in Conns, PromoteDone(c)
  PROVE  StoreInv'
<1> DEFINE t == tx[c]
<1>1. /\ t \in Tx /\ t # NoTx /\ TxInv(c) /\ t.pc = "promote"
  BY DEF PromoteDone, StoreInv, TypeOK, NoTx
<1>2. /\ Holds(c) /\ t.op = "cancel" /\ Promoting(t)
  BY <1>1 DEF TxInv, CancelPCs
<1>3. Private /\ seats' = seats /\ bookings' = bookings /\ waitlist' = waitlist
      /\ lock' = lock /\ capacity' = capacity
  BY DEF PromoteDone, Private, tables
<1>4. Queue(c) = Rest(t)
  BY <1>2 DEF Queue, SeenWaitlist, Rest, RowsOf, Promoting
<1>5. Ledger!Blocked(Rest(t), t.left)
  <2>1. Rest(t) \in SUBSET WaitlistEntry
    BY DEF Rest, RowsOf, StoreInv, TypeOK
  <2>2. CASE t.left = 0 /\ Rest(t) # {}
    <3>1. PICK w : w \in Oldest(Rest(t))
      BY <2>1, <2>2, OldestExists
    <3>2. w.seats \in Nat \ {0}
      BY <2>1, <3>1, SeatAssumption DEF Oldest, WaitlistEntry
    <3> QED BY <2>2, <3>1, <3>2 DEF Ledger!Blocked, Ledger!Oldest, Oldest
  <2>3. CASE Rest(t) = {} \/ \E w \in Oldest(Rest(t)) : w.seats > t.left
    BY <2>3 DEF Ledger!Blocked, Ledger!Oldest, Oldest
  <2> QED BY <1>4, <2>2, <2>3 DEF PromoteDone
<1>6. tx'[c] = [t EXCEPT !.pc = "setSeats"]
  BY DEF PromoteDone, StoreInv, TypeOK
<1>7. tx'[c] \in Tx
  BY <1>1, <1>6 DEF Tx, PCs
<1>8. tx' = [tx EXCEPT ![c] = tx'[c]]
  BY <1>7 DEF PromoteDone, StoreInv, TypeOK
<1>9. /\ tx'[c].event = t.event /\ tx'[c].op = "cancel" /\ tx'[c].pc = "setSeats"
      /\ tx'[c].left = t.left
      /\ tx'[c].booked = t.booked /\ tx'[c].unbooked = t.unbooked
      /\ tx'[c].queued = t.queued /\ tx'[c].unqueued = t.unqueued
  BY <1>1, <1>2, <1>6 DEF Tx
<1>10. Rest(tx[c])' = Rest(t)
  BY <1>3, <1>9 DEF Rest
<1>11. Promoting(tx[c])'
  BY <1>2, <1>3, <1>9, <1>10 DEF Promoting
<1>12. TxInv(c)'
  BY <1>2, <1>3, <1>5, <1>9, <1>10, <1>11 DEF TxInv, BookPCs, CancelPCs, Holds
<1> QED BY <1>3, <1>7, <1>8, <1>12, PrivateStep

\* What is written back is what was not promoted.
LEMMA SetSeatsInv ==
  ASSUME StoreInv, NEW c \in Conns, SetSeats(c)
  PROVE  StoreInv'
<1> DEFINE t == tx[c]
<1>1. /\ t \in Tx /\ t # NoTx /\ TxInv(c) /\ t.pc = "setSeats"
  BY DEF SetSeats, StoreInv, TypeOK, NoTx
<1>2. /\ Holds(c) /\ t.op = "cancel" /\ Promoting(t) /\ Ledger!Blocked(Rest(t), t.left)
  BY <1>1 DEF TxInv, CancelPCs
<1>3. Private /\ seats' = seats /\ bookings' = bookings /\ waitlist' = waitlist
      /\ lock' = lock /\ capacity' = capacity
  BY DEF SetSeats, Private, tables
<1>6. tx'[c] = [t EXCEPT !.outcome = "cancelled", !.pc = "commit"]
  BY DEF SetSeats, StoreInv, TypeOK
<1>7. tx'[c] \in Tx
  BY <1>1, <1>6 DEF Tx, PCs, Outcomes
<1>8. tx' = [tx EXCEPT ![c] = tx'[c]]
  BY <1>7 DEF SetSeats, StoreInv, TypeOK
<1>9. /\ tx'[c].event = t.event /\ tx'[c].op = "cancel" /\ tx'[c].pc = "commit"
      /\ tx'[c].left = t.left /\ tx'[c].outcome = "cancelled"
      /\ tx'[c].booked = t.booked /\ tx'[c].unbooked = t.unbooked
      /\ tx'[c].queued = t.queued /\ tx'[c].unqueued = t.unqueued
  BY <1>1, <1>2, <1>6 DEF Tx
<1>10. Rest(tx[c])' = Rest(t)
  BY <1>3, <1>9 DEF Rest
<1>11. Promoting(tx[c])'
  BY <1>2, <1>3, <1>9, <1>10 DEF Promoting
<1>12. TxInv(c)'
  BY <1>2, <1>3, <1>9, <1>10, <1>11 DEF TxInv, BookPCs, CancelPCs, Holds
<1> QED BY <1>3, <1>7, <1>8, <1>12, PrivateStep

-----------------------------------------------------------------------------
\* Ending a transaction does not concern those that have another event's lock,
\* and those that wait have nothing to lose.
LEMMA EndOthers ==
  ASSUME StoreInv, NEW c \in Conns, End(c), capacity' = capacity,
         \A e \in Events : ~(tx[c] # NoTx /\ tx[c].pc # "lock" /\ e = tx[c].event) =>
           /\ seats'[e] = seats[e]
           /\ RowsOf(bookings', e) = RowsOf(bookings, e)
           /\ RowsOf(waitlist', e) = RowsOf(waitlist, e)
  PROVE  \A d \in Conns : TxInv(d)'
<1> SUFFICES ASSUME NEW d \in Conns PROVE TxInv(d)'
  OBVIOUS
<1>1. CASE d = c
  <2>1. tx'[d] = NoTx
    BY <1>1 DEF End, StoreInv, TypeOK
  <2> QED BY <2>1 DEF TxInv
<1>2. CASE d # c
  <2>1. tx'[d] = tx[d] /\ TxInv(d) /\ tx[d] \in Tx \cup {NoTx}
    BY <1>2 DEF End, StoreInv, TypeOK
  <2>2. ASSUME tx[d] # NoTx /\ tx[d].pc # "lock" PROVE Still(tx[d].event)
    <3>1. Holds(d) /\ tx[d].event \in Events
      BY <2>1, <2>2 DEF TxInv, Tx
    <3>2. lock'[tx[d].event] = lock[tx[d].event]
      BY <1>2, <3>1 DEF Holds, End
    <3>3. ~(tx[c] # NoTx /\ tx[c].pc # "lock" /\ tx[d].event = tx[c].event)
      <4>1. tx[c] # NoTx /\ tx[c].pc # "lock" => Holds(c)
        BY DEF StoreInv, TxInv
      <4> QED BY <1>2, <3>1, <4>1, DifferentEvents
    <3> QED BY <3>1, <3>2, <3>3 DEF Still
  <2> QED BY <2>1, <2>2, Frame
<1> QED BY <1>1, <1>2

\* An abandoned transaction leaves the tables as they were.
LEMMA RollbackInv ==
  ASSUME StoreInv, NEW c \in Conns, End(c), UNCHANGED tables
  PROVE  StoreInv'
<1>1. TypeOK'
  BY DEF End, StoreInv, TypeOK, tables
<1>2. \A d \in Conns : TxInv(d)'
  <2>1. capacity' = capacity /\ seats' = seats /\ bookings' = bookings /\ waitlist' = waitlist
    BY DEF tables
  <2> QED BY <2>1, EndOthers
<1> QED BY <1>1, <1>2 DEF StoreInv

\* A commit writes rows of its own event only.
LEMMA CommitElsewhere ==
  ASSUME StoreInv, NEW c \in Conns, Commit(c), NEW e \in Events, e # tx[c].event
  PROVE  /\ seats'[e] = seats[e]
         /\ RowsOf(bookings', e) = RowsOf(bookings, e)
         /\ RowsOf(waitlist', e) = RowsOf(waitlist, e)
<1> DEFINE t == tx[c]
<1>1. t \in Tx /\ t # NoTx /\ TxInv(c) /\ t.pc = "commit"
  BY DEF Commit, StoreInv, TypeOK, NoTx
<1>2. /\ bookings' = (bookings \ t.unbooked) \cup t.booked
      /\ waitlist' = (waitlist \ t.unqueued) \cup t.queued
  BY DEF Commit, SeenBookings, SeenWaitlist
<1>3. /\ \A b \in t.booked \cup t.unbooked : b.event = t.event
      /\ \A w \in t.queued \cup t.unqueued : w.event = t.event
  <2>1. CASE NothingWritten(t)
    BY <2>1 DEF NothingWritten, NoInserts, NoDeletes
  <2>2. CASE Booking1(t)
    BY <2>2 DEF Booking1, NoDeletes, BookingOf
  <2>3. CASE Waiting1(t)
    BY <2>3 DEF Waiting1, NoDeletes, EntryOf
  <2>4. CASE Promoting(t)
    BY <2>4 DEF Promoting, RowsOf, AsBooking
  <2> QED BY <1>1, <2>1, <2>2, <2>3, <2>4 DEF TxInv
<1>4. seats'[e] = seats[e]
  BY DEF Commit, StoreInv, TypeOK
<1> QED BY <1>2, <1>3, <1>4 DEF RowsOf

\* So nobody else's work is disturbed.
LEMMA CommitInv ==
  ASSUME StoreInv, NEW c \in Conns, Commit(c)
  PROVE  StoreInv'
<1> DEFINE t == tx[c]
<1>1. t \in Tx /\ t # NoTx /\ t.pc = "commit"
  BY DEF Commit, StoreInv, TypeOK, NoTx
<1>2. /\ bookings' = (bookings \ t.unbooked) \cup t.booked
      /\ waitlist' = (waitlist \ t.unqueued) \cup t.queued
      /\ seats' = IF t.outcome \in {"booked", "cancelled"}
                  THEN [seats EXCEPT ![t.event] = t.left] ELSE seats
      /\ capacity' = capacity /\ End(c)
  BY DEF Commit, SeenBookings, SeenWaitlist
<1>3. TypeOK'
  BY <1>1, <1>2 DEF StoreInv, TypeOK, End, Tx
<1>4. \A d \in Conns : TxInv(d)'
  BY <1>1, <1>2, CommitElsewhere, EndOthers
<1> QED BY <1>3, <1>4 DEF StoreInv

\* The invariant survives every step.
LEMMA NextInv == StoreInv /\ [Next]_vars => StoreInv'
<1> SUFFICES ASSUME StoreInv, [Next]_vars PROVE StoreInv'
  OBVIOUS
<1>1. CASE UNCHANGED vars
  <2>1. TypeOK'
    BY <1>1 DEF vars, StoreInv, TypeOK
  <2>2. ASSUME NEW c \in Conns PROVE TxInv(c)'
    BY <1>1, Frame DEF vars, StoreInv, Still
  <2> QED BY <2>1, <2>2 DEF StoreInv
<1>2. ASSUME NEW e \in Events, CreateEvent(e) PROVE StoreInv'
  BY <1>2, CreateInv
<1>3. ASSUME NEW c \in Conns, BeginBook(c) \/ BeginCancel(c) PROVE StoreInv'
  BY <1>3, BeginInv
<1>4. ASSUME NEW c \in Conns, LockEvent(c) PROVE StoreInv'
  BY <1>4, LockInv
<1>5. ASSUME NEW c \in Conns, EventNotFound(c) \/ NothingToCancel(c) \/ Rollback(c)
      PROVE  StoreInv'
  BY <1>5, RollbackInv DEF EventNotFound, NothingToCancel, Rollback
<1>6. ASSUME NEW c \in Conns, Statement(c) PROVE StoreInv'
  BY <1>5, <1>6, FindInv, InsertInv, TakeSeatsInv, DeleteInv, PromoteInv, PromoteDoneInv,
     SetSeatsInv, CommitInv DEF Statement
<1> QED BY <1>1, <1>2, <1>3, <1>4, <1>5, <1>6 DEF Next

\* The invariant of the transactions holds in every reachable state.
THEOREM StoreInvariant == Spec => []StoreInv
BY InitInv, NextInv, PTL DEF Spec

\* Every variable keeps its type: in particular no committed counter is ever
\* negative, without the help of CHECK (seats >= 0).
THEOREM StoreTypes == Spec => []TypeOK
<1>1. StoreInv => TypeOK
  BY DEF StoreInv
<1> QED BY <1>1, StoreInvariant, PTL

\* What a transaction decided on is still true when it acts on it.
THEOREM StoreReadsStayTrue == Spec => []ReadStaysTrue
<1>1. StoreInv => ReadStaysTrue
  <2> SUFFICES ASSUME StoreInv, NEW c \in Conns, tx[c] # NoTx
               PROVE  /\ tx[c].pc \in {"findBooking", "findWaitlist", "decide", "takeSeats", "delete"}
                           => tx[c].left = seats[tx[c].event]
                      /\ tx[c].pc \in {"decide", "takeSeats"} => NewHere(tx[c])
    BY DEF ReadStaysTrue, NoTx, NewHere, RowsFor, RowsOf
  <2> QED BY DEF StoreInv, TxInv, BookPCs, Booking1
<1> QED BY <1>1, StoreInvariant, PTL

-----------------------------------------------------------------------------
\* The commit of a transaction is one step of the ledger: the one its outcome
\* names, or none when a replay was recognised.
LEMMA CommitRefines ==
  ASSUME StoreInv, NEW c \in Conns, Commit(c)
  PROVE  [Ledger!Next]_(Ledger!vars)
<1> DEFINE t == tx[c]
           e == tx[c].event
<1>1. /\ t \in Tx /\ t # NoTx /\ TxInv(c) /\ t.pc = "commit"
      /\ e \in Events /\ t.user \in Users /\ seats \in [Events -> Nat]
  BY DEF Commit, StoreInv, TypeOK, NoTx, Tx
<1>2. /\ bookings' = (bookings \ t.unbooked) \cup t.booked
      /\ waitlist' = (waitlist \ t.unqueued) \cup t.queued
      /\ seats' = IF t.outcome \in {"booked", "cancelled"}
                  THEN [seats EXCEPT ![e] = t.left] ELSE seats
      /\ capacity' = capacity
  BY DEF Commit, SeenBookings, SeenWaitlist
<1>3. capacity[e] > 0
  BY <1>1 DEF TxInv, Holds
<1>4. NewHere(t) => Ledger!Newcomer(e, t.user)
  BY DEF NewHere, Ledger!Newcomer, Ledger!RowsFor, RowsOf
<1>5. CASE t.outcome = "booked" /\ t.op = "book" /\ Booking1(t)
           /\ t.left = seats[e] - t.want
  <2>1. bookings' = bookings \cup {BookingOf(t)} /\ waitlist' = waitlist
    BY <1>2, <1>5 DEF Booking1, NoDeletes
  <2>2. seats' = [seats EXCEPT ![e] = @ - t.want]
    BY <1>1, <1>2, <1>5
  <2>3. Ledger!Book(e, t.user, t.want)
    BY <1>2, <1>3, <1>4, <1>5, <2>1, <2>2 DEF Ledger!Book, Booking1, BookingOf
  <2>4. t.want \in Wants
    BY <1>1, <1>5 DEF TxInv
  <2> QED BY <1>1, <2>3, <2>4 DEF Ledger!Next
<1>6. CASE t.outcome = "waitlisted" /\ t.op = "book" /\ Waiting1(t)
  <2>1. waitlist' = waitlist \cup {EntryOf(t)} /\ bookings' = bookings /\ seats' = seats
    BY <1>2, <1>6 DEF Waiting1, NoDeletes
  <2>2. Ledger!Enqueue(e, t.user, t.want, t.start)
    BY <1>2, <1>3, <1>4, <1>6, <2>1 DEF Ledger!Enqueue, Waiting1, EntryOf
  <2>3. t.want \in Wants /\ t.start \in 0..MaxClock
    BY <1>1, <1>6 DEF TxInv
  <2> QED BY <1>1, <2>2, <2>3 DEF Ledger!Next
<1>7. CASE t.outcome \in {"already_booked", "already_waitlisted"} /\ NothingWritten(t)
  <2>1. UNCHANGED <<capacity, seats, bookings, waitlist>>
    BY <1>2, <1>7 DEF NothingWritten, NoInserts, NoDeletes
  <2> QED BY <2>1 DEF Ledger!vars
<1>8. CASE t.outcome = "cancelled" /\ Promoting(t) /\ Ledger!Blocked(Rest(t), t.left)
  <2>1. PICK b \in RowsOf(bookings, e) :
          /\ t.unbooked = {b}
          /\ t.left + SeatSum(t.unqueued) = seats[e] + b.seats
    BY <1>8 DEF Promoting
  <2>2. Counted(t.unqueued)
    BY <1>1, <1>8, SeatAssumption DEF Counted, Promoting, Tx, WaitlistEntry
  <2>3. SeatSum(t.unqueued) \in Nat /\ t.left \in Nat /\ b.seats \in Nat /\ seats[e] \in Nat
    <3>1. b \in Booking
      BY DEF RowsOf, StoreInv, TypeOK
    <3> QED BY <1>1, <2>2, <3>1, SeatSumType, SeatAssumption DEF Tx, Booking
  <2>4. t.left = seats[e] + b.seats - SeatSum(t.unqueued)
    BY <2>1, <2>3
  <2>5. /\ bookings' = (bookings \ {b}) \cup {AsBooking(w) : w \in t.unqueued}
        /\ waitlist' = waitlist \ t.unqueued
        /\ seats' = [seats EXCEPT ![e] = t.left]
    BY <1>2, <1>8, <2>1 DEF Promoting
  <2>6. Ledger!InOrder(t.unqueued, RowsOf(waitlist, e) \ t.unqueued)
        /\ Ledger!Blocked(RowsOf(waitlist, e) \ t.unqueued, t.left)
    BY <1>8 DEF Promoting, Rest
  <2>7. /\ Ledger!RowsOf(waitlist, e) = RowsOf(waitlist, e)
        /\ Ledger!RowsOf(bookings, e) = RowsOf(bookings, e)
        /\ Ledger!SeatSum(t.unqueued) = SeatSum(t.unqueued)
        /\ {Ledger!AsBooking(w) : w \in t.unqueued} = {AsBooking(w) : w \in t.unqueued}
    <3>1. Ledger!RowsOf(waitlist, e) = RowsOf(waitlist, e)
          /\ Ledger!RowsOf(bookings, e) = RowsOf(bookings, e)
      BY DEF Ledger!RowsOf, RowsOf
    <3>2. Ledger!SeatSum(t.unqueued) = SeatSum(t.unqueued)
      BY Zenon DEF Ledger!SeatSum, SeatSum, Ledger!Units, Units, Ledger!Cardinality, Cardinality
    <3>3. \A w : Ledger!AsBooking(w) = AsBooking(w)
      BY Zenon DEF Ledger!AsBooking, AsBooking
    <3> QED BY <3>1, <3>2, <3>3, Zenon
  <2>8. Ledger!Cancel(e, b, t.unqueued)
    <3>1. t.left >= 0
      BY <2>3
    <3> HIDE DEF t, e
    <3> QED BY <1>2, <2>4, <2>5, <2>6, <2>7, <3>1, Zenon DEF Ledger!Cancel
  <2>9. t.unqueued \in SUBSET Ledger!RowsOf(waitlist, e) /\ b \in Ledger!RowsOf(bookings, e)
    BY <1>8, <2>7 DEF Promoting
  <2> QED BY <1>1, <2>8, <2>9 DEF Ledger!Next
<1> QED BY <1>1, <1>5, <1>6, <1>7, <1>8 DEF TxInv

\* Every step of the store is a step of the ledger or leaves it alone.
LEMMA StepRefines == StoreInv /\ [Next]_vars => [Ledger!Next]_(Ledger!vars)
<1> SUFFICES ASSUME StoreInv, [Next]_vars PROVE [Ledger!Next]_(Ledger!vars)
  OBVIOUS
<1>1. CASE UNCHANGED tables
  BY <1>1 DEF tables, Ledger!vars
<1>2. ASSUME NEW e \in Events, CreateEvent(e) PROVE [Ledger!Next]_(Ledger!vars)
  BY <1>2 DEF CreateEvent, Ledger!Next, Ledger!Create
<1>3. ASSUME NEW c \in Conns, Commit(c) PROVE [Ledger!Next]_(Ledger!vars)
  BY <1>3, CommitRefines
<1>4. ASSUME NEW c \in Conns,
             BeginBook(c) \/ BeginCancel(c) \/ LockEvent(c) \/ Statement(c) \/ Rollback(c)
      PROVE  UNCHANGED tables \/ Commit(c)
  BY <1>4 DEF BeginBook, BeginCancel, LockEvent, Statement, Rollback, EventNotFound,
     FindBooking, FindWaitlist, InsertWaitlist, InsertBooking, TakeSeats, DeleteBooking,
     NothingToCancel, Promote, PromoteOneOf, PromoteDone, SetSeats, Private
<1> QED BY <1>1, <1>2, <1>3, <1>4 DEF Next, vars, tables

\* The Postgres store implements the ledger: whatever transactions overlap,
\* wait, fail or are repeated, each takes effect in one step or not at all.
THEOREM StoreImplementsLedger == Spec => ImplementsLedger
<1>1. Init => Ledger!Init
  BY DEF Init, Ledger!Init
<1> QED BY <1>1, StepRefines, StoreInvariant, PTL DEF Spec, ImplementsLedger, Ledger!Spec

\* The ledger's invariant is an invariant of the instance the store uses.
LEMMA LedgerInvInit == Ledger!Init => LedgerProofs!LedgerInv
<1>1. 0..MaxClock \subseteq Nat
  BY ClockAssumption
<1>2. LedgerProofs!Init => LedgerProofs!LedgerInv
  BY <1>1, SeatAssumption, LedgerProofs!LedgerInit
<1> QED BY <1>2 DEF Ledger!Init, LedgerProofs!Init

\* The ledger and its proofs speak of the same steps.
LEMMA SameNext ==
  [Ledger!Next]_(Ledger!vars) => [LedgerProofs!Next]_(LedgerProofs!vars)
<1>1. LedgerProofs!Next <=> Ledger!Next
  BY Zenon DEF LedgerProofs!Next, Ledger!Next,
     LedgerProofs!Create, Ledger!Create, LedgerProofs!Book, Ledger!Book,
     LedgerProofs!Newcomer, Ledger!Newcomer, LedgerProofs!Enqueue, Ledger!Enqueue,
     LedgerProofs!Cancel, Ledger!Cancel, LedgerProofs!RowsOf, Ledger!RowsOf,
     LedgerProofs!RowsFor, Ledger!RowsFor, LedgerProofs!InOrder, Ledger!InOrder,
     LedgerProofs!Blocked, Ledger!Blocked, LedgerProofs!Oldest, Ledger!Oldest,
     LedgerProofs!AsBooking, Ledger!AsBooking, LedgerProofs!SeatSum, Ledger!SeatSum,
     LedgerProofs!Units, Ledger!Units, LedgerProofs!Cardinality, Ledger!Cardinality
<1> QED BY <1>1, Zenon DEF LedgerProofs!vars, Ledger!vars

LEMMA LedgerInvNext ==
  LedgerProofs!LedgerInv /\ [Ledger!Next]_(Ledger!vars) => LedgerProofs!LedgerInv'
<1>1. 0..MaxClock \subseteq Nat
  BY ClockAssumption
<1>2. LedgerProofs!LedgerInv /\ [LedgerProofs!Next]_(LedgerProofs!vars) => LedgerProofs!LedgerInv'
  BY <1>1, SeatAssumption, LedgerProofs!LedgerNext
<1> QED BY <1>2, SameNext

\* The store's tables satisfy the ledger's invariant in every reachable state.
THEOREM StoreKeepsLedger == Spec => []LedgerProofs!LedgerInv
BY LedgerInvInit, LedgerInvNext, StoreImplementsLedger, PTL DEF ImplementsLedger, Ledger!Spec

\* No seat is sold twice and none is lost, for any number of replicas,
\* connections, events and users.
THEOREM StoreConservesSeats == Spec => []SeatsConserved
<1>1. LedgerProofs!LedgerInv => SeatsConserved
  BY Zenon DEF LedgerProofs!LedgerInv, SeatsConserved,
     LedgerProofs!SeatsConserved, Ledger!SeatsConserved, LedgerProofs!Sold, Ledger!Sold,
     LedgerProofs!RowsOf, Ledger!RowsOf, LedgerProofs!SeatSum, Ledger!SeatSum,
     LedgerProofs!Units, Ledger!Units, LedgerProofs!Cardinality, Ledger!Cardinality
<1> QED BY <1>1, StoreKeepsLedger, PTL

\* A user never has two places for an event.
THEOREM StoreOnePlacePerUser == Spec => []OnePlacePerUser
<1>1. LedgerProofs!LedgerInv => OnePlacePerUser
  BY Zenon DEF LedgerProofs!LedgerInv, OnePlacePerUser,
     LedgerProofs!OnePlacePerUser, Ledger!OnePlacePerUser,
     LedgerProofs!OneRowPerUser, Ledger!OneRowPerUser, LedgerProofs!RowsFor, Ledger!RowsFor
<1> QED BY <1>1, StoreKeepsLedger, PTL

\* In every committed state the head of a queue does not fit into the seats
\* that are left.
THEOREM StoreQueueBlocked == Spec => []QueueBlocked
<1>1. LedgerProofs!LedgerInv => QueueBlocked
  BY Zenon DEF LedgerProofs!LedgerInv, QueueBlocked,
     LedgerProofs!QueueBlocked, Ledger!QueueBlocked, LedgerProofs!Blocked, Ledger!Blocked,
     LedgerProofs!Oldest, Ledger!Oldest, LedgerProofs!RowsOf, Ledger!RowsOf
<1> QED BY <1>1, StoreKeepsLedger, PTL
-----------------------------------------------------------------------------
\* What the ledger's invariant says of the tables here.
LEMMA LedgerFacts ==
  ASSUME LedgerProofs!LedgerInv
  PROVE  /\ IsFiniteSet(bookings) /\ IsFiniteSet(waitlist)
         /\ OneRowPerUser(bookings) /\ OneRowPerUser(waitlist)
         /\ \A b \in bookings : RowsFor(waitlist, b.event, b.user) = {}
BY Zenon DEF LedgerProofs!LedgerInv, LedgerProofs!FiniteTables, LedgerProofs!IsFiniteSet,
   IsFiniteSet, LedgerProofs!OnePlacePerUser, LedgerProofs!OneRowPerUser, OneRowPerUser,
   LedgerProofs!RowsFor, RowsFor

\* An entry that is still to be promoted is of a user without a booking, in
\* the table or among the ones just promoted.
LEMMA PromotedHasNoBooking ==
  ASSUME StoreInv, LedgerProofs!LedgerInv, NEW c \in Conns, tx[c] # NoTx,
         tx[c].pc = "promote", NEW w \in Queue(c)
  PROVE  ~HasBooking(c, w.user)
<1> DEFINE t == tx[c]
<1>1. Promoting(t)
  BY DEF StoreInv, TxInv
<1>2. w \in waitlist /\ w \notin t.unqueued /\ w.event = t.event
  BY <1>1 DEF Queue, RowsOf, SeenWaitlist, Promoting
<1>3. ASSUME NEW b \in SeenBookings(c), b.event = t.event, b.user = w.user PROVE FALSE
  <2>1. CASE b \in bookings
    BY <1>2, <1>3, <2>1, LedgerFacts DEF RowsFor
  <2>2. CASE b \in t.booked
    <3>1. PICK v \in t.unqueued : b = AsBooking(v)
      BY <1>1, <2>2 DEF Promoting
    <3>2. v \in waitlist /\ v.event = w.event /\ v.user = w.user
      BY <1>1, <1>2, <1>3, <3>1 DEF Promoting, RowsOf, AsBooking
    <3>3. v = w
      BY <1>2, <3>2, LedgerFacts DEF OneRowPerUser
    <3> QED BY <1>2, <3>3
  <2> QED BY <1>3, <2>1, <2>2 DEF SeenBookings
<1> QED BY <1>3 DEF HasBooking, RowsFor

\* No interleaving makes a statement fail on UNIQUE, on ON CONFLICT DO NOTHING
\* or on CHECK (seats >= 0): the locked checks of Book and the rule that nobody
\* both waits and has a booking keep every row off the constraints.
THEOREM StoreConstraintsNeverFire == Spec => []ConstraintsNeverFire
<1>1. StoreInv /\ LedgerProofs!LedgerInv => ConstraintsNeverFire
  <2> SUFFICES ASSUME StoreInv, LedgerProofs!LedgerInv, NEW c \in Conns, tx[c] # NoTx
               PROVE  /\ tx[c].pc = "decide" => ~InQueue(c, tx[c].user) /\ ~HasBooking(c, tx[c].user)
                      /\ tx[c].pc = "takeSeats" => tx[c].want <= seats[tx[c].event]
                      /\ tx[c].pc = "promote" => \A w \in Oldest(Queue(c)) : ~HasBooking(c, w.user)
    BY DEF ConstraintsNeverFire, NoTx
  <2>1. TxInv(c)
    BY DEF StoreInv
  <2>2. ASSUME tx[c].pc = "decide" PROVE ~InQueue(c, tx[c].user) /\ ~HasBooking(c, tx[c].user)
    <3>1. NewHere(tx[c]) /\ SeenBookings(c) = bookings /\ SeenWaitlist(c) = waitlist
      BY <2>1, <2>2, SeenUnwritten DEF TxInv
    <3> QED BY <3>1 DEF InQueue, HasBooking, RowsFor, RowsOf, NewHere
  <2>3. tx[c].pc = "takeSeats" => tx[c].want <= seats[tx[c].event]
    BY <2>1 DEF TxInv, Booking1
  <2>4. tx[c].pc = "promote" => \A w \in Oldest(Queue(c)) : ~HasBooking(c, w.user)
    BY PromotedHasNoBooking DEF Oldest
  <2> QED BY <2>2, <2>3, <2>4
<1> QED BY <1>1, StoreInvariant, StoreKeepsLedger, PTL

-----------------------------------------------------------------------------
\* A statement that does not end its transaction changes what the transaction
\* has worked out, never what it is about, and nothing else.
GoesOn(c) == /\ Private
             /\ tx[c] \in Tx /\ tx'[c] \in Tx
             /\ tx[c].pc # "lock" /\ tx'[c].pc # "lock"
             /\ tx'[c].op = tx[c].op /\ tx'[c].event = tx[c].event
             /\ tx'[c].start = tx[c].start /\ tx'[c].user = tx[c].user
             /\ tx'[c].unbooked = tx[c].unbooked \/ DeleteBooking(c)
             /\ \A d \in Conns \ {c} : tx'[d] = tx[d]

LEMMA StatementGoesOn ==
  ASSUME StoreInv, NEW c \in Conns, Statement(c)
  PROVE  GoesOn(c) \/ (End(c) /\ tx[c] # NoTx)
<1>1. tx[c] \in Tx \cup {NoTx} /\ tx'[c] \in Tx \cup {NoTx}
  <2>1. TypeOK /\ TypeOK'
    BY NextInv DEF Next, StoreInv
  <2> QED BY <2>1 DEF TypeOK
<1>2. ASSUME Private, tx[c] \in Tx, tx[c].pc # "lock", tx'[c].pc \in PCs \ {"lock"},
             tx'[c].op = tx[c].op, tx'[c].event = tx[c].event, tx'[c].start = tx[c].start,
             tx'[c].user = tx[c].user, tx'[c].unbooked = tx[c].unbooked \/ DeleteBooking(c),
             \A d \in Conns \ {c} : tx'[d] = tx[d]
      PROVE  GoesOn(c)
  <2>1. tx'[c] \in Tx
    BY <1>1, <1>2 DEF PCs, NoTx
  <2> QED BY <1>2, <2>1 DEF GoesOn
<1>3. CASE FindBooking(c) \/ FindWaitlist(c)
  <2>1. tx[c] \in Tx
    BY <1>1, <1>3 DEF FindBooking, FindWaitlist, NoTx
  <2> QED BY <1>2, <1>3, <2>1 DEF FindBooking, FindWaitlist, StoreInv, TypeOK, Tx, PCs
<1>4. CASE InsertWaitlist(c) \/ InsertBooking(c) \/ TakeSeats(c)
  <2>1. tx[c] \in Tx
    BY <1>1, <1>4 DEF InsertWaitlist, InsertBooking, TakeSeats, NoTx
  <2> QED BY <1>2, <1>4, <2>1
          DEF InsertWaitlist, InsertBooking, TakeSeats, StoreInv, TypeOK, Tx, PCs
<1>5. CASE SetSeats(c) \/ PromoteDone(c)
  <2>1. tx[c].pc \in {"setSeats", "promote"}
    BY <1>5 DEF SetSeats, PromoteDone
  <2>2. tx[c] \in Tx
    BY <1>1, <2>1 DEF NoTx
  <2> QED BY <1>2, <1>5, <2>2 DEF SetSeats, PromoteDone, StoreInv, TypeOK, Tx, PCs
<1>6. CASE DeleteBooking(c)
  <2>1. tx[c].pc = "delete" /\ Private
    BY <1>6 DEF DeleteBooking
  <2>2. tx[c] \in Tx
    BY <1>1, <2>1 DEF NoTx
  <2>3. PICK b : tx' = [tx EXCEPT ![c].unbooked = {b}, ![c].left = @ + b.seats,
                                  ![c].pc = "promote"]
    BY <1>6 DEF DeleteBooking
  <2> QED BY <1>2, <1>6, <2>1, <2>2, <2>3 DEF StoreInv, TypeOK, Tx, PCs
<1>7. CASE Promote(c)
  <2>1. tx[c].pc = "promote" /\ Private
    BY <1>7 DEF Promote, PromoteOneOf
  <2>2. tx[c] \in Tx
    BY <1>1, <2>1 DEF NoTx
  <2>3. PICK w : tx' = [tx EXCEPT ![c].booked = @ \cup {AsBooking(w)},
                                  ![c].unqueued = @ \cup {w}, ![c].left = @ - w.seats]
    BY <1>7 DEF Promote, PromoteOneOf
  <2> QED BY <1>2, <2>1, <2>2, <2>3 DEF StoreInv, TypeOK, Tx, PCs
<1>8. CASE EventNotFound(c) \/ NothingToCancel(c) \/ Commit(c)
  BY <1>8 DEF EventNotFound, NothingToCancel, Commit, NoTx
<1> QED BY <1>3, <1>4, <1>5, <1>6, <1>7, <1>8 DEF Statement

-----------------------------------------------------------------------------
(***************************************************************************)
(* A place in line.  The stamps of a queue lie in the past, and so do the  *)
(* stamps the bookings under way will use; what begins now is therefore    *)
(* behind everyone who waits already.                                      *)
(***************************************************************************)
StampsInThePast ==
  /\ \A w \in waitlist : w.at <= clock
  /\ \A c \in Conns : tx[c] # NoTx /\ tx[c].op = "book" => tx[c].start <= clock

\* After the step the connection has no Book under way, or the one it had.
NoOtherBook(d) ==
  \/ tx'[d] = NoTx \/ tx'[d].op # "book"
  \/ /\ tx[d] # NoTx /\ tx[d].op = "book"
     /\ tx'[d].event = tx[d].event /\ tx'[d].start = tx[d].start

\* What a step does to the queues: it takes rows out; or it commits the row
\* of a Book that is over with it; or it begins a Book with the time of day.
LeavesOnly == /\ waitlist' \subseteq waitlist /\ clock' = clock
              /\ \A d \in Conns : NoOtherBook(d)
Joins(c) == /\ tx[c] # NoTx /\ tx[c].op = "book" /\ tx'[c] = NoTx
            /\ waitlist' = waitlist \cup {EntryOf(tx[c])} /\ clock' = clock
            /\ \A d \in Conns : NoOtherBook(d)
Arrives(c) == /\ waitlist' = waitlist /\ clock <= clock'
              /\ tx'[c].start = clock'
              /\ \A d \in Conns \ {c} : NoOtherBook(d)

\* A statement of a transaction does not change what the transaction is about.
LEMMA StatementKeepsBook ==
  ASSUME StoreInv, NEW c \in Conns, LockEvent(c) \/ Statement(c) \/ Rollback(c)
  PROVE  \A d \in Conns : NoOtherBook(d)
<1>1. \A d \in Conns : tx[d] \in Tx \cup {NoTx}
  BY DEF StoreInv, TypeOK
<1>2. CASE End(c)
  <2>1. \A d \in Conns : tx'[d] = IF d = c THEN NoTx ELSE tx[d]
    BY <1>2 DEF End, StoreInv, TypeOK
  <2> QED BY <1>1, <2>1, Zenon DEF NoOtherBook
<1>3. ASSUME tx[c] \in Tx, tx'[c].op = tx[c].op, tx'[c].event = tx[c].event,
             tx'[c].start = tx[c].start, \A d \in Conns \ {c} : tx'[d] = tx[d]
      PROVE  \A d \in Conns : NoOtherBook(d)
  <2>1. tx[c] # NoTx
    BY <1>3 DEF Tx, NoTx, PCs
  <2> QED BY <1>1, <1>3, <2>1, Zenon DEF NoOtherBook
<1>4. CASE LockEvent(c)
  <2>1. tx[c] \in Tx
    BY <1>1, <1>4 DEF LockEvent, NoTx
  <2> QED BY <1>3, <1>4, <2>1 DEF LockEvent, StoreInv, TypeOK, Tx
<1>5. CASE GoesOn(c)
  BY <1>3, <1>5 DEF GoesOn
<1> QED BY <1>2, <1>4, <1>5, StatementGoesOn DEF Rollback

\* Every step does one of the three.
LEMMA QueueStep ==
  ASSUME StoreInv, [Next]_vars
  PROVE  LeavesOnly \/ \E c \in Conns : Joins(c) \/ Arrives(c)
<1>1. ASSUME tx' = tx PROVE \A d \in Conns : NoOtherBook(d)
  BY <1>1, Zenon DEF NoOtherBook
<1>2. CASE UNCHANGED vars \/ \E e \in Events : CreateEvent(e)
  BY <1>1, <1>2 DEF vars, CreateEvent, LeavesOnly
<1>3. ASSUME NEW c \in Conns, BeginBook(c) PROVE Arrives(c)
  <2>1. PICK e \in Events, u \in Users, n \in Wants :
          tx' = [tx EXCEPT ![c] = Started("book", e, u, n, clock')]
    BY <1>3 DEF BeginBook
  <2>2. tx'[c].start = clock' /\ \A d \in Conns \ {c} : tx'[d] = tx[d]
    BY <2>1 DEF StoreInv, TypeOK, Started
  <2>3. clock <= clock' /\ waitlist' = waitlist
    BY <1>3 DEF BeginBook, Later, tables, StoreInv, TypeOK
  <2> QED BY <2>2, <2>3, Zenon DEF Arrives, NoOtherBook
<1>4. ASSUME NEW c \in Conns, BeginCancel(c) PROVE LeavesOnly
  <2>1. PICK e \in Events, u \in Users :
          tx' = [tx EXCEPT ![c] = Started("cancel", e, u, 0, 0)]
    BY <1>4 DEF BeginCancel
  <2>2. tx'[c].op # "book" /\ \A d \in Conns \ {c} : tx'[d] = tx[d]
    BY <2>1 DEF StoreInv, TypeOK, Started
  <2>3. clock' = clock /\ waitlist' = waitlist
    BY <1>4 DEF BeginCancel, tables
  <2> QED BY <2>2, <2>3, Zenon DEF LeavesOnly, NoOtherBook
<1>5. ASSUME NEW c \in Conns, Commit(c) PROVE LeavesOnly \/ Joins(c)
  <2> DEFINE t == tx[c]
  <2>1. t # NoTx /\ TxInv(c) /\ t.pc = "commit" /\ clock' = clock /\ tx'[c] = NoTx
    BY <1>5 DEF Commit, End, StoreInv, TypeOK, NoTx
  <2>2. waitlist' = (waitlist \ t.unqueued) \cup t.queued
    BY <1>5 DEF Commit, SeenWaitlist
  <2>3. \A d \in Conns : NoOtherBook(d)
    BY <1>5, StatementKeepsBook DEF Statement
  <2>4. CASE t.op = "book" /\ Waiting1(t)
    BY <2>1, <2>2, <2>3, <2>4 DEF Joins, Waiting1, NoDeletes
  <2>5. CASE t.queued = {}
    BY <2>1, <2>2, <2>3, <2>5 DEF LeavesOnly
  <2> QED BY <2>1, <2>4, <2>5 DEF TxInv, Booking1, NothingWritten, NoInserts, Promoting
<1>6. ASSUME NEW c \in Conns, LockEvent(c) \/ Statement(c) \/ Rollback(c), ~Commit(c)
      PROVE  LeavesOnly
  <2>1. waitlist' = waitlist /\ clock' = clock
    BY <1>6 DEF LockEvent, Statement, Rollback, EventNotFound, FindBooking, FindWaitlist,
       InsertWaitlist, InsertBooking, TakeSeats, DeleteBooking, NothingToCancel, Promote,
       PromoteOneOf, PromoteDone, SetSeats, Private, End, tables
  <2> QED BY <1>6, <2>1, StatementKeepsBook DEF LeavesOnly
<1> QED BY <1>2, <1>3, <1>4, <1>5, <1>6 DEF Next

LEMMA PastInit == Init => StampsInThePast
BY DEF Init, StampsInThePast

LEMMA PastNext == StoreInv /\ StampsInThePast /\ [Next]_vars => StampsInThePast'
<1> SUFFICES ASSUME StoreInv, StampsInThePast, [Next]_vars PROVE StampsInThePast'
  OBVIOUS
<1>1. CASE LeavesOnly
  BY <1>1 DEF LeavesOnly, StampsInThePast, NoOtherBook
<1>2. ASSUME NEW c \in Conns, Joins(c) PROVE StampsInThePast'
  <2>1. EntryOf(tx[c]).at <= clock
    BY <1>2 DEF Joins, StampsInThePast, EntryOf
  <2> QED BY <1>2, <2>1 DEF Joins, StampsInThePast, NoOtherBook
<1>3. ASSUME NEW c \in Conns, Arrives(c) PROVE StampsInThePast'
  <2>1. clock \in Int /\ clock' \in Int /\ clock <= clock'
    BY <1>3, NextInv DEF StoreInv, TypeOK, Arrives
  <2>2. ASSUME NEW w \in waitlist' PROVE w.at <= clock'
    <3>1. w.at \in Int /\ w.at <= clock
      BY <1>3, <2>2 DEF Arrives, StampsInThePast, StoreInv, TypeOK, WaitlistEntry
    <3> QED BY <2>1, <3>1
  <2>3. ASSUME NEW d \in Conns, tx'[d] # NoTx, tx'[d].op = "book" PROVE tx'[d].start <= clock'
    <3>1. CASE d = c
      BY <1>3, <2>1, <3>1 DEF Arrives
    <3>2. CASE d # c
      <4>1. tx[d] # NoTx /\ tx'[d].start = tx[d].start /\ tx[d].start <= clock
        BY <1>3, <2>3, <3>2 DEF Arrives, NoOtherBook, StampsInThePast
      <4>2. tx[d].start \in Int
        BY <4>1 DEF StoreInv, TypeOK, Tx
      <4> QED BY <2>1, <4>1, <4>2
    <3> QED BY <3>1, <3>2
  <2> QED BY <2>2, <2>3 DEF StampsInThePast
<1> QED BY <1>1, <1>2, <1>3, QueueStep

\* The stamps in the tables and those on their way into them lie in the past.
THEOREM StoreStampsInThePast == Spec => []StampsInThePast
BY PastInit, PastNext, StoreInvariant, PTL DEF Spec

\* Fewer elements, or one less: what the cardinality of a finite set does.
LEMMA Fewer ==
  ASSUME NEW S, NEW T, IsFiniteSet(T), S \subseteq T
  PROVE  /\ Cardinality(S) \in Nat /\ Cardinality(T) \in Nat
         /\ Cardinality(S) <= Cardinality(T)
BY FS_Subset, FS_CardinalityType

\* "The user keeps their place in line": whoever is in front of w after a step
\* was in front of it before, or was already on their way.
THEOREM StorePlaceBounded == Spec => PlaceBounded
<1> DEFINE Before(w) == Cardinality(Ahead(w)) + Cardinality(Overtakers(w))
           After(w) == Cardinality(Ahead(w)') + Cardinality(Overtakers(w)')
           Bounded == \A w \in waitlist \cap waitlist' : After(w) <= Before(w)
<1>1. StoreInv /\ LedgerProofs!LedgerInv /\ StampsInThePast /\ [Next]_vars => Bounded
  <2> SUFFICES ASSUME StoreInv, LedgerProofs!LedgerInv, StampsInThePast, [Next]_vars,
                      NEW w \in waitlist, w \in waitlist'
               PROVE  After(w) <= Before(w)
    OBVIOUS
  <2>1. IsFiniteSet(Ahead(w)) /\ IsFiniteSet(Overtakers(w))
    BY LedgerFacts, ConnAssumption, FS_Subset DEF Ahead, Overtakers
  <2>2. ASSUME Ahead(w)' \subseteq Ahead(w), Overtakers(w)' \subseteq Overtakers(w)
        PROVE  After(w) <= Before(w)
    <3>1. /\ Cardinality(Ahead(w)') \in Nat /\ Cardinality(Ahead(w)) \in Nat
          /\ Cardinality(Ahead(w)') <= Cardinality(Ahead(w))
      BY <2>1, <2>2, Fewer
    <3>2. /\ Cardinality(Overtakers(w)') \in Nat /\ Cardinality(Overtakers(w)) \in Nat
          /\ Cardinality(Overtakers(w)') <= Cardinality(Overtakers(w))
      BY <2>1, <2>2, Fewer
    <3> QED BY <3>1, <3>2
  <2>3. ASSUME \A d \in Conns : NoOtherBook(d) PROVE Overtakers(w)' \subseteq Overtakers(w)
    BY <2>3 DEF Overtakers, NoOtherBook
  <2>4. CASE LeavesOnly
    <3>1. Ahead(w)' \subseteq Ahead(w)
      BY <2>4 DEF LeavesOnly, Ahead
    <3> QED BY <2>2, <2>3, <2>4, <3>1 DEF LeavesOnly
  <2>5. ASSUME NEW c \in Conns, Arrives(c) PROVE After(w) <= Before(w)
    <3>1. Ahead(w)' \subseteq Ahead(w)
      BY <2>5 DEF Arrives, Ahead
    <3>2. ~(tx'[c].start < w.at)
      <4>1. clock \in Int /\ clock' \in Int /\ w.at \in Int
        BY NextInv DEF StoreInv, TypeOK, WaitlistEntry
      <4> QED BY <2>5, <4>1 DEF Arrives, StampsInThePast
    <3>3. Overtakers(w)' \subseteq Overtakers(w)
      BY <2>5, <3>2 DEF Overtakers, Arrives, NoOtherBook
    <3> QED BY <2>2, <3>1, <3>3
  <2>6. ASSUME NEW c \in Conns, Joins(c) PROVE After(w) <= Before(w)
    <3> DEFINE x == EntryOf(tx[c])
    <3>1. CASE ~(x.event = w.event /\ x.at < w.at)
      <4>1. Ahead(w)' \subseteq Ahead(w)
        BY <2>6, <3>1 DEF Joins, Ahead
      <4> QED BY <2>2, <2>3, <2>6, <4>1 DEF Joins
    <3>2. CASE x.event = w.event /\ x.at < w.at
      <4>1. c \in Overtakers(w) /\ Overtakers(w)' \subseteq Overtakers(w) \ {c}
        BY <2>3, <2>6, <3>2 DEF Joins, Overtakers, EntryOf
      <4>2. Ahead(w)' \subseteq Ahead(w) \cup {x}
        BY <2>6 DEF Joins, Ahead
      <4>3. /\ IsFiniteSet(Overtakers(w) \ {c})
            /\ Cardinality(Overtakers(w) \ {c}) = Cardinality(Overtakers(w)) - 1
        BY <2>1, <4>1, FS_RemoveElement
      <4>4. /\ IsFiniteSet(Ahead(w) \cup {x})
            /\ Cardinality(Ahead(w) \cup {x}) <= Cardinality(Ahead(w)) + 1
        <5>1. Cardinality(Ahead(w)) \in Nat
          BY <2>1, FS_CardinalityType
        <5>2. IsFiniteSet(Ahead(w) \cup {x})
          BY <2>1, FS_AddElement
        <5>3. \/ Cardinality(Ahead(w) \cup {x}) = Cardinality(Ahead(w))
              \/ Cardinality(Ahead(w) \cup {x}) = Cardinality(Ahead(w)) + 1
          <6> HIDE DEF x
          <6> QED BY <2>1, FS_AddElement
        <5> QED BY <5>1, <5>2, <5>3
      <4>5. /\ Cardinality(Overtakers(w)') \in Nat /\ Cardinality(Overtakers(w)) \in Nat
            /\ Cardinality(Overtakers(w)') <= Cardinality(Overtakers(w)) - 1
        BY <2>1, <4>1, <4>3, Fewer, FS_CardinalityType
      <4>6. /\ Cardinality(Ahead(w)') \in Nat /\ Cardinality(Ahead(w)) \in Nat
            /\ Cardinality(Ahead(w) \cup {x}) \in Nat
            /\ Cardinality(Ahead(w)') <= Cardinality(Ahead(w) \cup {x})
        BY <2>1, <4>2, <4>4, Fewer, FS_CardinalityType
      <4> QED BY <4>4, <4>5, <4>6
    <3> QED BY <3>1, <3>2
  <2> QED BY <2>4, <2>5, <2>6, QueueStep
<1> QED BY <1>1, StoreInvariant, StoreKeepsLedger, StoreStampsInThePast, PTL
        DEF Spec, PlaceBounded
-----------------------------------------------------------------------------
(***************************************************************************)
(* Why no transaction is stuck, as far as it is a matter of safety: who    *)
(* waits for a row lock waits for somebody who does not wait himself, who  *)
(* has a next statement, and whose statements run out.                     *)
(***************************************************************************)

\* A lock that is taken belongs to a transaction that is past its SELECT ...
\* FOR UPDATE of that very row.
Owned(e) == lock[e] # NoConn => /\ tx[lock[e]] # NoTx
                                /\ tx[lock[e]].pc # "lock"
                                /\ tx[lock[e]].event = e
LocksOwned == \A e \in Events : Owned(e)

LEMMA OwnedInit == Init => LocksOwned
BY DEF Init, LocksOwned, Owned

LEMMA OwnedNext == StoreInv /\ LocksOwned /\ [Next]_vars => LocksOwned'
<1> SUFFICES ASSUME StoreInv, LocksOwned, [Next]_vars, NEW e \in Events
             PROVE  Owned(e)'
  BY DEF LocksOwned
<1>t. /\ lock[e] \in Conns \cup {NoConn}
      /\ \A d \in Conns : tx[d] \in Tx \cup {NoTx}
  BY DEF StoreInv, TypeOK
<1>1. CASE tx' = tx /\ lock' = lock
  BY <1>1, Zenon DEF LocksOwned, Owned
<1>2. ASSUME NEW c \in Conns, End(c) PROVE Owned(e)'
  <2> SUFFICES ASSUME lock'[e] # NoConn PROVE Owned(e)'
    BY DEF Owned
  <2>1. lock'[e] = lock[e] /\ lock[e] # c
    BY <1>2, ConnAssumption DEF End
  <2>2. tx'[lock[e]] = tx[lock[e]]
    BY <1>2, <1>t, <2>1 DEF End, StoreInv, TypeOK
  <2> QED BY <2>1, <2>2, Zenon DEF LocksOwned, Owned
<1>3. ASSUME NEW c \in Conns, LockEvent(c)
      PROVE  Owned(e)'
  <2>1. tx[c] \in Tx /\ tx[c].pc = "lock"
    BY <1>3, <1>t DEF LockEvent, NoTx
  <2>2. /\ tx'[c].event = tx[c].event /\ tx'[c].pc \in {"findBooking", "delete"}
        /\ \A d \in Conns \ {c} : tx'[d] = tx[d]
    BY <1>3, <2>1 DEF LockEvent, StoreInv, TypeOK, Tx
  <2>3. lock' = [lock EXCEPT ![tx[c].event] = c]
    BY <1>3 DEF LockEvent
  <2>4. CASE e = tx[c].event
    <3>1. lock'[e] = c
      BY <2>3, <2>4 DEF StoreInv, TypeOK
    <3> QED BY <2>2, <2>4, <3>1 DEF Owned, NoTx
  <2>5. CASE e # tx[c].event
    <3>1. lock'[e] = lock[e]
      BY <2>3, <2>5 DEF StoreInv, TypeOK
    <3>2. lock[e] # c
      BY <2>1, ConnAssumption DEF LocksOwned, Owned
    <3> QED BY <1>t, <2>2, <3>1, <3>2 DEF LocksOwned, Owned
  <2> QED BY <2>4, <2>5
<1>4. ASSUME NEW c \in Conns, lock' = lock, \A d \in Conns \ {c} : tx'[d] = tx[d],
             \/ tx[c] = NoTx
             \/ tx[c] \in Tx /\ tx'[c] \in Tx /\ tx'[c].event = tx[c].event /\ tx'[c].pc # "lock"
      PROVE  Owned(e)'
  <2>1. CASE lock[e] = c
    <3>1. NoTx \notin Tx
      BY DEF NoTx, Tx, PCs
    <3> QED BY <1>4, <2>1, <3>1 DEF LocksOwned, Owned
  <2>2. CASE lock[e] # c
    BY <1>4, <1>t, <2>2, Zenon DEF LocksOwned, Owned
  <2> QED BY <2>1, <2>2
<1>5. ASSUME NEW c \in Conns, BeginBook(c) \/ BeginCancel(c)
      PROVE  Owned(e)'
  <2>1. tx[c] = NoTx /\ lock' = lock /\ \A d \in Conns \ {c} : tx'[d] = tx[d]
    BY <1>5 DEF BeginBook, BeginCancel, StoreInv, TypeOK
  <2> QED BY <1>4, <2>1
<1>6. ASSUME NEW c \in Conns, GoesOn(c)
      PROVE  Owned(e)'
  BY <1>4, <1>6 DEF GoesOn, Private
<1> QED BY <1>1, <1>2, <1>3, <1>5, <1>6, StatementGoesOn DEF Next, vars, CreateEvent, Rollback

\* The lock belongs to whoever runs, in every reachable state.
THEOREM StoreLocksOwned == Spec => []LocksOwned
BY OwnedInit, OwnedNext, StoreInvariant, PTL DEF Spec

\* The transaction waits for the row of its event.
Waits(c) == /\ tx[c] # NoTx /\ tx[c].pc = "lock"
            /\ capacity[tx[c].event] > 0 /\ ~CanLock(tx[c].event)

\* The transaction has a statement that can run: the guards of LockEvent and of
\* Statement's disjuncts.
HasStatement(c) ==
  LET t == tx[c]
  IN  \/ t.pc = "lock" /\ (capacity[t.event] = 0 \/ CanLock(t.event))
      \/ t.pc \in {"findBooking", "findWaitlist", "setSeats", "commit"}
      \/ t.pc = "decide" /\ t.want > t.left /\ ~InQueue(c, t.user)
      \/ t.pc = "decide" /\ t.want <= t.left /\ ~HasBooking(c, t.user)
      \/ t.pc = "takeSeats" /\ t.want <= seats[t.event]
      \/ t.pc = "delete" /\ RowsFor(SeenBookings(c), t.event, t.user) # {}
      \/ t.pc = "delete" /\ ~HasBooking(c, t.user)
      \/ /\ t.pc = "promote" /\ t.left > 0
         /\ \E w \in Oldest(Queue(c)) : w.seats <= t.left /\ ~HasBooking(c, w.user)
      \/ /\ t.pc = "promote"
         /\ t.left = 0 \/ Queue(c) = {} \/ \E w \in Oldest(Queue(c)) : w.seats > t.left

\* Nobody is stuck: a transaction that waits does so for one that does not,
\* and one that does not wait has a statement to run.  So there is no cycle of
\* waiters, and no state of the tables a transaction cannot get past.
NobodyStuck ==
  \A c \in Conns : tx[c] # NoTx =>
    IF Waits(c)
    THEN /\ lock[tx[c].event] \in Conns
         /\ tx[lock[tx[c].event]] # NoTx
         /\ ~Waits(lock[tx[c].event])
    ELSE HasStatement(c)

THEOREM StoreNobodyStuck == Spec => []NobodyStuck
<1>1. StoreInv /\ LocksOwned /\ ConstraintsNeverFire => NobodyStuck
  <2> SUFFICES ASSUME StoreInv, LocksOwned, ConstraintsNeverFire, NEW c \in Conns, tx[c] # NoTx
               PROVE  IF Waits(c)
                      THEN /\ lock[tx[c].event] \in Conns
                           /\ tx[lock[tx[c].event]] # NoTx
                           /\ ~Waits(lock[tx[c].event])
                      ELSE HasStatement(c)
    BY DEF NobodyStuck
  <2> DEFINE t == tx[c]
  <2>1. t \in Tx /\ t.event \in Events
    BY DEF StoreInv, TypeOK, Tx
  <2>2. ASSUME Waits(c)
        PROVE  /\ lock[t.event] \in Conns /\ tx[lock[t.event]] # NoTx
               /\ ~Waits(lock[t.event])
    BY <2>1, <2>2 DEF Waits, CanLock, LocksOwned, Owned, StoreInv, TypeOK
  <2>3. ASSUME ~Waits(c) PROVE HasStatement(c)
    <3>1. t.left \in Nat /\ t.want \in Nat /\ t.pc \in PCs /\ capacity[t.event] \in Nat
      BY <2>1 DEF Tx, StoreInv, TypeOK
    <3>2. CASE t.pc = "lock"
      BY <2>3, <3>1, <3>2 DEF HasStatement, Waits
    <3>3. CASE t.pc \in {"decide", "takeSeats"}
      BY <3>1, <3>3 DEF HasStatement, ConstraintsNeverFire
    <3>4. CASE t.pc = "delete"
      BY <3>4 DEF HasStatement, HasBooking
    <3>5. CASE t.pc = "promote" /\ t.left > 0 /\ Queue(c) # {}
      <4>1. Queue(c) \in SUBSET WaitlistEntry
        BY <2>1 DEF Queue, RowsOf, SeenWaitlist, StoreInv, TypeOK, Tx
      <4>2. PICK w : w \in Oldest(Queue(c))
        BY <3>5, <4>1, OldestExists
      <4>3. w.seats \in Nat
        BY <4>1, <4>2, SeatAssumption DEF Oldest, WaitlistEntry
      <4>4. ~HasBooking(c, w.user)
        BY <3>5, <4>2 DEF ConstraintsNeverFire
      <4> QED BY <3>1, <3>5, <4>2, <4>3, <4>4 DEF HasStatement
    <3>6. CASE t.pc = "promote" /\ (t.left = 0 \/ Queue(c) = {})
      BY <3>6 DEF HasStatement
    <3>7. CASE t.pc \in {"findBooking", "findWaitlist", "setSeats", "commit"}
      BY <3>7 DEF HasStatement
    <3> QED BY <3>1, <3>2, <3>3, <3>4, <3>5, <3>6, <3>7 DEF PCs
  <2> QED BY <2>2, <2>3
<1> QED BY <1>1, StoreInvariant, StoreLocksOwned, StoreConstraintsNeverFire, PTL

\* How many statements a transaction that has its lock can still make: those
\* of its path, and a round of promoteTx for each entry left in the queue.
StatementsLeft(c) ==
  LET path == [findBooking |-> 5, findWaitlist |-> 4, decide |-> 3, takeSeats |-> 2,
               delete |-> 4, promote |-> 3, setSeats |-> 2, commit |-> 1]
      rounds == IF tx[c].pc \in {"delete", "promote"} THEN Cardinality(Queue(c)) ELSE 0
  IN  IF tx[c] = NoTx THEN 0 ELSE path[tx[c].pc] + rounds

\* Each statement of a transaction leaves it fewer to make, and nothing the
\* others do gives it more: the loop of promoteTx ends.
StatementsRunOut ==
  [][\A c \in Conns : tx[c] # NoTx /\ tx[c].pc # "lock" =>
       IF tx'[c] = tx[c] THEN StatementsLeft(c)' = StatementsLeft(c)
                         ELSE StatementsLeft(c)' < StatementsLeft(c)]_vars
\* A connection that is not the one that moves keeps its transaction, and a
\* transaction with its lock keeps the queue it sees.
LEMMA OthersKeepQueue ==
  ASSUME StoreInv, NEW c \in Conns, [Next]_vars, tx[c] # NoTx, tx[c].pc # "lock"
  PROVE  \/ tx'[c] = tx[c] /\ Queue(c)' = Queue(c)
         \/ Statement(c) \/ Rollback(c)
<1>1. CASE tx'[c] = tx[c] /\ RowsOf(waitlist', tx[c].event) = RowsOf(waitlist, tx[c].event)
  BY <1>1 DEF Queue, SeenWaitlist, RowsOf
<1>2. CASE UNCHANGED vars \/ \E e \in Events : CreateEvent(e)
  BY <1>1, <1>2 DEF vars, CreateEvent
<1>3. ASSUME NEW d \in Conns, d # c,
             BeginBook(d) \/ BeginCancel(d) \/ LockEvent(d) \/ Statement(d) \/ Rollback(d)
      PROVE  tx'[c] = tx[c] /\ RowsOf(waitlist', tx[c].event) = RowsOf(waitlist, tx[c].event)
  <2>1. CASE BeginBook(d) \/ BeginCancel(d) \/ LockEvent(d)
    BY <1>3, <2>1 DEF BeginBook, BeginCancel, LockEvent, tables, StoreInv, TypeOK
  <2>2. CASE GoesOn(d)
    BY <1>3, <2>2 DEF GoesOn, Private, tables
  <2>3. CASE End(d)
    <3>1. tx'[c] = tx[c]
      BY <1>3, <2>3 DEF End, StoreInv, TypeOK
    <3>2. CASE Commit(d)
      <4>1. tx[d] # NoTx /\ tx[d].pc # "lock" /\ TxInv(c) /\ TxInv(d)
        BY <3>2 DEF Commit, NoTx, StoreInv
      <4>2. tx[c].event # tx[d].event
        BY <1>3, <4>1, DifferentEvents DEF TxInv
      <4>3. tx[c].event \in Events
        BY DEF StoreInv, TypeOK, Tx
      <4> QED BY <3>1, <3>2, <4>2, <4>3, CommitElsewhere
    <3>3. CASE ~Commit(d)
      <4>1. waitlist' = waitlist
        BY <1>3, <3>3 DEF BeginBook, BeginCancel, LockEvent, Statement, Rollback, EventNotFound,
           FindBooking, FindWaitlist, InsertWaitlist, InsertBooking, TakeSeats, DeleteBooking,
           NothingToCancel, Promote, PromoteOneOf, PromoteDone, SetSeats, Private, tables
      <4> QED BY <3>1, <4>1
    <3> QED BY <3>2, <3>3
  <2> QED BY <1>3, <2>1, <2>2, <2>3, StatementGoesOn DEF Rollback
<1>4. ASSUME BeginBook(c) \/ BeginCancel(c) \/ LockEvent(c) PROVE FALSE
  BY <1>4 DEF BeginBook, BeginCancel, LockEvent
<1> QED BY <1>1, <1>2, <1>3, <1>4 DEF Next

\* A round of promoteTx takes an entry out of the queue the transaction sees,
\* and before the loop the queue is the committed one.
LEMMA LoopQueue ==
  ASSUME StoreInv, LedgerProofs!LedgerInv, NEW c \in Conns, tx[c] # NoTx,
         tx[c].pc \in {"delete", "promote"}
  PROVE  /\ IsFiniteSet(Queue(c)) /\ Cardinality(Queue(c)) \in Nat
         /\ DeleteBooking(c) => Queue(c)' = Queue(c)
         /\ Promote(c) => \E w \in Queue(c) : Queue(c)' = Queue(c) \ {w}
<1> DEFINE t == tx[c]
<1>1. t \in Tx /\ t.queued = {}
  BY DEF StoreInv, TypeOK, TxInv, NothingWritten, NoInserts, Promoting
<1>2. IsFiniteSet(Queue(c)) /\ Cardinality(Queue(c)) \in Nat
  <2>1. Queue(c) \subseteq waitlist
    BY <1>1 DEF Queue, RowsOf, SeenWaitlist
  <2> QED BY <2>1, LedgerFacts, FS_Subset, FS_CardinalityType
<1>3. ASSUME DeleteBooking(c) PROVE Queue(c)' = Queue(c)
  <2>1. PICK b : tx' = [tx EXCEPT ![c].unbooked = {b}, ![c].left = @ + b.seats,
                                  ![c].pc = "promote"]
    BY <1>3 DEF DeleteBooking
  <2>2. tx'[c].event = t.event /\ tx'[c].queued = t.queued /\ tx'[c].unqueued = t.unqueued
    BY <1>1, <2>1 DEF StoreInv, TypeOK, Tx
  <2> QED BY <1>3, <2>2 DEF DeleteBooking, Private, tables, Queue, RowsOf, SeenWaitlist
<1>4. ASSUME Promote(c) PROVE \E w \in Queue(c) : Queue(c)' = Queue(c) \ {w}
  <2>1. PICK w \in Queue(c) :
          tx' = [tx EXCEPT ![c].booked = @ \cup {AsBooking(w)}, ![c].unqueued = @ \cup {w},
                           ![c].left = @ - w.seats]
    BY <1>4 DEF Promote, PromoteOneOf, Oldest
  <2>2. tx'[c].event = t.event /\ tx'[c].queued = {} /\ tx'[c].unqueued = t.unqueued \cup {w}
    BY <1>1, <2>1 DEF StoreInv, TypeOK, Tx
  <2>3. waitlist' = waitlist
    BY <1>4 DEF Promote, PromoteOneOf, Private, tables
  <2> QED BY <1>1, <2>2, <2>3 DEF Queue, RowsOf, SeenWaitlist
<1> QED BY <1>2, <1>3, <1>4

THEOREM StoreStatementsRunOut ==
  Spec => /\ [](\A c \in Conns : tx[c] # NoTx /\ tx[c].pc # "lock" => StatementsLeft(c) \in Nat)
          /\ StatementsRunOut
<1> DEFINE Natural == \A c \in Conns : tx[c] # NoTx /\ tx[c].pc # "lock" => StatementsLeft(c) \in Nat
           GoesDown(c) == IF tx'[c] = tx[c] THEN StatementsLeft(c)' = StatementsLeft(c)
                                          ELSE StatementsLeft(c)' < StatementsLeft(c)
           Less == \A c \in Conns : tx[c] # NoTx /\ tx[c].pc # "lock" => GoesDown(c)
           IndInv == StoreInv /\ LedgerProofs!LedgerInv
<1>1. ASSUME StoreInv, LedgerProofs!LedgerInv, NEW c \in Conns, tx[c] # NoTx, tx[c].pc # "lock"
      PROVE  StatementsLeft(c) \in Nat /\ StatementsLeft(c) > 0
  <2>1. tx[c].pc \in PCs \ {"lock"}
    BY <1>1 DEF StoreInv, TypeOK, Tx
  <2>2. tx[c].pc \in {"delete", "promote"} => Cardinality(Queue(c)) \in Nat
    BY <1>1, LoopQueue
  <2> QED BY <1>1, <2>1, <2>2 DEF StatementsLeft, PCs
<1>2. ASSUME StoreInv, LedgerProofs!LedgerInv, [Next]_vars, NEW c \in Conns,
             tx[c] # NoTx, tx[c].pc # "lock"
      PROVE  GoesDown(c)
  <2>1. CASE tx'[c] = tx[c] /\ Queue(c)' = Queue(c)
    BY <2>1 DEF StatementsLeft
  <2>2. CASE End(c)
    <3>1. tx'[c] = NoTx
      BY <1>2, <2>2 DEF End, StoreInv, TypeOK
    <3>2. StatementsLeft(c)' = 0
      BY <3>1 DEF StatementsLeft
    <3> QED BY <1>1, <1>2, <3>1, <3>2
  <2>3. CASE GoesOn(c) /\ Statement(c)
    <3>1. tx[c] \in Tx /\ tx'[c] \in Tx /\ tx'[c] # NoTx
      BY <2>3 DEF GoesOn, Tx, NoTx, PCs
    <3>2. CASE Promote(c)
      <4>1. tx[c].pc = "promote" /\ tx'[c].pc = "promote"
        BY <1>2, <3>1, <3>2 DEF Promote, PromoteOneOf, StoreInv, TypeOK, Tx
      <4>2. PICK w \in Queue(c) : Queue(c)' = Queue(c) \ {w}
        BY <1>2, <3>2, <4>1, LoopQueue
      <4>3. Cardinality(Queue(c)') = Cardinality(Queue(c)) - 1 /\ Cardinality(Queue(c)) \in Nat
        BY <1>2, <4>1, <4>2, LoopQueue, FS_RemoveElement
      <4>4. StatementsLeft(c) = 3 + Cardinality(Queue(c))
            /\ StatementsLeft(c)' = 3 + Cardinality(Queue(c)')
        BY <1>2, <3>1, <4>1 DEF StatementsLeft
      <4>5. tx'[c] # tx[c]
        BY <2>3, <4>2 DEF GoesOn, Private, tables, Queue, SeenWaitlist
      <4> QED BY <4>3, <4>4, <4>5
    <3>3. CASE DeleteBooking(c)
      <4>1. PICK b : tx' = [tx EXCEPT ![c].unbooked = {b}, ![c].left = @ + b.seats,
                                      ![c].pc = "promote"]
        BY <3>3 DEF DeleteBooking
      <4>2. tx[c].pc = "delete" /\ tx'[c].pc = "promote"
        BY <1>2, <3>1, <3>3, <4>1 DEF DeleteBooking, StoreInv, TypeOK, Tx
      <4>3. Queue(c)' = Queue(c) /\ Cardinality(Queue(c)) \in Nat
        BY <1>2, <3>3, <4>2, LoopQueue
      <4>4. StatementsLeft(c) = 4 + Cardinality(Queue(c))
            /\ StatementsLeft(c)' = 3 + Cardinality(Queue(c)')
        BY <1>2, <3>1, <4>2 DEF StatementsLeft
      <4> QED BY <4>2, <4>3, <4>4
    <3>4. CASE PromoteDone(c)
      <4>1. tx[c].pc = "promote" /\ tx'[c].pc = "setSeats"
        BY <1>2, <3>1, <3>4 DEF PromoteDone, StoreInv, TypeOK, Tx
      <4>2. Cardinality(Queue(c)) \in Nat
        BY <1>2, <4>1, LoopQueue
      <4>3. StatementsLeft(c) = 3 + Cardinality(Queue(c)) /\ StatementsLeft(c)' = 2
        BY <1>2, <3>1, <4>1 DEF StatementsLeft
      <4> QED BY <4>1, <4>2, <4>3
    <3>5. CASE \/ FindBooking(c) \/ FindWaitlist(c) \/ InsertWaitlist(c)
               \/ InsertBooking(c) \/ TakeSeats(c) \/ SetSeats(c)
      <4>1. \/ tx[c].pc = "findBooking" /\ tx'[c].pc \in {"findWaitlist", "commit"}
            \/ tx[c].pc = "findWaitlist" /\ tx'[c].pc \in {"decide", "commit"}
            \/ tx[c].pc = "decide" /\ tx'[c].pc \in {"takeSeats", "commit"}
            \/ tx[c].pc \in {"takeSeats", "setSeats"} /\ tx'[c].pc = "commit"
        BY <1>2, <3>1, <3>5 DEF FindBooking, FindWaitlist, InsertWaitlist, InsertBooking, TakeSeats,
           SetSeats, StoreInv, TypeOK, Tx
      <4> QED BY <1>2, <3>1, <4>1 DEF StatementsLeft
    <3> QED BY <2>2, <2>3, <3>2, <3>3, <3>4, <3>5
            DEF Statement, EventNotFound, NothingToCancel, Commit
  <2> QED BY <1>2, <2>1, <2>2, <2>3, OthersKeepQueue, StatementGoesOn DEF Rollback
<1>3. IndInv => Natural
  BY <1>1
<1>4. IndInv /\ [Next]_vars => [Less]_vars
  BY <1>2
<1> HIDE DEF GoesDown
<1>5. Spec => []IndInv
  BY StoreInvariant, StoreKeepsLedger, PTL
<1>6. [][Less]_vars => StatementsRunOut
  BY PTL DEF StatementsRunOut, GoesDown
<1> QED BY <1>3, <1>4, <1>5, <1>6, PTL DEF Spec
-----------------------------------------------------------------------------
(***************************************************************************)
(* Nobody loses a place but by their own cancellation.                     *)
(***************************************************************************)

\* What a transaction deletes from bookings is its own user's booking of its
\* own event.
UnbooksOwn ==
  \A c \in Conns : tx[c] # NoTx => \A b \in tx[c].unbooked :
    tx[c].op = "cancel" /\ b.user = tx[c].user /\ b.event = tx[c].event

LEMMA UnbooksOwnNext == StoreInv /\ UnbooksOwn /\ [Next]_vars => UnbooksOwn'
<1> SUFFICES ASSUME StoreInv, UnbooksOwn, [Next]_vars, NEW c \in Conns, tx'[c] # NoTx,
                    NEW b \in tx'[c].unbooked
             PROVE  tx'[c].op = "cancel" /\ b.user = tx'[c].user /\ b.event = tx'[c].event
  BY DEF UnbooksOwn
<1>1. CASE tx'[c] = tx[c]
  BY <1>1 DEF UnbooksOwn
<1>2. CASE GoesOn(c)
  <2>1. CASE tx'[c].unbooked = tx[c].unbooked
    <3>1. tx[c] # NoTx
      BY <1>2 DEF GoesOn, Tx, NoTx, PCs
    <3> QED BY <1>2, <2>1, <3>1 DEF GoesOn, UnbooksOwn
  <2>2. CASE DeleteBooking(c)
    <3>1. PICK x \in RowsFor(SeenBookings(c), tx[c].event, tx[c].user) :
            tx' = [tx EXCEPT ![c].unbooked = {x}, ![c].left = @ + x.seats, ![c].pc = "promote"]
      BY <2>2 DEF DeleteBooking
    <3>2. tx'[c].unbooked = {x}
      BY <1>2, <3>1 DEF GoesOn, StoreInv, TypeOK, Tx
    <3>3. tx[c].op = "cancel"
      BY <2>2 DEF DeleteBooking, StoreInv, TxInv, CancelPCs, NoTx
    <3> QED BY <1>2, <3>1, <3>2, <3>3 DEF GoesOn, RowsFor
  <2> QED BY <1>2, <2>1, <2>2 DEF GoesOn
<1>3. CASE BeginBook(c) \/ BeginCancel(c)
  <2>1. tx'[c].unbooked = {}
    BY <1>3 DEF BeginBook, BeginCancel, Started, StoreInv, TypeOK
  <2> QED BY <2>1
<1>4. CASE LockEvent(c)
  <2>1. tx[c] \in Tx /\ NothingWritten(tx[c])
    BY <1>4 DEF LockEvent, StoreInv, TypeOK, TxInv, NoTx
  <2>2. tx'[c].unbooked = {}
    BY <1>4, <2>1 DEF LockEvent, NothingWritten, NoDeletes, StoreInv, TypeOK, Tx
  <2> QED BY <2>2
<1>5. ~End(c)
  BY DEF End, StoreInv, TypeOK
<1>6. ASSUME NEW d \in Conns, d # c,
             BeginBook(d) \/ BeginCancel(d) \/ LockEvent(d) \/ Statement(d) \/ Rollback(d)
      PROVE  tx'[c] = tx[c]
  <2>1. CASE BeginBook(d) \/ BeginCancel(d) \/ LockEvent(d)
    BY <1>6, <2>1 DEF BeginBook, BeginCancel, LockEvent, StoreInv, TypeOK
  <2>2. CASE GoesOn(d)
    BY <1>6, <2>2 DEF GoesOn
  <2>3. CASE End(d)
    BY <1>6, <2>3 DEF End, StoreInv, TypeOK
  <2> QED BY <1>6, <2>1, <2>2, <2>3, StatementGoesOn DEF Rollback
<1>7. CASE UNCHANGED vars \/ \E e \in Events : CreateEvent(e)
  BY <1>1, <1>7 DEF vars, CreateEvent
<1> QED BY <1>1, <1>2, <1>3, <1>4, <1>5, <1>6, <1>7, StatementGoesOn DEF Next, Rollback

\* A booking disappears only when a cancellation by its user commits.
OnlyOwnCancel ==
  \A b \in bookings \ bookings' : \E c \in Conns :
    Commit(c) /\ tx[c].op = "cancel" /\ tx[c].user = b.user /\ tx[c].event = b.event

\* Whatever transactions overlap, whoever leaves a queue has a booking of as many
\* seats, a commit takes one booking at most, and that is the one its own user
\* asked to cancel.
THEOREM StoreDropsNobody ==
  Spec => /\ [][LedgerProofs!DropsNobody]_(LedgerProofs!vars)
          /\ [][OnlyOwnCancel]_vars
<1>1. [Ledger!Next]_(Ledger!vars) => [LedgerProofs!DropsNobody]_(LedgerProofs!vars)
  <2>1. 0..MaxClock \subseteq Nat
    BY ClockAssumption
  <2>2. [LedgerProofs!Next]_(LedgerProofs!vars) => [LedgerProofs!DropsNobody]_(LedgerProofs!vars)
    BY <2>1, SeatAssumption, LedgerProofs!LedgerDropStep
  <2> QED BY <2>2, SameNext
<1>2. Init => UnbooksOwn
  BY DEF Init, UnbooksOwn
<1>3. StoreInv /\ UnbooksOwn /\ [Next]_vars => [OnlyOwnCancel]_vars
  <2> SUFFICES ASSUME StoreInv, UnbooksOwn, [Next]_vars, NEW b \in bookings, b \notin bookings'
               PROVE  \E c \in Conns : Commit(c) /\ tx[c].op = "cancel"
                                       /\ tx[c].user = b.user /\ tx[c].event = b.event
    BY DEF OnlyOwnCancel
  <2>1. PICK c \in Conns : Commit(c)
    BY DEF Next, vars, CreateEvent, BeginBook, BeginCancel, LockEvent, Statement, Rollback,
       EventNotFound, FindBooking, FindWaitlist, InsertWaitlist, InsertBooking, TakeSeats,
       DeleteBooking, NothingToCancel, Promote, PromoteOneOf, PromoteDone, SetSeats, Private, tables
  <2>2. b \in tx[c].unbooked /\ tx[c] # NoTx
    BY <2>1 DEF Commit, SeenBookings, NoTx
  <2> QED BY <2>1, <2>2 DEF UnbooksOwn
<1> QED BY <1>1, <1>2, <1>3, UnbooksOwnNext, StepRefines, StoreInvariant, PTL DEF Spec
=============================================================================
