------------------------ MODULE BookingLedgerProofs ------------------------
(***************************************************************************)
(* The ledger keeps what it promises, for any events, users, capacities,   *)
(* requests and stamps, and the store in the memory of one process, which  *)
(* has the ledger's variables and a clock, implements it.  First the       *)
(* arithmetic of SeatSum, SUM(seats) over any finite table, which the      *)
(* proofs of the Postgres store cite too.                                  *)
(***************************************************************************)
EXTENDS MemoryStore, FiniteSetTheorems, FunctionTheorems, WellFoundedInduction, TLAPS

\* The seat counts of the rows are numbers.
Counted(rows) == IsFiniteSet(rows) /\ \A x \in rows : x.seats \in Nat

\* The sum over finitely many rows is a number.
LEMMA SeatSumType ==
  ASSUME NEW rows, Counted(rows)
  PROVE  IsFiniteSet(Units(rows)) /\ SeatSum(rows) \in Nat
<1> DEFINE part == [x \in rows |-> {x} \X (1..x.seats)]
           parts == {{x} \X (1..x.seats) : x \in rows}
<1>1. part \in Surjection(rows, parts)
  BY DEF Surjection
<1>2. IsFiniteSet(parts)
  BY <1>1, FS_Surjection DEF Counted
<1>3. \A T \in parts : IsFiniteSet(T)
  <2> SUFFICES ASSUME NEW x \in rows
               PROVE  IsFiniteSet({x} \X (1..x.seats))
    OBVIOUS
  <2>1. IsFiniteSet({x})
    BY FS_Singleton
  <2>2. IsFiniteSet(1..x.seats)
    BY FS_Interval DEF Counted
  <2> QED BY <2>1, <2>2, FS_Product
<1>4. IsFiniteSet(UNION parts)
  BY <1>2, <1>3, FS_UNION
<1> QED BY <1>4, FS_CardinalityType DEF Units, SeatSum

\* An empty table sums to zero.
LEMMA SeatSumEmpty == SeatSum({}) = 0
BY FS_EmptySet DEF SeatSum, Units

\* A single row contributes its seats.
LEMMA SeatSumSingle ==
  ASSUME NEW x, x.seats \in Nat
  PROVE  SeatSum({x}) = x.seats
<1>1. Units({x}) = {x} \X (1..x.seats)
  BY DEF Units
<1>2. IsFiniteSet({x}) /\ Cardinality({x}) = 1
  BY FS_Singleton
<1>3. IsFiniteSet(1..x.seats) /\ Cardinality(1..x.seats) = x.seats
  BY FS_Interval
<1>4. Cardinality({x} \X (1..x.seats)) = Cardinality({x}) * Cardinality(1..x.seats)
  BY <1>2, <1>3, FS_Product
<1>5. \A n \in Nat : 1 * n = n
  OBVIOUS
<1> QED BY <1>1, <1>2, <1>3, <1>4, <1>5 DEF SeatSum

\* The sum over two tables without a common row is the sum of the sums.
LEMMA SeatSumUnion ==
  ASSUME NEW A, NEW B, Counted(A), Counted(B), A \cap B = {}
  PROVE  SeatSum(A \cup B) = SeatSum(A) + SeatSum(B)
<1>1. IsFiniteSet(Units(A)) /\ IsFiniteSet(Units(B))
  BY SeatSumType
<1>2. Units(A \cup B) = Units(A) \cup Units(B)
  BY DEF Units
<1>3. Units(A) \cap Units(B) = {}
  BY DEF Units
<1>4. Cardinality({}) = 0
  BY FS_EmptySet
<1>5. SeatSum(A) \in Nat /\ SeatSum(B) \in Nat
  BY SeatSumType
<1>6. Cardinality(Units(A) \cup Units(B)) =
        Cardinality(Units(A)) + Cardinality(Units(B)) - Cardinality(Units(A) \cap Units(B))
  BY <1>1, FS_Union
<1>7. SeatSum(A \cup B) = SeatSum(A) + SeatSum(B) - 0
  BY <1>2, <1>3, <1>4, <1>6, Zenon DEF SeatSum
<1> QED BY <1>5, <1>7

\* Inserting a row adds its seats.
LEMMA SeatSumInsert ==
  ASSUME NEW A, NEW x, Counted(A), x.seats \in Nat, x \notin A
  PROVE  SeatSum(A \cup {x}) = SeatSum(A) + x.seats
<1>1. Counted({x})
  BY FS_Singleton DEF Counted
<1> QED BY <1>1, SeatSumUnion, SeatSumSingle

\* Deleting a row takes its seats away.
LEMMA SeatSumDelete ==
  ASSUME NEW A, NEW x, Counted(A), x \in A
  PROVE  SeatSum(A) = SeatSum(A \ {x}) + x.seats
<1>1. Counted(A \ {x})
  BY FS_RemoveElement DEF Counted
<1>2. x.seats \in Nat /\ A = (A \ {x}) \cup {x}
  BY DEF Counted
<1> QED BY <1>1, <1>2, SeatSumInsert

\* Promoting rows of pairwise different users of one event keeps their sum.
LEMMA SeatSumPromoted ==
  ASSUME NEW P, Counted(P), OneRowPerUser(P)
  PROVE  /\ Counted({AsBooking(w) : w \in P})
         /\ SeatSum({AsBooking(w) : w \in P}) = SeatSum(P)
<1> DEFINE B == {AsBooking(w) : w \in P}
           promote == [w \in P |-> AsBooking(w)]
           unit == [y \in Units(P) |-> <<AsBooking(y[1]), y[2]>>]
<1>1. \A w \in P : AsBooking(w).seats = w.seats
  BY DEF AsBooking
<1>2. promote \in Surjection(P, B)
  BY DEF Surjection
<1>3. Counted(B)
  BY <1>1, <1>2, FS_Surjection DEF Counted
<1>4. \A v, w \in P : AsBooking(v) = AsBooking(w) => v = w
  <2> SUFFICES ASSUME NEW v \in P, NEW w \in P, AsBooking(v) = AsBooking(w)
               PROVE  v = w
    OBVIOUS
  <2>1. v.event = w.event /\ v.user = w.user
    BY DEF AsBooking
  <2> QED BY <2>1 DEF OneRowPerUser
<1>5. unit \in Bijection(Units(P), Units(B))
  <2>1. \A y \in Units(P) : /\ y[1] \in P
                            /\ y[2] \in 1..y[1].seats
                            /\ y = <<y[1], y[2]>>
    BY DEF Units
  <2>2. \A w \in P : \A i \in 1..w.seats : <<w, i>> \in Units(P)
    BY DEF Units
  <2>3. \A b \in B : \A i \in 1..b.seats : <<b, i>> \in Units(B)
    BY DEF Units
  <2>4. unit \in [Units(P) -> Units(B)]
    BY <1>1, <2>1, <2>3
  <2>5. \A y, z \in Units(P) : unit[y] = unit[z] => y = z
    BY <1>4, <2>1
  <2>6. \A t \in Units(B) : \E y \in Units(P) : unit[y] = t
    <3> SUFFICES ASSUME NEW t \in Units(B)
                 PROVE  \E y \in Units(P) : unit[y] = t
      OBVIOUS
    <3>1. PICK b \in B : t \in {b} \X (1..b.seats)
      BY DEF Units
    <3>2. PICK w \in P : b = AsBooking(w)
      OBVIOUS
    <3>3. t = <<AsBooking(w), t[2]>> /\ t[2] \in 1..w.seats
      BY <1>1, <3>1, <3>2
    <3>4. <<w, t[2]>> \in Units(P)
      BY <2>2, <3>3
    <3>5. unit[<<w, t[2]>>] = t
      BY <3>3, <3>4
    <3> QED BY <3>4, <3>5
  <2> QED BY <2>4, <2>5, <2>6 DEF Bijection, Injection, IsInjective, Surjection
<1>6. ExistsBijection(Units(P), Units(B))
  BY <1>5 DEF ExistsBijection
<1> QED BY <1>3, <1>6, SeatSumType, FS_Bijection DEF SeatSum
-----------------------------------------------------------------------------

\* Nobody waits for an event that was never created, and tables are finite.
NobodyWaitsForNothing ==
  \A e \in Events : capacity[e] = 0 => RowsOf(waitlist, e) = {}

FiniteTables == IsFiniteSet(bookings) /\ IsFiniteSet(waitlist)

LedgerInv == /\ TypeOK
             /\ FiniteTables
             /\ SeatsConserved
             /\ OnePlacePerUser
             /\ QueueBlocked
             /\ NobodyWaitsForNothing

-----------------------------------------------------------------------------
\* A part of a table is a table whose seats can be added up.
LEMMA PartCounted ==
  ASSUME NEW rows, IsFiniteSet(rows), rows \subseteq Booking \/ rows \subseteq WaitlistEntry,
         NEW part \in SUBSET rows
  PROVE  Counted(part)
<1>1. IsFiniteSet(part)
  BY FS_Subset
<1>2. \A x \in part : x.seats \in Nat
  BY SeatAssumption DEF Booking, WaitlistEntry
<1> QED BY <1>1, <1>2 DEF Counted

\* A new entry that does not fit leaves a blocked queue blocked, wherever its
\* stamp places it.
LEMMA BlockedInsert ==
  ASSUME NEW queue \in SUBSET WaitlistEntry, NEW w \in WaitlistEntry, NEW free \in Nat,
         Blocked(queue, free), w.seats > free
  PROVE  Blocked(queue \cup {w}, free)
<1> USE SeatAssumption DEF WaitlistEntry
<1>1. CASE queue = {}
  BY <1>1 DEF Blocked, Oldest
<1>2. CASE queue # {}
  <2>1. PICK h \in Oldest(queue) : h.seats > free
    BY <1>2 DEF Blocked
  <2>2. CASE w.at < h.at
    <3>1. w \in Oldest(queue \cup {w})
      BY <2>1, <2>2 DEF Oldest
    <3> QED BY <3>1 DEF Blocked
  <2>3. CASE ~(w.at < h.at)
    <3>1. h \in Oldest(queue \cup {w})
      BY <2>1, <2>3 DEF Oldest
    <3> QED BY <2>1, <3>1 DEF Blocked
  <2> QED BY <2>2, <2>3
<1> QED BY <1>1, <1>2

\* Fewer free seats leave a blocked queue blocked.
LEMMA BlockedFewer ==
  ASSUME NEW queue \in SUBSET WaitlistEntry, NEW free \in Nat, NEW fewer \in Nat,
         fewer <= free, Blocked(queue, free)
  PROVE  Blocked(queue, fewer)
<1>1. CASE queue = {}
  BY <1>1 DEF Blocked
<1>2. CASE queue # {}
  <2>1. PICK h \in Oldest(queue) : h.seats > free
    BY <1>2 DEF Blocked
  <2>2. h.seats \in Nat
    BY SeatAssumption DEF Oldest, WaitlistEntry
  <2>3. h.seats > fewer
    BY <2>1, <2>2
  <2> QED BY <2>3 DEF Blocked
<1> QED BY <1>1, <1>2

-----------------------------------------------------------------------------
LEMMA LedgerInit == Init => LedgerInv
<1> SUFFICES ASSUME Init PROVE LedgerInv
  OBVIOUS
<1> USE DEF Init
<1>1. TypeOK
  BY DEF TypeOK
<1>2. FiniteTables
  BY FS_EmptySet DEF FiniteTables
<1>3. SeatsConserved
  <2>1. \A e \in Events : RowsOf(bookings, e) = {}
    BY DEF RowsOf
  <2> QED BY <2>1, SeatSumEmpty DEF SeatsConserved, Sold
<1>4. OnePlacePerUser
  BY DEF OnePlacePerUser, OneRowPerUser
<1>5. QueueBlocked /\ NobodyWaitsForNothing
  BY DEF QueueBlocked, NobodyWaitsForNothing, Blocked, RowsOf
<1> QED BY <1>1, <1>2, <1>3, <1>4, <1>5 DEF LedgerInv

\* Creating an event: all its seats are left and nobody waits for it.
LEMMA LedgerCreate ==
  ASSUME LedgerInv, NEW e \in Events, NEW n \in Capacities, Create(e, n)
  PROVE  LedgerInv'
<1> USE DEF LedgerInv, Create
<1>0. n \in Nat \ {0}
  BY SeatAssumption
<1>1. TypeOK'
  BY <1>0 DEF TypeOK
<1>2. FiniteTables' /\ OnePlacePerUser'
  BY DEF FiniteTables, OnePlacePerUser
<1>3. SeatsConserved'
  <2> SUFFICES ASSUME NEW d \in Events
               PROVE  seats'[d] + Sold(d)' = capacity'[d]
    BY DEF SeatsConserved
  <2>1. Sold(d)' = Sold(d)
    BY DEF Sold
  <2>2. seats[d] + Sold(d) = capacity[d] /\ Sold(d) \in Nat
    BY PartCounted, SeatSumType DEF SeatsConserved, Sold, RowsOf, TypeOK, FiniteTables
  <2> QED BY <1>0, <2>1, <2>2 DEF TypeOK
<1>4. QueueBlocked'
  BY DEF QueueBlocked, NobodyWaitsForNothing, Blocked, TypeOK
<1>5. NobodyWaitsForNothing'
  BY <1>0 DEF NobodyWaitsForNothing, TypeOK
<1> QED BY <1>1, <1>2, <1>3, <1>4, <1>5

\* Booking: what leaves the counter is what the new booking holds.
LEMMA LedgerBook ==
  ASSUME LedgerInv, NEW e \in Events, NEW u \in Users, NEW n \in Wants, Book(e, u, n)
  PROVE  LedgerInv'
<1> DEFINE b == [event |-> e, user |-> u, seats |-> n]
<1> USE DEF LedgerInv, Book
<1>0. n \in Nat \ {0} /\ b \in Booking /\ b \notin bookings
  BY SeatAssumption DEF Booking, Newcomer, RowsFor
<1>1. TypeOK'
  BY <1>0 DEF TypeOK
<1>2. FiniteTables'
  BY FS_AddElement DEF FiniteTables
<1>3. SeatsConserved'
  <2> SUFFICES ASSUME NEW d \in Events
               PROVE  seats'[d] + Sold(d)' = capacity'[d]
    BY DEF SeatsConserved
  <2>1. Counted(RowsOf(bookings, d))
    BY PartCounted DEF RowsOf, TypeOK, FiniteTables
  <2>2. seats[d] + Sold(d) = capacity[d] /\ Sold(d) \in Nat
    BY <2>1, SeatSumType DEF SeatsConserved, Sold
  <2>3. CASE d = e
    <3>1. RowsOf(bookings', d) = RowsOf(bookings, d) \cup {b} /\ b \notin RowsOf(bookings, d)
      BY <1>0, <2>3 DEF RowsOf
    <3>2. SeatSum(RowsOf(bookings, d) \cup {b}) = SeatSum(RowsOf(bookings, d)) + b.seats
      <4>1. b.seats \in Nat
        BY <1>0
      <4> HIDE DEF b
      <4> QED BY <2>1, <3>1, <4>1, SeatSumInsert
    <3>3. Sold(d)' = Sold(d) + n
      BY <3>1, <3>2 DEF Sold
    <3> QED BY <1>0, <2>2, <2>3, <3>3 DEF TypeOK
  <2>4. CASE d # e
    <3>1. RowsOf(bookings', d) = RowsOf(bookings, d)
      BY <2>4 DEF RowsOf
    <3> QED BY <2>2, <2>4, <3>1 DEF Sold, TypeOK
  <2> QED BY <2>3, <2>4
<1>4. OnePlacePerUser'
  BY <1>0 DEF OnePlacePerUser, OneRowPerUser, Newcomer, RowsFor
<1>5. QueueBlocked'
  <2> SUFFICES ASSUME NEW d \in Events
               PROVE  Blocked(RowsOf(waitlist, d), seats'[d])
    BY DEF QueueBlocked
  <2>1. RowsOf(waitlist, d) \subseteq WaitlistEntry /\ Blocked(RowsOf(waitlist, d), seats[d])
    BY DEF QueueBlocked, RowsOf, TypeOK
  <2>2. seats[d] \in Nat /\ seats'[d] \in Nat /\ seats'[d] <= seats[d]
    BY <1>0 DEF TypeOK
  <2> QED BY <2>1, <2>2, BlockedFewer
<1>6. NobodyWaitsForNothing'
  BY DEF NobodyWaitsForNothing
<1> QED BY <1>1, <1>2, <1>3, <1>4, <1>5, <1>6

\* Joining the queue: the counter and the bookings are as they were.
LEMMA LedgerEnqueue ==
  ASSUME LedgerInv, NEW e \in Events, NEW u \in Users, NEW n \in Wants, NEW at \in Stamps,
         Enqueue(e, u, n, at)
  PROVE  LedgerInv'
<1> DEFINE w == [event |-> e, user |-> u, seats |-> n, at |-> at]
<1> USE DEF LedgerInv, Enqueue
<1>0. w \in WaitlistEntry
  BY StampAssumption DEF WaitlistEntry
<1>1. TypeOK'
  BY <1>0 DEF TypeOK
<1>2. FiniteTables'
  BY FS_AddElement DEF FiniteTables
<1>3. SeatsConserved'
  BY DEF SeatsConserved, Sold
<1>4. OnePlacePerUser'
  BY DEF OnePlacePerUser, OneRowPerUser, Newcomer, RowsFor
<1>5. QueueBlocked'
  <2> SUFFICES ASSUME NEW d \in Events
               PROVE  Blocked(RowsOf(waitlist', d), seats[d])
    BY DEF QueueBlocked
  <2>1. RowsOf(waitlist, d) \subseteq WaitlistEntry /\ Blocked(RowsOf(waitlist, d), seats[d])
        /\ seats[d] \in Nat
    BY DEF QueueBlocked, RowsOf, TypeOK
  <2>2. CASE d = e
    <3>1. RowsOf(waitlist', d) = RowsOf(waitlist, d) \cup {w}
      BY <2>2 DEF RowsOf
    <3>2. w.seats > seats[d]
      BY <2>2
    <3> HIDE DEF w
    <3> QED BY <1>0, <2>1, <3>1, <3>2, BlockedInsert
  <2>3. CASE d # e
    <3>1. RowsOf(waitlist', d) = RowsOf(waitlist, d)
      BY <2>3 DEF RowsOf
    <3> QED BY <2>1, <3>1
  <2> QED BY <2>2, <2>3
<1>6. NobodyWaitsForNothing'
  BY DEF NobodyWaitsForNothing, RowsOf, TypeOK
<1> QED BY <1>1, <1>2, <1>3, <1>4, <1>5, <1>6

\* Cancelling: the freed seats are split between the promoted and the counter.
LEMMA LedgerCancel ==
  ASSUME LedgerInv, NEW e \in Events, NEW b \in RowsOf(bookings, e),
         NEW promoted \in SUBSET RowsOf(waitlist, e), Cancel(e, b, promoted)
  PROVE  LedgerInv'
<1> DEFINE made == {AsBooking(w) : w \in promoted}
           free == seats[e] + b.seats - SeatSum(promoted)
<1> USE DEF LedgerInv
<1>c. /\ free >= 0
      /\ Blocked(RowsOf(waitlist, e) \ promoted, free)
      /\ bookings' = (bookings \ {b}) \cup made
      /\ waitlist' = waitlist \ promoted
      /\ seats' = [seats EXCEPT ![e] = free]
      /\ capacity' = capacity
  BY DEF Cancel
<1>p. Counted(promoted) /\ SeatSum(promoted) \in Nat /\ OneRowPerUser(promoted)
  <2>1. promoted \subseteq waitlist
    BY DEF RowsOf
  <2>2. Counted(promoted)
    BY <2>1, PartCounted DEF TypeOK, FiniteTables
  <2> QED BY <2>1, <2>2, SeatSumType DEF OnePlacePerUser, OneRowPerUser
<1>m. Counted(made) /\ SeatSum(made) = SeatSum(promoted)
  BY <1>p, SeatSumPromoted
<1>b. b \in bookings /\ b.event = e /\ b.seats \in Nat
  BY SeatAssumption DEF RowsOf, TypeOK, Booking
<1>n. \A x \in made : /\ x \in Booking /\ x.event = e
                      /\ \E w \in promoted : w.user = x.user /\ w.seats = x.seats
  BY DEF AsBooking, RowsOf, TypeOK, WaitlistEntry, Booking
<1>f. free \in Nat
  BY <1>b, <1>c, <1>p DEF TypeOK
<1> HIDE DEF made, free
<1>1. TypeOK'
  BY <1>c, <1>f, <1>n DEF TypeOK
<1>2. FiniteTables'
  <2>1. IsFiniteSet(bookings \ {b}) /\ IsFiniteSet(made)
    BY <1>m, FS_RemoveElement DEF FiniteTables, Counted
  <2>2. IsFiniteSet(bookings')
    BY <1>c, <2>1, FS_Union
  <2> QED BY <1>c, <2>2, FS_Difference DEF FiniteTables
<1>3. SeatsConserved'
  <2> SUFFICES ASSUME NEW d \in Events
               PROVE  seats'[d] + Sold(d)' = capacity'[d]
    BY DEF SeatsConserved
  <2>1. Counted(RowsOf(bookings, d))
    BY PartCounted DEF RowsOf, TypeOK, FiniteTables
  <2>2. seats[d] + Sold(d) = capacity[d] /\ Sold(d) \in Nat
    BY <2>1, SeatSumType DEF SeatsConserved, Sold
  <2>3. CASE d = e
    <3> DEFINE kept == RowsOf(bookings, d) \ {b}
    <3>1. RowsOf(bookings', d) = kept \cup made
      BY <1>c, <1>n, <2>3 DEF RowsOf
    <3>2. kept \cap made = {}
      <4> SUFFICES ASSUME NEW x \in kept, x \in made
                   PROVE  FALSE
        OBVIOUS
      <4>1. PICK w \in promoted : w.user = x.user
        BY <1>n
      <4>2. w \in RowsFor(waitlist, x.event, x.user)
        BY <4>1, <2>3 DEF RowsFor, RowsOf
      <4> QED BY <4>2 DEF OnePlacePerUser, RowsOf
    <3>3. Counted(kept)
      BY <2>1, FS_RemoveElement DEF Counted
    <3>4. Sold(d) = SeatSum(kept) + b.seats
      BY <1>b, <2>1, <2>3, SeatSumDelete DEF Sold
    <3>5. Sold(d)' = SeatSum(kept) + SeatSum(made)
      BY <1>m, <3>1, <3>2, <3>3, SeatSumUnion DEF Sold
    <3>6. SeatSum(kept) \in Nat
      BY <3>3, SeatSumType
    <3>7. seats'[d] = seats[d] + b.seats - SeatSum(promoted)
      BY <1>c, <2>3 DEF free, TypeOK
    <3> HIDE DEF kept
    <3> QED BY <1>b, <1>c, <1>m, <1>p, <2>2, <3>4, <3>5, <3>6, <3>7 DEF TypeOK
  <2>4. CASE d # e
    <3>1. RowsOf(bookings', d) = RowsOf(bookings, d)
      BY <1>b, <1>c, <1>n, <2>4 DEF RowsOf
    <3> QED BY <1>c, <2>2, <2>4, <3>1 DEF Sold, TypeOK
  <2> QED BY <2>3, <2>4
<1>4. OnePlacePerUser'
  <2>1. OneRowPerUser(waitlist')
    BY <1>c DEF OnePlacePerUser, OneRowPerUser
  <2>2. \A x \in made, y \in bookings : ~(x.event = y.event /\ x.user = y.user)
    <3> SUFFICES ASSUME NEW x \in made, NEW y \in bookings, x.event = y.event, x.user = y.user
                 PROVE  FALSE
      OBVIOUS
    <3>1. PICK w \in promoted : w.user = x.user
      BY <1>n
    <3>2. w \in RowsFor(waitlist, y.event, y.user)
      BY <1>n, <3>1 DEF RowsFor, RowsOf
    <3> QED BY <3>2 DEF OnePlacePerUser
  <2>3. OneRowPerUser(made)
    BY <1>p DEF made, OneRowPerUser, AsBooking
  <2>4. OneRowPerUser(bookings')
    BY <1>c, <2>2, <2>3 DEF OnePlacePerUser, OneRowPerUser
  <2>5. ASSUME NEW x \in made
        PROVE  RowsFor(waitlist', x.event, x.user) = {}
    <3>1. PICK w \in promoted : w.user = x.user /\ w.event = x.event
      BY <1>n DEF RowsOf
    <3> QED BY <1>c, <3>1 DEF OnePlacePerUser, OneRowPerUser, RowsFor, RowsOf
  <2>6. \A x \in bookings : RowsFor(waitlist', x.event, x.user) = {}
    BY <1>c DEF OnePlacePerUser, RowsFor
  <2> QED BY <1>c, <2>1, <2>4, <2>5, <2>6 DEF OnePlacePerUser
<1>5. QueueBlocked'
  <2> SUFFICES ASSUME NEW d \in Events
               PROVE  Blocked(RowsOf(waitlist', d), seats'[d])
    BY DEF QueueBlocked
  <2>1. CASE d = e
    <3>1. RowsOf(waitlist', d) = RowsOf(waitlist, e) \ promoted
      BY <1>c, <2>1 DEF RowsOf
    <3>2. seats'[d] = free
      BY <1>c, <2>1 DEF TypeOK
    <3> QED BY <1>c, <3>1, <3>2
  <2>2. CASE d # e
    <3>1. RowsOf(waitlist', d) = RowsOf(waitlist, d) /\ seats'[d] = seats[d]
      BY <1>c, <2>2 DEF RowsOf, TypeOK
    <3> QED BY <3>1 DEF QueueBlocked
  <2> QED BY <2>1, <2>2
<1>6. NobodyWaitsForNothing'
  BY <1>c DEF NobodyWaitsForNothing, RowsOf
<1> QED BY <1>1, <1>2, <1>3, <1>4, <1>5, <1>6

\* The invariant survives every step of the ledger.
LEMMA LedgerNext == LedgerInv /\ [Next]_vars => LedgerInv'
<1> SUFFICES ASSUME LedgerInv, [Next]_vars PROVE LedgerInv'
  OBVIOUS
<1>1. CASE UNCHANGED vars
  BY <1>1 DEF vars, LedgerInv, TypeOK, FiniteTables, SeatsConserved, Sold, OnePlacePerUser,
     QueueBlocked, NobodyWaitsForNothing
<1>2. CASE Next
  <2>1. PICK e \in Events :
          \/ \E n \in Capacities : Create(e, n)
          \/ \E u \in Users, n \in Wants : Book(e, u, n)
          \/ \E u \in Users, n \in Wants, at \in Stamps : Enqueue(e, u, n, at)
          \/ \E b \in RowsOf(bookings, e), promoted \in SUBSET RowsOf(waitlist, e) :
               Cancel(e, b, promoted)
    BY <1>2 DEF Next
  <2> QED BY <2>1, LedgerCreate, LedgerBook, LedgerEnqueue, LedgerCancel
<1> QED BY <1>1, <1>2

\* The ledger's invariant holds in every reachable state.
THEOREM LedgerInvariant == Spec => []LedgerInv
BY LedgerInit, LedgerNext, PTL DEF Spec

\* No seat is sold twice and none is lost, whatever is booked and cancelled.
THEOREM LedgerConservesSeats == Spec => []SeatsConserved
<1>1. LedgerInv => SeatsConserved
  BY DEF LedgerInv
<1> QED BY <1>1, LedgerInvariant, PTL

\* A user has one place per event, a booking or a waitlist entry.
THEOREM LedgerOnePlace == Spec => []OnePlacePerUser
<1>1. LedgerInv => OnePlacePerUser
  BY DEF LedgerInv
<1> QED BY <1>1, LedgerInvariant, PTL

\* No seat stays free that the head of the queue could take.
THEOREM LedgerQueueBlocked == Spec => []QueueBlocked
<1>1. LedgerInv => QueueBlocked
  BY DEF LedgerInv
<1> QED BY <1>1, LedgerInvariant, PTL

\* Whoever leaves the queue has a booking of as many seats, and a step gives up
\* one booking at most: nobody loses a place but by their own cancellation.
DropsNobody ==
  /\ \A w \in waitlist : w \in waitlist' \/ AsBooking(w) \in bookings'
  /\ \A a, b \in bookings : a \in bookings' \/ b \in bookings' \/ a = b

LEMMA LedgerDropStep == [Next]_vars => [DropsNobody]_vars
<1> SUFFICES ASSUME Next PROVE DropsNobody
  BY DEF vars
<1>1. ASSUME waitlist \subseteq waitlist', bookings \subseteq bookings' PROVE DropsNobody
  BY <1>1 DEF DropsNobody
<1>2. ASSUME NEW e \in Events, NEW b \in RowsOf(bookings, e),
             NEW promoted \in SUBSET RowsOf(waitlist, e), Cancel(e, b, promoted)
      PROVE  DropsNobody
  BY <1>2 DEF Cancel, DropsNobody
<1> QED BY <1>1, <1>2 DEF Next, Create, Book, Enqueue

\* Nobody is dropped from the queue or from the bookings by what others do.
THEOREM LedgerDropsNobody == Spec => [][DropsNobody]_vars
BY LedgerDropStep, PTL DEF Spec
-----------------------------------------------------------------------------
(***************************************************************************)
(* The store in the memory of one process.  Its loop is a recursive        *)
(* function, so its rounds are first shown to exist; what they keep        *)
(* (LoopInv) is shown round by round, by way of a least round that does    *)
(* not keep it.  What the last round ends with is then a cancellation of   *)
(* the ledger.                                                             *)
(***************************************************************************)

\* A set of numbers that is not empty has a least one.
LEMMA LeastNatural ==
  ASSUME NEW S \in SUBSET Nat, S # {}
  PROVE  \E m \in S : \A n \in S : m <= n
<1>1. PICK m \in S : \A n \in S : <<n, m>> \notin OpToRel(<, Nat)
  BY NatLessThanWellFounded, WFMin, Zenon
<1>2. \A n \in S : ~(n < m)
  BY <1>1 DEF OpToRel
<1>3. \A n \in S : m <= n
  BY <1>2
<1> QED BY <1>3

\* Somebody in a queue has waited longest.
LEMMA OldestExists ==
  ASSUME NEW queue \in SUBSET WaitlistEntry, queue # {}
  PROVE  Oldest(queue) # {}
<1> DEFINE stamps == {w.at : w \in queue}
<1>1. stamps \in SUBSET Nat /\ stamps # {}
  BY DEF WaitlistEntry
<1>2. PICK m \in stamps : \A n \in stamps : m <= n
  <2> HIDE DEF stamps
  <2> QED BY <1>1, LeastNatural
<1>3. PICK w \in queue : w.at = m
  OBVIOUS
<1>4. w \in Oldest(queue)
  BY <1>2, <1>3 DEF Oldest
<1> QED BY <1>4

\* The states CancelBooking's loop can be in after k rounds, as Results has them.
IsRounds(g, e, available, last) ==
  g = [k \in 0..last |-> IF k = 0 THEN {Loop(available, {}, FALSE)}
                                  ELSE UNION {Round(e, s) : s \in g[k - 1]}]

\* There is such a function, for any number of rounds.
LEMMA RoundsExist ==
  ASSUME NEW e, NEW available, NEW last \in Nat
  PROVE  \E g : IsRounds(g, e, available, last)
<1> DEFINE start == {Loop(available, {}, FALSE)}
           after(S) == UNION {Round(e, s) : s \in S}
           upTo(n) == \E g : g = [k \in 0..n |-> IF k = 0 THEN start ELSE after(g[k - 1])]
           missing == {n \in 0..last : ~upTo(n)}
<1>1. upTo(0)
  <2> DEFINE g == [k \in {0} |-> start]
  <2>1. g = [k \in 0..0 |-> IF k = 0 THEN start ELSE after(g[k - 1])]
    OBVIOUS
  <2> QED BY <2>1
<1>2. ASSUME NEW n \in Nat, upTo(n)
      PROVE  upTo(n + 1)
  <2>1. PICK g : g = [k \in 0..n |-> IF k = 0 THEN start ELSE after(g[k - 1])]
    BY <1>2
  <2> DEFINE h == [k \in 0..(n + 1) |-> IF k = n + 1 THEN after(g[n]) ELSE g[k]]
  <2> HIDE DEF start, after
  <2>2. \A k \in 0..n : g[k] = IF k = 0 THEN start ELSE after(g[k - 1])
    BY <2>1
  <2>3. ASSUME NEW k \in 0..(n + 1)
        PROVE  h[k] = IF k = 0 THEN start ELSE after(h[k - 1])
    <3>1. CASE k = 0
      BY <2>2, <3>1
    <3>2. CASE k \in 1..n
      <4>1. h[k] = g[k] /\ h[k - 1] = g[k - 1]
        BY <3>2
      <4> QED BY <2>2, <3>2, <4>1
    <3>3. CASE k = n + 1
      <4>1. h[k - 1] = g[n]
        BY <3>3
      <4> QED BY <3>3, <4>1
    <3> QED BY <3>1, <3>2, <3>3
  <2>4. h = [k \in 0..(n + 1) |-> IF k = 0 THEN start ELSE after(h[k - 1])]
    BY <2>3
  <2> QED BY <2>4
<1> HIDE DEF upTo
<1>3. missing = {}
  <2> SUFFICES ASSUME missing # {} PROVE FALSE
    OBVIOUS
  <2>1. PICK m \in missing : \A n \in missing : m <= n
    <3>1. missing \in SUBSET Nat
      OBVIOUS
    <3> HIDE DEF missing
    <3> QED BY <3>1, LeastNatural
  <2>2. m # 0
    BY <1>1, <2>1
  <2>3. m - 1 \in Nat /\ m - 1 \in 0..last /\ m - 1 \notin missing
    BY <2>1, <2>2
  <2>4. upTo(m - 1)
    BY <2>3
  <2>5. upTo((m - 1) + 1)
    BY <1>2, <2>3, <2>4
  <2> QED BY <2>1, <2>5
<1>4. upTo(last)
  BY <1>3
<1> QED BY <1>4 DEF upTo, IsRounds

\* So Results is what the last round of such a function leaves.
LEMMA ResultsAreLastRound ==
  ASSUME NEW e, NEW available, IsFiniteSet(RowsOf(waitlist, e))
  PROVE  \E g : /\ IsRounds(g, e, available, Cardinality(RowsOf(waitlist, e)) + 1)
                /\ Results(e, available) = g[Cardinality(RowsOf(waitlist, e)) + 1]
<1> DEFINE last == Cardinality(RowsOf(waitlist, e)) + 1
<1>1. last \in Nat
  BY FS_CardinalityType
<1>2. \E g : IsRounds(g, e, available, last)
  BY <1>1, RoundsExist
<1>3. Results(e, available) = (CHOOSE g : IsRounds(g, e, available, last))[last]
  BY DEF Results, IsRounds
<1> HIDE DEF last
<1>4. IsRounds(CHOOSE g : IsRounds(g, e, available, last), e, available, last)
  BY <1>2
<1> QED BY <1>3, <1>4 DEF last

\* What the loop keeps: a first part of the queue is promoted with seats that
\* were available, one entry per round until it is over, and it is over when
\* nobody left can be served.
LoopInv(e, available, k, s) ==
  LET queue == RowsOf(waitlist, e)
  IN  /\ s \in [left : Nat, promoted : SUBSET queue, over : BOOLEAN]
      /\ s.left + SeatSum(s.promoted) = available
      /\ InOrder(s.promoted, queue \ s.promoted)
      /\ ~s.over => Cardinality(s.promoted) = k
      /\ s.over => Blocked(queue \ s.promoted, s.left)

\* One round keeps it and leaves at least one state.
LEMMA RoundKeepsLoopInv ==
  ASSUME TypeOK, FiniteTables, NEW e \in Events, NEW available \in Nat, NEW k \in Nat,
         NEW s, LoopInv(e, available, k, s)
  PROVE  Round(e, s) # {} /\ \A t \in Round(e, s) : LoopInv(e, available, k + 1, t)
<1> DEFINE queue == RowsOf(waitlist, e)
           rest == queue \ s.promoted
<1>1. /\ s \in [left : Nat, promoted : SUBSET queue, over : BOOLEAN]
      /\ s.left + SeatSum(s.promoted) = available
      /\ InOrder(s.promoted, rest)
      /\ ~s.over => Cardinality(s.promoted) = k
      /\ s.over => Blocked(rest, s.left)
  BY DEF LoopInv
<1>2. queue \in SUBSET WaitlistEntry /\ IsFiniteSet(queue)
  <2>1. queue \subseteq waitlist
    BY DEF RowsOf
  <2> QED BY <2>1, FS_Subset DEF TypeOK, FiniteTables
<1>3. \A w \in queue : w.seats \in Nat \ {0} /\ w.at \in Nat
  BY <1>2, SeatAssumption DEF WaitlistEntry
<1>4. rest # {} => Oldest(rest) # {}
  <2> HIDE DEF rest
  <2>1. rest \in SUBSET WaitlistEntry
    BY <1>2 DEF rest
  <2> QED BY <2>1, OldestExists
<1>5. CASE s.over \/ s.left = 0 \/ rest = {}
  <2>1. Round(e, s) = {[s EXCEPT !.over = TRUE]}
    BY <1>5 DEF Round
  <2>2. Blocked(rest, s.left)
    <3>1. CASE s.over
      BY <1>1, <3>1
    <3>2. CASE rest = {}
      BY <3>2 DEF Blocked
    <3>3. CASE s.left = 0 /\ rest # {}
      <4>1. PICK w \in Oldest(rest) : TRUE
        BY <1>4, <3>3
      <4>2. w.seats > s.left
        BY <1>3, <3>3, <4>1 DEF Oldest
      <4> QED BY <4>1, <4>2 DEF Blocked
    <3> QED BY <1>5, <3>1, <3>2, <3>3
  <2> DEFINE t == [s EXCEPT !.over = TRUE]
  <2>3. /\ t \in [left : Nat, promoted : SUBSET queue, over : BOOLEAN]
        /\ t.left = s.left /\ t.promoted = s.promoted /\ t.over = TRUE
    BY <1>1
  <2> HIDE DEF t
  <2>4. LoopInv(e, available, k + 1, t)
    BY <1>1, <2>2, <2>3 DEF LoopInv
  <2> QED BY <2>1, <2>4 DEF t
<1>6. CASE ~s.over /\ s.left # 0 /\ rest # {}
  <2>1. Round(e, s) = {IF Fits(w, s.left)
                       THEN Loop(s.left - w.seats, s.promoted \cup {w}, FALSE)
                       ELSE [s EXCEPT !.over = TRUE] : w \in Oldest(rest)}
    BY <1>6 DEF Round, FirstOf
  <2>2. Round(e, s) # {}
    BY <1>4, <1>6, <2>1
  <2>3. ASSUME NEW t \in Round(e, s)
        PROVE  LoopInv(e, available, k + 1, t)
    <3>1. PICK w \in Oldest(rest) :
            t = IF Fits(w, s.left) THEN Loop(s.left - w.seats, s.promoted \cup {w}, FALSE)
                                   ELSE [s EXCEPT !.over = TRUE]
      BY <2>1
    <3>2. /\ w \in queue /\ w \notin s.promoted /\ w.seats \in Nat \ {0}
          /\ \A v \in rest : w.at <= v.at
      BY <1>3, <3>1 DEF Oldest
    <3>3. CASE Fits(w, s.left)
      <4>1. /\ t \in [left : Nat, promoted : SUBSET queue, over : BOOLEAN]
            /\ t.left = s.left - w.seats /\ t.promoted = s.promoted \cup {w} /\ t.over = FALSE
        BY <1>1, <3>1, <3>2, <3>3 DEF Loop, Fits
      <4>2. Counted(s.promoted)
        BY <1>1, <1>2, PartCounted
      <4>3. SeatSum(t.promoted) = SeatSum(s.promoted) + w.seats /\ SeatSum(s.promoted) \in Nat
        BY <3>2, <4>1, <4>2, SeatSumInsert, SeatSumType
      <4>4. t.left + SeatSum(t.promoted) = available
        BY <1>1, <3>2, <4>1, <4>3
      <4>5. InOrder(t.promoted, queue \ t.promoted)
        BY <1>1, <3>2, <4>1 DEF InOrder
      <4>6. Cardinality(t.promoted) = k + 1
        <5>1. IsFiniteSet(s.promoted) /\ Cardinality(s.promoted) = k
          BY <1>1, <1>6, <4>2 DEF Counted
        <5>2. Cardinality(s.promoted \cup {w}) = Cardinality(s.promoted) + 1
          BY <3>2, <5>1, FS_AddElement
        <5> QED BY <4>1, <5>1, <5>2
      <4> HIDE DEF queue
      <4> QED BY <4>1, <4>4, <4>5, <4>6 DEF LoopInv, queue
    <3>4. CASE ~Fits(w, s.left)
      <4>1. /\ t \in [left : Nat, promoted : SUBSET queue, over : BOOLEAN]
            /\ t.left = s.left /\ t.promoted = s.promoted /\ t.over = TRUE
        BY <1>1, <3>1, <3>4
      <4>2. Blocked(rest, s.left)
        BY <1>1, <3>1, <3>2, <3>4 DEF Blocked, Fits
      <4> QED BY <1>1, <4>1, <4>2 DEF LoopInv
    <3> QED BY <3>3, <3>4
  <2> QED BY <2>2, <2>3
<1> QED BY <1>5, <1>6

\* Cancelling always has a result, and in every result a first part of the
\* queue is promoted, what is left is counted and nobody left can be served.
LEMMA ResultsKeepPromise ==
  ASSUME TypeOK, FiniteTables, NEW e \in Events, NEW available \in Nat
  PROVE  /\ Results(e, available) # {}
         /\ \A s \in Results(e, available) :
              /\ s.promoted \in SUBSET RowsOf(waitlist, e)
              /\ s.left \in Nat
              /\ s.left = available - SeatSum(s.promoted)
              /\ InOrder(s.promoted, RowsOf(waitlist, e) \ s.promoted)
              /\ Blocked(RowsOf(waitlist, e) \ s.promoted, s.left)
<1> DEFINE queue == RowsOf(waitlist, e)
           last == Cardinality(queue) + 1
<1>1. queue \in SUBSET WaitlistEntry /\ IsFiniteSet(queue)
  <2>1. queue \subseteq waitlist
    BY DEF RowsOf
  <2> QED BY <2>1, FS_Subset DEF TypeOK, FiniteTables
<1>2. Cardinality(queue) \in Nat /\ last \in Nat
  BY <1>1, FS_CardinalityType
<1>3. PICK g : IsRounds(g, e, available, last) /\ Results(e, available) = g[last]
  BY <1>1, ResultsAreLastRound
<1>4. \A k \in 0..last : g[k] = IF k = 0 THEN {Loop(available, {}, FALSE)}
                                         ELSE UNION {Round(e, s) : s \in g[k - 1]}
  <2> HIDE DEF last
  <2> QED BY <1>3 DEF IsRounds
<1> DEFINE kept(k) == g[k] # {} /\ \A s \in g[k] : LoopInv(e, available, k, s)
           broken == {k \in 0..last : ~kept(k)}
<1> HIDE DEF last
<1>5. kept(0)
  <2> DEFINE s == Loop(available, {}, FALSE)
  <2>1. g[0] = {s}
    <3>1. 0 \in 0..last
      BY <1>2
    <3> QED BY <1>4, <3>1, Zenon
  <2>2. /\ s \in [left : Nat, promoted : SUBSET queue, over : BOOLEAN]
        /\ s.left = available /\ s.promoted = {} /\ s.over = FALSE
    BY DEF Loop
  <2>3. SeatSum({}) = 0 /\ Cardinality({}) = 0
    BY SeatSumEmpty, FS_EmptySet
  <2> HIDE DEF s
  <2>4. InOrder(s.promoted, queue \ s.promoted)
    BY <2>2 DEF InOrder
  <2>5. LoopInv(e, available, 0, s)
    BY <2>2, <2>3, <2>4 DEF LoopInv
  <2> QED BY <2>1, <2>5
<1>6. ASSUME NEW k \in 1..last, kept(k - 1)
      PROVE  kept(k)
  <2>1. k - 1 \in Nat /\ k \in 0..last /\ k # 0 /\ (k - 1) + 1 = k
    BY <1>2
  <2>2. g[k] = UNION {Round(e, s) : s \in g[k - 1]}
    BY <1>4, <2>1
  <2>3. \A s \in g[k - 1] : Round(e, s) # {} /\ \A t \in Round(e, s) : LoopInv(e, available, k, t)
    BY <1>6, <2>1, RoundKeepsLoopInv
  <2> QED BY <1>6, <2>2, <2>3
<1>7. kept(last)
  <2> HIDE DEF kept
  <2>1. broken = {}
    <3> SUFFICES ASSUME broken # {} PROVE FALSE
      OBVIOUS
    <3>1. PICK m \in broken : \A n \in broken : m <= n
      <4>1. broken \in SUBSET Nat
        BY <1>2
      <4> HIDE DEF broken
      <4> QED BY <4>1, LeastNatural
    <3>2. m # 0
      BY <1>5, <3>1
    <3>3. m \in 1..last /\ m - 1 \in 0..last /\ m - 1 \notin broken
      BY <1>2, <3>1, <3>2
    <3>4. kept(m - 1)
      BY <3>3
    <3>5. kept(m)
      BY <1>6, <3>3, <3>4
    <3> QED BY <3>1, <3>5
  <2> QED BY <1>2, <2>1
<1>8. ASSUME NEW s \in Results(e, available)
      PROVE  /\ s.promoted \in SUBSET queue
             /\ s.left \in Nat
             /\ s.left = available - SeatSum(s.promoted)
             /\ InOrder(s.promoted, queue \ s.promoted)
             /\ Blocked(queue \ s.promoted, s.left)
  <2>1. LoopInv(e, available, last, s)
    BY <1>3, <1>7, <1>8
  <2>2. /\ s.promoted \in SUBSET queue /\ s.left \in Nat
        /\ s.left + SeatSum(s.promoted) = available
        /\ InOrder(s.promoted, queue \ s.promoted)
        /\ ~s.over => Cardinality(s.promoted) = last
        /\ s.over => Blocked(queue \ s.promoted, s.left)
    BY <2>1 DEF LoopInv
  <2>3. Cardinality(s.promoted) <= Cardinality(queue) /\ Cardinality(s.promoted) \in Nat
    BY <1>1, <2>2, FS_Subset, FS_CardinalityType
  <2>4. s.over
    BY <1>2, <2>2, <2>3 DEF last
  <2>5. SeatSum(s.promoted) \in Nat
    BY <1>1, <2>2, PartCounted, SeatSumType
  <2> QED BY <2>2, <2>4, <2>5
<1> QED BY <1>3, <1>7, <1>8
-----------------------------------------------------------------------------
\* Whoever waits joined at a time the clock has already shown.
WaitingSinceThePast == \A w \in waitlist : w.at <= clock

MemInv == LedgerInv /\ clock \in Stamps /\ WaitingSinceThePast

\* What a cancellation of the store does is a cancellation of the ledger.
LEMMA MemCancelImplementsCancel ==
  ASSUME LedgerInv, NEW e \in Events, NEW u \in Users, MemCancel(e, u)
  PROVE  \E b \in RowsOf(bookings, e), promoted \in SUBSET RowsOf(waitlist, e) :
           Cancel(e, b, promoted)
<1>0. PICK b \in RowsFor(bookings, e, u) :
        \E s \in Results(e, seats[e] + b.seats) :
          /\ bookings' = (bookings \ {b}) \cup {AsBooking(w) : w \in s.promoted}
          /\ waitlist' = waitlist \ s.promoted
          /\ seats' = [seats EXCEPT ![e] = s.left]
          /\ UNCHANGED <<capacity, clock>>
  BY DEF MemCancel
<1>1. PICK s \in Results(e, seats[e] + b.seats) :
        /\ bookings' = (bookings \ {b}) \cup {AsBooking(w) : w \in s.promoted}
        /\ waitlist' = waitlist \ s.promoted
        /\ seats' = [seats EXCEPT ![e] = s.left]
        /\ UNCHANGED <<capacity, clock>>
  BY <1>0
<1>2. b \in RowsOf(bookings, e) /\ b.seats \in Nat /\ seats[e] \in Nat
  BY SeatAssumption DEF RowsFor, RowsOf, LedgerInv, TypeOK, Booking
<1>3. PICK available \in Nat : available = seats[e] + b.seats
  BY <1>2
<1>4. /\ s.promoted \in SUBSET RowsOf(waitlist, e)
      /\ s.left \in Nat
      /\ s.left = available - SeatSum(s.promoted)
      /\ InOrder(s.promoted, RowsOf(waitlist, e) \ s.promoted)
      /\ Blocked(RowsOf(waitlist, e) \ s.promoted, s.left)
  <2>1. TypeOK /\ FiniteTables
    BY DEF LedgerInv
  <2>2. s \in Results(e, available)
    BY <1>1, <1>3
  <2> QED BY <2>1, <2>2, ResultsKeepPromise, Zenon
<1>5. Cancel(e, b, s.promoted)
  <2>1. SeatSum(s.promoted) \in Nat
    <3>1. s.promoted \subseteq waitlist
      BY <1>4 DEF RowsOf
    <3> QED BY <3>1, PartCounted, SeatSumType DEF LedgerInv, TypeOK, FiniteTables
  <2>2. s.left = seats[e] + b.seats - SeatSum(s.promoted)
    BY <1>2, <1>3, <1>4, <2>1
  <2>3. seats[e] + b.seats - SeatSum(s.promoted) >= 0
    BY <1>4, <2>2
  <2> QED BY <1>1, <1>4, <2>2, <2>3, Zenon DEF Cancel
<1> QED BY <1>2, <1>4, <1>5

\* What a booking does is nothing, a booking or an entry of the ledger.
LEMMA MemBookImplementsBook ==
  ASSUME MemInv, NEW e \in Events, NEW u \in Users, NEW n \in Wants, MemBook(e, u, n)
  PROVE  \/ UNCHANGED memVars
         \/ Book(e, u, n) /\ clock' = clock
         \/ \E at \in Stamps : clock <= at /\ clock' = at /\ Enqueue(e, u, n, at)
<1>1. capacity[e] > 0
  BY DEF MemBook
<1>2. CASE HasPlace(e, u) /\ UNCHANGED memVars
  BY <1>2
<1>3. CASE ~HasPlace(e, u) /\ n > seats[e] /\ Join(e, u, n)
  <2>1. Newcomer(e, u)
    BY <1>3 DEF HasPlace, Newcomer
  <2>2. PICK now \in Now :
          /\ waitlist' = waitlist \cup {[event |-> e, user |-> u, seats |-> n, at |-> now]}
          /\ clock' = now
          /\ UNCHANGED <<capacity, seats, bookings>>
    BY <1>3 DEF Join
  <2>3. now \in Stamps /\ now \in Nat /\ clock \in Nat /\ clock <= now
    BY StampAssumption DEF Now, MemInv
  <2>4. Enqueue(e, u, n, now)
    BY <1>1, <1>3, <2>1, <2>2 DEF Enqueue
  <2> QED BY <2>2, <2>3, <2>4
<1>4. CASE ~HasPlace(e, u) /\ n <= seats[e] /\ TakeSeats(e, u, n)
  <2>1. Book(e, u, n)
    BY <1>1, <1>4 DEF HasPlace, Newcomer, TakeSeats, Book
  <2> QED BY <1>4, <2>1 DEF TakeSeats
<1> QED BY <1>2, <1>3, <1>4 DEF MemBook

\* Every step of the store is a step of the ledger or leaves its tables alone.
LEMMA MemStep ==
  ASSUME MemInv, [MemNext]_memVars
  PROVE  [Next]_vars
<1>1. CASE UNCHANGED memVars
  BY <1>1 DEF memVars, vars
<1>2. ASSUME NEW e \in Events, NEW n \in Capacities, MemCreate(e, n)
      PROVE  Next
  BY <1>2 DEF MemCreate, Next
<1>3. ASSUME NEW e \in Events, NEW u \in Users, NEW n \in Wants, MemBook(e, u, n)
      PROVE  [Next]_vars
  <2>1. CASE UNCHANGED memVars
    BY <2>1 DEF memVars, vars
  <2>2. CASE Book(e, u, n)
    BY <2>2 DEF Next
  <2>3. CASE \E at \in Stamps : Enqueue(e, u, n, at)
    BY <2>3 DEF Next
  <2> QED BY <1>3, <2>1, <2>2, <2>3, MemBookImplementsBook
<1>4. ASSUME NEW e \in Events, NEW u \in Users, MemCancel(e, u)
      PROVE  Next
  BY <1>4, MemCancelImplementsCancel DEF MemInv, Next
<1> QED BY <1>1, <1>2, <1>3, <1>4 DEF MemNext

LEMMA MemInvInit == MemInit => MemInv
<1> SUFFICES ASSUME MemInit PROVE MemInv
  OBVIOUS
<1>1. LedgerInv
  BY LedgerInit DEF MemInit
<1>2. clock \in Stamps /\ WaitingSinceThePast
  BY DEF MemInit, Init, WaitingSinceThePast
<1> QED BY <1>1, <1>2 DEF MemInv

LEMMA MemInvNext == MemInv /\ [MemNext]_memVars => MemInv'
<1> SUFFICES ASSUME MemInv, [MemNext]_memVars PROVE MemInv'
  OBVIOUS
<1>1. LedgerInv'
  BY MemStep, LedgerNext DEF MemInv
<1>2. clock \in Nat /\ \A w \in waitlist : w.at \in Nat
  BY StampAssumption DEF MemInv, LedgerInv, TypeOK, WaitlistEntry
<1>3. CASE UNCHANGED memVars
  <2>1. clock' = clock /\ waitlist' = waitlist
    BY <1>3 DEF memVars, vars
  <2> QED BY <1>1, <2>1 DEF MemInv, WaitingSinceThePast
<1>4. ASSUME NEW e \in Events, NEW n \in Capacities, MemCreate(e, n)
      PROVE  MemInv'
  BY <1>1, <1>4 DEF MemInv, MemCreate, Create, WaitingSinceThePast
<1>5. ASSUME NEW e \in Events, NEW u \in Users, NEW n \in Wants, MemBook(e, u, n)
      PROVE  MemInv'
  <2>1. CASE Book(e, u, n) /\ clock' = clock
    BY <1>1, <2>1 DEF MemInv, Book, WaitingSinceThePast
  <2>2. ASSUME NEW at \in Stamps, clock <= at, clock' = at, Enqueue(e, u, n, at)
        PROVE  MemInv'
    <3>1. at \in Nat
      BY StampAssumption
    <3>2. WaitingSinceThePast'
      BY <1>2, <2>2, <3>1 DEF MemInv, Enqueue, WaitingSinceThePast
    <3> QED BY <1>1, <2>2, <3>2 DEF MemInv
  <2> QED BY <1>3, <1>5, <2>1, <2>2, MemBookImplementsBook
<1>6. ASSUME NEW e \in Events, NEW u \in Users, MemCancel(e, u)
      PROVE  MemInv'
  <2>1. waitlist' \subseteq waitlist /\ clock' = clock
    BY <1>6 DEF MemCancel
  <2> QED BY <1>1, <2>1 DEF MemInv, WaitingSinceThePast
<1> QED BY <1>3, <1>4, <1>5, <1>6 DEF MemNext

\* The invariant of the map-based store: what the ledger keeps, and no entry is
\* stamped with a time that is still to come.
THEOREM MemoryInvariant == MemSpec => []MemInv
BY MemInvInit, MemInvNext, PTL DEF MemSpec

\* The map-based store keeps the promise of the interface, step by step.
THEOREM MemoryImplementsLedger == MemSpec => ImplementsLedger
<1>1. MemInit => Init
  BY DEF MemInit
<1>2. MemInv /\ [MemNext]_memVars => [Next]_vars
  BY MemStep
<1> QED BY <1>1, <1>2, MemoryInvariant, PTL DEF MemSpec, Spec, ImplementsLedger

\* So it has the ledger's invariants: no seat is sold twice or lost, a user has
\* one place per event, and no seat stays free that the head of the queue could
\* take.
THEOREM MemoryKeepsLedger == MemSpec => [](SeatsConserved /\ OnePlacePerUser /\ QueueBlocked)
<1>1. MemInv => SeatsConserved /\ OnePlacePerUser /\ QueueBlocked
  BY DEF MemInv, LedgerInv
<1> QED BY <1>1, MemoryInvariant, PTL

\* And nobody is dropped by what others do.
THEOREM MemoryDropsNobody == MemSpec => [][DropsNobody]_vars
BY MemoryImplementsLedger, LedgerDropsNobody, PTL DEF ImplementsLedger

\* Whoever waits never sees the number of older entries grow: a newcomer is
\* stamped no earlier than all who wait, and every other step removes entries.
THEOREM MemoryKeepsPlace == MemSpec => PlaceKept
<1> DEFINE kept == \A w \in waitlist \cap waitlist' :
                     Cardinality(Ahead(waitlist', w)) <= Cardinality(Ahead(waitlist, w))
<1>1. MemInv /\ [MemNext]_memVars => [kept]_memVars
  <2> SUFFICES ASSUME MemInv, MemNext, NEW w \in waitlist, w \in waitlist'
               PROVE  Cardinality(Ahead(waitlist', w)) <= Cardinality(Ahead(waitlist, w))
    OBVIOUS
  <2>1. IsFiniteSet(Ahead(waitlist, w))
    BY FS_Subset DEF Ahead, MemInv, LedgerInv, FiniteTables
  <2>2. Ahead(waitlist', w) \subseteq Ahead(waitlist, w)
    <3>1. CASE waitlist' \subseteq waitlist
      BY <3>1 DEF Ahead
    <3>2. ASSUME NEW e \in Events, NEW u \in Users, NEW n \in Wants, NEW at \in Stamps,
                 clock <= at, Enqueue(e, u, n, at)
          PROVE  Ahead(waitlist', w) \subseteq Ahead(waitlist, w)
      <4>1. /\ w.at \in Nat /\ clock \in Nat /\ at \in Nat /\ w.at <= clock
        BY StampAssumption DEF MemInv, LedgerInv, TypeOK, WaitlistEntry, WaitingSinceThePast
      <4>2. ~(at < w.at)
        BY <3>2, <4>1
      <4>3. \A v \in waitlist' : v \in waitlist \/ v.at = at
        BY <3>2 DEF Enqueue
      <4> QED BY <4>2, <4>3 DEF Ahead
    <3>3. \A e \in Events, n \in Capacities : MemCreate(e, n) => waitlist' \subseteq waitlist
      BY DEF MemCreate, Create
    <3>4. \A e \in Events, u \in Users : MemCancel(e, u) => waitlist' \subseteq waitlist
      BY DEF MemCancel
    <3>5. ASSUME NEW e \in Events, NEW u \in Users, NEW n \in Wants, MemBook(e, u, n)
          PROVE  \/ waitlist' \subseteq waitlist
                 \/ \E at \in Stamps : clock <= at /\ Enqueue(e, u, n, at)
      BY <3>5, MemBookImplementsBook DEF memVars, vars, Book
    <3> QED BY <3>1, <3>2, <3>3, <3>4, <3>5 DEF MemNext
  <2> QED BY <2>1, <2>2, FS_Subset, FS_CardinalityType
<1> QED BY <1>1, MemoryInvariant, PTL DEF MemSpec, PlaceKept
=============================================================================
