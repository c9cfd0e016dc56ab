-------------------------- MODULE SeatHoldsProofs --------------------------
(***************************************************************************)
(* What the holds guarantee, while Redis keeps its keys and when it loses  *)
(* some, for any number of users, requests and seats, any TTL and any      *)
(* delay of a request.                                                     *)
(*                                                                         *)
(* The argument ties the two keys in Redis to what was reserved: a field   *)
(* of the hash is the last grant of its user, its expiry is the one that   *)
(* was granted, and a grant that is still good has its field.  The time a  *)
(* script brings along is never ahead of the clock, however often and late *)
(* it runs.                                                                *)
(***************************************************************************)
EXTENDS SeatHolds, FiniteSetTheorems, TLAPS

USE HoldAssumption DEF World

-----------------------------------------------------------------------------
(* Sums of seats. *)

Amounted(f) == f \in [Users -> Amounts]

\* The units counted are finitely many.
LEMMA SumType ==
  ASSUME NEW f, NEW us \in SUBSET Users
  PROVE  IsFiniteSet(UnitsOf(f, us)) /\ SumOf(f, us) \in Nat
<1>1. IsFiniteSet(us)
  BY FS_Subset
<1>2. IsFiniteSet(1..Total)
  BY FS_Interval
<1>3. IsFiniteSet(us \X (1..Total))
  BY <1>1, <1>2, FS_Product
<1>4. UnitsOf(f, us) \subseteq us \X (1..Total)
  BY DEF UnitsOf
<1>5. IsFiniteSet(UnitsOf(f, us))
  BY <1>3, <1>4, FS_Subset
<1> QED  BY <1>5, FS_CardinalityType DEF SumOf

\* More users with more seats have more seats.
LEMMA SumMonotone ==
  ASSUME NEW f, NEW g, Amounted(f), Amounted(g),
         NEW us \in SUBSET Users, NEW vs \in SUBSET Users,
         \A u \in us : f[u] # 0 => u \in vs /\ f[u] <= g[u]
  PROVE  SumOf(f, us) <= SumOf(g, vs)
<1>1. ASSUME NEW x \in UnitsOf(f, us)  PROVE x \in UnitsOf(g, vs)
  <2>1. x[1] \in us /\ x[2] \in 1..Total /\ x[2] <= f[x[1]] /\ x = <<x[1], x[2]>>
    BY DEF UnitsOf
  <2>2. f[x[1]] \in Nat /\ g[x[1]] \in Nat
    BY <2>1 DEF Amounted, Amounts
  <2>3. f[x[1]] # 0
    BY <2>1, <2>2
  <2>4. x[1] \in vs /\ x[2] <= g[x[1]]
    BY <2>1, <2>2, <2>3
  <2> QED  BY <2>1, <2>4 DEF UnitsOf
<1>2. UnitsOf(f, us) \subseteq UnitsOf(g, vs)
  BY <1>1
<1> QED  BY <1>2, SumType, FS_Subset DEF SumOf

\* One more user adds their seats.
LEMMA SumInsert ==
  ASSUME NEW f, Amounted(f), NEW us \in SUBSET Users, NEW u \in Users, u \notin us
  PROVE  SumOf(f, us \cup {u}) = SumOf(f, us) + f[u]
<1> DEFINE own == {u} \X (1..f[u])
<1>1. f[u] \in Nat /\ f[u] <= Total
  BY DEF Amounted, Amounts
<1>2. IsFiniteSet({u}) /\ Cardinality({u}) = 1
  BY FS_Singleton
<1>3. IsFiniteSet(1..f[u]) /\ Cardinality(1..f[u]) = f[u]
  <2>1. ASSUME NEW n \in Nat  PROVE IsFiniteSet(1..n) /\ Cardinality(1..n) = n
    BY FS_Interval
  <2> QED  BY <1>1, <2>1
<1>4. IsFiniteSet(own) /\ Cardinality(own) = Cardinality({u}) * Cardinality(1..f[u])
  BY <1>2, <1>3, FS_Product
<1>5. Cardinality(own) = f[u]
  BY <1>1, <1>2, <1>3, <1>4
<1>6. UnitsOf(f, us \cup {u}) = UnitsOf(f, us) \cup own
  BY <1>1 DEF UnitsOf
<1>7. UnitsOf(f, us) \cap own = {}
  BY DEF UnitsOf
<1>8. Cardinality(UnitsOf(f, us) \cup own) =
        Cardinality(UnitsOf(f, us)) + Cardinality(own) - Cardinality(UnitsOf(f, us) \cap own)
  BY <1>4, SumType, FS_Union
<1>9. SumOf(f, us) \in Nat /\ Cardinality({}) = 0
  BY SumType, FS_EmptySet
<1> HIDE DEF own
<1>10. SumOf(f, us \cup {u}) = SumOf(f, us) + Cardinality(own) - 0
  BY <1>6, <1>7, <1>8, <1>9, Zenon DEF SumOf
<1> QED  BY <1>1, <1>5, <1>9, <1>10

\* What the sum is when one user's seats are set.
LEMMA SumExcept ==
  ASSUME NEW f, Amounted(f), NEW u \in Users, NEW n \in Amounts
  PROVE  /\ Amounted([f EXCEPT ![u] = n])
         /\ SumOf([f EXCEPT ![u] = n], Users) = SumOf(f, Users \ {u}) + n
         /\ SumOf(f, Users) = SumOf(f, Users \ {u}) + f[u]
<1> DEFINE g == [f EXCEPT ![u] = n]
           others == Users \ {u}
<1>1. Amounted(g) /\ g[u] = n /\ \A v \in others : g[v] = f[v]
  BY DEF Amounted
<1>2. UnitsOf(g, others) = UnitsOf(f, others)
  BY <1>1 DEF UnitsOf
<1>3. SumOf(g, others) = SumOf(f, others)
  BY <1>2 DEF SumOf
<1>4. others \in SUBSET Users /\ u \notin others /\ others \cup {u} = Users
  OBVIOUS
<1> HIDE DEF g, others
<1>5. SumOf(g, Users) = SumOf(g, others) + g[u] /\ SumOf(f, Users) = SumOf(f, others) + f[u]
  BY <1>1, <1>4, SumInsert
<1> QED  BY <1>1, <1>3, <1>5 DEF g, others

\* The same of the two variables that are summed.
LEMMA HeldExcept ==
  ASSUME Amounted(held), NEW u \in Users, NEW n \in Amounts
  PROVE  /\ SumOf([held EXCEPT ![u] = n], Users) = SumOf(held, Users \ {u}) + n
         /\ SumOf(held, Users) = SumOf(held, Users \ {u}) + held[u]
BY SumExcept

LEMMA BookedExcept ==
  ASSUME Amounted(booked), NEW u \in Users, NEW n \in Amounts
  PROVE  /\ SumOf([booked EXCEPT ![u] = n], Users) = SumOf(booked, Users \ {u}) + n
         /\ SumOf(booked, Users) = SumOf(booked, Users \ {u}) + booked[u]
BY SumExcept

\* ... and of what a purge leaves.
LEMMA PurgedExcept ==
  ASSUME NEW now, Amounted(Purged(held, now)), NEW u \in Users, NEW n \in Amounts
  PROVE  SumOf([Purged(held, now) EXCEPT ![u] = n], Users)
           = SumOf(Purged(held, now), Users \ {u}) + n
BY SumExcept

\* Nobody has seats, there are none.
LEMMA SumZero == SumOf([u \in Users |-> 0], Users) = 0
<1>1. UnitsOf([u \in Users |-> 0], Users) = {}
  BY DEF UnitsOf
<1> QED  BY <1>1, FS_EmptySet DEF SumOf
-----------------------------------------------------------------------------
(* The inductive invariant. *)

\* What binds the two keys in Redis to the grants, at time t.
Bound(e, h, g, t) ==
  \A u \in Users :
    /\ h[u] # 0 => h[u] = g[u].seats /\ g[u].until # 0
    /\ e[u] # 0 /\ g[u].until # 0 => e[u] = g[u].until
    /\ g[u].until > t => h[u] = g[u].seats

\* Nothing binds them once Redis has lost something.
Tied == damage # "keys" => Bound(expiry, held, granted, clock)

Conserved == seats + SumOf(booked, Users) = Total

\* A script brings a time that has been.
Dated == \A c \in Calls : call[c].pc = "acquire" => call[c].now <= clock

HoldInv == TypeOK /\ Conserved /\ CountFits /\ Tied /\ Dated

\* The purge keeps its keys' types, removes fields only, and none of a hold that
\* is still good; it removes both halves of a hold that is not.
LEMMA PurgeKeeps ==
  ASSUME HoldInv, NEW now \in Nat, now <= clock
  PROVE  /\ Purged(expiry, now) \in [Users -> Times]
         /\ Amounted(Purged(held, now))
         /\ \A us \in SUBSET Users : SumOf(Purged(held, now), us) <= SumOf(held, us)
         /\ damage # "keys" =>
              /\ Bound(Purged(expiry, now), Purged(held, now), granted, clock)
              /\ Bound(Purged(expiry, now), held, granted, clock)
<1>1. /\ Purged(expiry, now) \in [Users -> Times]
      /\ Amounted(Purged(held, now)) /\ Amounted(held)
  BY DEF HoldInv, TypeOK, Purged, Amounted, Times, Amounts
<1>2. ASSUME NEW us \in SUBSET Users
      PROVE  SumOf(Purged(held, now), us) <= SumOf(held, us)
  <2>1. \A u \in us : Purged(held, now)[u] # 0 => u \in us /\ Purged(held, now)[u] <= held[u]
    BY DEF Purged, HoldInv, TypeOK, Amounts
  <2> QED  BY <1>1, <2>1, SumMonotone
<1>3. ASSUME damage # "keys", NEW u \in Users
      PROVE  /\ expiry[u] \in Nat /\ granted[u].until \in Nat /\ clock \in Nat
             /\ Purged(expiry, now)[u] \in {0, expiry[u]}
             /\ Purged(held, now)[u] \in {0, held[u]}
             /\ u \in Expired(now) => granted[u].until <= clock
  <2>1. granted[u] \in Grant /\ expiry[u] \in Times
    BY DEF HoldInv, TypeOK
  <2>2. expiry[u] \in Nat /\ granted[u].until \in Nat /\ clock \in Nat
    BY <2>1 DEF HoldInv, TypeOK, Grant, Times
  <2> QED  BY <1>3, <2>2 DEF Purged, Expired, HoldInv, Tied, Bound
<1>4. damage # "keys" => Bound(Purged(expiry, now), Purged(held, now), granted, clock)
  BY <1>3 DEF HoldInv, Tied, Bound, Purged
<1>5. damage # "keys" => Bound(Purged(expiry, now), held, granted, clock)
  BY <1>3 DEF HoldInv, Tied, Bound
<1> QED  BY <1>1, <1>2, <1>4, <1>5

LEMMA InitHolds == Init => HoldInv
<1> SUFFICES ASSUME Init  PROVE HoldInv
  OBVIOUS
<1>1. TypeOK
  BY DEF Init, TypeOK, Amounts, Times, Grant, NoGrant, Damages
<1>2. SumOf(booked, Users) = 0 /\ SumOf(held, Users) = 0
  BY SumZero DEF Init
<1> QED  BY <1>1, <1>2 DEF Init, HoldInv, Tied, Conserved, CountFits, Bound, NoGrant, Dated, NoCall

\* What a call has in hand.
LEMMA CallType ==
  ASSUME HoldInv, NEW c \in Calls, call[c] # NoCall
  PROVE  /\ call[c].user \in Users /\ call[c].want \in Amounts /\ call[c].cap \in Amounts
         /\ call[c].now \in Nat
         /\ call[c].pc = "acquire" => call[c].now <= clock
<1>1. call[c] \in Call
  BY DEF HoldInv, TypeOK
<1> QED  BY <1>1 DEF Call, Times, HoldInv, Dated

\* Steps that leave Redis, the grants and the seats of Postgres alone.
LEMMA OnlyCalls ==
  ASSUME HoldInv, call' \in [Calls -> Call \cup {NoCall}], Dated',
         UNCHANGED <<Postgres, Redis, World, granted>>
  PROVE  HoldInv'
  BY DEF HoldInv, Tied, TypeOK, Conserved, CountFits, Bound, Postgres, Redis

\* A call that is given new work, or none.
LEMMA CallSet ==
  ASSUME HoldInv, NEW c \in Calls, NEW new \in Call \cup {NoCall},
         new.pc = "acquire" => new.now <= clock,
         call' = [call EXCEPT ![c] = new], UNCHANGED clock
  PROVE  call' \in [Calls -> Call \cup {NoCall}] /\ Dated'
  BY DEF HoldInv, TypeOK, Dated

LEMMA EndsType ==
  ASSUME HoldInv, NEW c \in Calls, Ends(c) \/ Answered(c), UNCHANGED clock
  PROVE  call' \in [Calls -> Call \cup {NoCall}] /\ Dated'
<1>1. CASE Ends(c)
  BY <1>1, CallSet DEF Ends, NoCall
<1>2. CASE UNCHANGED call
  BY <1>2 DEF HoldInv, TypeOK, Dated
<1> QED  BY <1>1, <1>2 DEF Answered

LEMMA RequestsKeep ==
  ASSUME HoldInv, NEW c \in Calls, BeginHold(c) \/ ReadClock(c) \/ BeginRelease(c) \/ Fails(c)
  PROVE  HoldInv'
<1>1. CASE BeginHold(c)
  <2>1. PICK u \in Users, n \in 1..Total : call' = [call EXCEPT ![c] =
                  [pc |-> "now", user |-> u, want |-> n, cap |-> seats, now |-> 0]]
    BY <1>1 DEF BeginHold
  <2>2. [pc |-> "now", user |-> u, want |-> n, cap |-> seats, now |-> 0] \in Call
    BY DEF Call, Amounts, Times, HoldInv, TypeOK
  <2>3. call' \in [Calls -> Call \cup {NoCall}] /\ Dated'
    BY <1>1, <2>1, <2>2, CallSet DEF BeginHold
  <2> QED  BY <1>1, <2>3, OnlyCalls DEF BeginHold
<1>2. CASE ReadClock(c)
  <2> DEFINE new == [call[c] EXCEPT !.pc = "acquire", !.now = clock]
  <2>1. call[c] \in Call
    BY <1>2 DEF HoldInv, TypeOK, ReadClock, NoCall
  <2>2. new \in Call /\ new.now <= clock
    <3>1. clock \in Times /\ clock <= clock
      BY DEF HoldInv, TypeOK, Times
    <3>2. ASSUME NEW x \in Call, NEW s \in Times
          PROVE  /\ [x EXCEPT !.pc = "acquire", !.now = s] \in Call
                 /\ [x EXCEPT !.pc = "acquire", !.now = s].now = s
      BY DEF Call
    <3> QED  BY <2>1, <3>1, <3>2
  <2>3. call' = [call EXCEPT ![c] = new]
    BY <1>2 DEF ReadClock
  <2> HIDE DEF new
  <2>4. call' \in [Calls -> Call \cup {NoCall}] /\ Dated'
    BY <1>2, <2>2, <2>3, CallSet DEF ReadClock
  <2> QED  BY <1>2, <2>4, OnlyCalls DEF ReadClock
<1>3. CASE BeginRelease(c)
  <2>1. \A u \in Users : Releasing(u) \in Call /\ Releasing(u).pc # "acquire"
    BY DEF Releasing, Call, Amounts, Times
  <2>2. call' \in [Calls -> Call \cup {NoCall}] /\ Dated'
    BY <1>3, <2>1, CallSet DEF BeginRelease
  <2> QED  BY <1>3, <2>2, OnlyCalls DEF BeginRelease
<1>4. CASE Fails(c)
  BY <1>4, EndsType, OnlyCalls DEF Fails
<1> QED  BY <1>1, <1>2, <1>3, <1>4

\* The script's check and its write are one step, so what it grants fits.
LEMMA AcquireKeeps ==
  ASSUME HoldInv, NEW c \in Calls, Acquire(c)
  PROVE  HoldInv'
<1>0. call[c] # NoCall
  BY DEF Acquire, NoCall
<1>1. PICK who \in Users, want \in Amounts : who = call[c].user /\ want = call[c].want
  BY <1>0, CallType
<1> DEFINE now == call[c].now
<1>2.   /\ OthersHeld(who, now) + want <= call[c].cap
        /\ expiry' = [Purged(expiry, now) EXCEPT ![who] = now + Ttl]
        /\ held' = [Purged(held, now) EXCEPT ![who] = want]
        /\ granted' = [granted EXCEPT ![who] = [seats |-> want, until |-> now + Ttl]]
  BY <1>1 DEF Acquire, HSet
<1>3. now \in Nat /\ now <= clock /\ clock \in 0..MaxClock
  BY <1>0, CallType DEF Acquire, HoldInv, TypeOK
<1> HIDE DEF now
<1>4. now + Ttl \in Times /\ now + Ttl # 0
  BY <1>3 DEF Times
<1>5. [seats |-> want, until |-> now + Ttl] \in Grant
  BY <1>1, <1>4 DEF Grant
<1>6. /\ Purged(expiry, now) \in [Users -> Times]
      /\ Amounted(Purged(held, now))
      /\ damage # "keys" => Bound(Purged(expiry, now), Purged(held, now), granted, clock)
  BY <1>3, PurgeKeeps
<1>7. call' \in [Calls -> Call \cup {NoCall}] /\ Dated'
  BY EndsType DEF Acquire
<1>8. TypeOK'
  <2>1. expiry' \in [Users -> Times] /\ held' \in [Users -> Amounts]
    BY <1>1, <1>2, <1>4, <1>6 DEF Amounted
  <2>2. granted' \in [Users -> Grant]
    BY <1>2, <1>5 DEF HoldInv, TypeOK
  <2> QED  BY <1>7, <2>1, <2>2 DEF Acquire, Postgres, HoldInv, TypeOK
<1>9. Conserved'
  BY DEF Acquire, Postgres, HoldInv, Conserved
<1>10. CountFits'
  <2>1. SumOf(held', Users) = OthersHeld(who, now) + want
    <3>1. SumOf([Purged(held, now) EXCEPT ![who] = want], Users)
            = SumOf(Purged(held, now), Users \ {who}) + want
      BY <1>1, <1>6, PurgedExcept
    <3> QED  BY <1>2, <3>1 DEF OthersHeld
  <2>2. OthersHeld(who, now) \in Nat
    BY SumType DEF OthersHeld
  <2>3. call[c].cap \in Amounts
    BY <1>0, CallType
  <2> QED  BY <1>2, <2>1, <2>2, <2>3 DEF CountFits, Amounts
<1>11. ASSUME damage # "keys"  PROVE Bound(expiry', held', granted', clock)
  <2> SUFFICES ASSUME NEW v \in Users
               PROVE  /\ held'[v] # 0 => held'[v] = granted'[v].seats /\ granted'[v].until # 0
                      /\ expiry'[v] # 0 /\ granted'[v].until # 0 => expiry'[v] = granted'[v].until
                      /\ granted'[v].until > clock => held'[v] = granted'[v].seats
    BY DEF Bound
  <2>1. CASE v = who
    <3>1. expiry'[v] = now + Ttl /\ held'[v] = want
      BY <1>2, <1>6, <2>1 DEF Amounted
    <3>2. granted'[v] = [seats |-> want, until |-> now + Ttl]
      BY <1>2, <2>1 DEF HoldInv, TypeOK
    <3> QED  BY <3>1, <3>2, <1>4
  <2>2. CASE v # who
    <3>1. expiry'[v] = Purged(expiry, now)[v] /\ held'[v] = Purged(held, now)[v]
      BY <1>2, <1>6, <2>2 DEF Amounted
    <3>2. granted'[v] = granted[v]
      BY <1>2, <2>2 DEF HoldInv, TypeOK
    <3> QED  BY <3>1, <3>2, <1>6, <1>11 DEF Bound
  <2> QED  BY <2>1, <2>2
<1>12. clock' = clock /\ damage' = damage
  BY DEF Acquire
<1> QED  BY <1>7, <1>8, <1>9, <1>10, <1>11, <1>12 DEF HoldInv, Tied

LEMMA DenyKeeps ==
  ASSUME HoldInv, NEW c \in Calls, Deny(c)
  PROVE  HoldInv'
<1>1. call[c] # NoCall
  BY DEF Deny, NoCall
<1> DEFINE now == call[c].now
<1>2. expiry' = Purged(expiry, now) /\ held' = Purged(held, now)
  BY DEF Deny
<1>3. now \in Nat /\ now <= clock
  BY <1>1, CallType DEF Deny
<1>4. /\ expiry' \in [Users -> Times] /\ Amounted(held')
      /\ SumOf(held', Users) <= SumOf(held, Users)
      /\ damage # "keys" => Bound(expiry', held', granted, clock)
  BY <1>2, <1>3, PurgeKeeps
<1>5. TypeOK'
  BY <1>4, EndsType DEF Deny, Postgres, HoldInv, TypeOK, Amounted
<1>6. CountFits'
  <2>1. SumOf(held, Users) \in Nat /\ SumOf(held', Users) \in Nat
    BY SumType
  <2> QED  BY <1>4, <2>1 DEF HoldInv, CountFits
<1>7. Dated'
  BY EndsType DEF Deny
<1> QED  BY <1>4, <1>5, <1>6, <1>7 DEF Deny, Postgres, HoldInv, Tied, Conserved

LEMMA UnpackFailsKeeps ==
  ASSUME HoldInv, NEW c \in Calls, UnpackFails(c)
  PROVE  HoldInv'
<1>1. call[c] # NoCall
  BY DEF UnpackFails, NoCall
<1> DEFINE now == call[c].now
<1>2. expiry' = Purged(expiry, now)
  BY DEF UnpackFails
<1>3. now \in Nat /\ now <= clock
  BY <1>1, CallType DEF UnpackFails
<1>4. expiry' \in [Users -> Times] /\ (damage # "keys" => Bound(expiry', held, granted, clock))
  BY <1>2, <1>3, PurgeKeeps
<1>5. damage' \in Damages /\ (damage' # "keys" => damage # "keys")
  BY DEF UnpackFails, HoldInv, TypeOK, Damages
<1>6. TypeOK'
  BY <1>4, <1>5, EndsType DEF UnpackFails, Postgres, HoldInv, TypeOK
<1>7. Dated'
  BY EndsType DEF UnpackFails
<1> QED  BY <1>4, <1>5, <1>6, <1>7
         DEF UnpackFails, Postgres, HoldInv, Tied, Conserved, CountFits

LEMMA ReleaseKeeps ==
  ASSUME HoldInv, NEW c \in Calls, ZRem(c) \/ HDel(c)
  PROVE  HoldInv'
<1>1. call[c] # NoCall
  BY DEF ZRem, HDel, NoCall
<1>2. PICK who \in Users : who = call[c].user
  BY <1>1, CallType
<1>3. CASE ZRem(c)
  <2>1. call' \in [Calls -> Call \cup {NoCall}] /\ Dated'
    <3>1. call[c] \in Call
      BY <1>1 DEF HoldInv, TypeOK
    <3>2. /\ [call[c] EXCEPT !.pc = "hdel"] \in Call
          /\ [call[c] EXCEPT !.pc = "hdel"].pc # "acquire"
      BY <3>1 DEF Call
    <3> QED  BY <1>3, <3>2, CallSet DEF ZRem
  <2>2. TypeOK'
    BY <1>2, <1>3, <2>1 DEF ZRem, Postgres, HoldInv, TypeOK, Times
  <2>3. damage # "keys" => Bound(expiry', held, granted, clock)
    BY <1>2, <1>3 DEF ZRem, HoldInv, Tied, Bound, TypeOK
  <2> QED  BY <1>3, <2>1, <2>2, <2>3 DEF ZRem, Postgres, HoldInv, Tied, Conserved, CountFits
<1>4. CASE HDel(c)
  <2>1. /\ held' = [held EXCEPT ![who] = 0]
        /\ granted' = [granted EXCEPT ![who] = NoGrant]
        /\ UNCHANGED <<seats, booked, expiry, clock, damage>>
        /\ 0 \in Amounts /\ NoGrant \in Grant /\ Amounted(held)
    BY <1>2, <1>4 DEF HDel, Postgres, Amounts, NoGrant, Grant, Times, HoldInv, TypeOK, Amounted
  <2>2. TypeOK'
    BY <1>4, <2>1, EndsType DEF HDel, HoldInv, TypeOK
  <2>3. SumOf(held', Users) <= SumOf(held, Users)
    <3>1. SumOf([held EXCEPT ![who] = 0], Users) = SumOf(held, Users \ {who}) + 0
      BY <1>2, <2>1, HeldExcept
    <3>2. SumOf(held, Users) = SumOf(held, Users \ {who}) + held[who]
      BY <1>2, <2>1, HeldExcept
    <3>3. SumOf(held, Users \ {who}) \in Nat /\ held[who] \in Nat
      BY <1>2, <2>1, SumType DEF Amounted, Amounts
    <3> QED  BY <2>1, <3>1, <3>2, <3>3
  <2>4. SumOf(held, Users) \in Nat /\ SumOf(held', Users) \in Nat
    BY SumType
  <2>5. CountFits'
    BY <2>3, <2>4 DEF HoldInv, CountFits
  <2>6. damage # "keys" => Bound(expiry, held', granted', clock)
    BY <1>2, <2>1 DEF HoldInv, Tied, Bound, TypeOK, NoGrant
  <2>7. Dated'
    BY <1>4, EndsType DEF HDel
  <2> QED  BY <2>1, <2>2, <2>5, <2>6, <2>7 DEF HoldInv, Tied, Conserved
<1> QED  BY <1>3, <1>4

\* Seats move between the counter and the bookings.
LEMMA PostgresKeeps ==
  ASSUME HoldInv, NEW who \in Users, NEW n \in Amounts,
         booked' = [booked EXCEPT ![who] = n],
         seats' = seats + booked[who] - n, seats' >= 0,
         call' \in [Calls -> Call \cup {NoCall}], Dated',
         UNCHANGED <<Redis, World, granted>>
  PROVE  HoldInv'
<1>1. Amounted(booked) /\ booked[who] \in Nat /\ seats \in Nat /\ n \in Nat
  BY DEF HoldInv, TypeOK, Amounted, Amounts
<1>2. SumOf(booked', Users) = SumOf(booked, Users \ {who}) + n
  <2>1. SumOf([booked EXCEPT ![who] = n], Users) = SumOf(booked, Users \ {who}) + n
    BY <1>1, BookedExcept
  <2> QED  BY <2>1
<1>3. SumOf(booked, Users) = SumOf(booked, Users \ {who}) + booked[who]
  BY <1>1, BookedExcept
<1>4. SumOf(booked, Users \ {who}) \in Nat
  BY SumType
<1>5. Conserved'
  BY <1>1, <1>2, <1>3, <1>4 DEF HoldInv, Conserved
<1>6. seats' \in Amounts
  <2>1. seats' \in Int /\ SumOf(booked', Users) \in Nat
    BY <1>1, SumType
  <2> QED  BY <1>5, <2>1 DEF Conserved, Amounts
<1>7. TypeOK'
  BY <1>6 DEF HoldInv, TypeOK, Redis
<1> QED  BY <1>5, <1>7 DEF HoldInv, Tied, CountFits, Bound, Redis

LEMMA BookKeeps ==
  ASSUME HoldInv, NEW c \in Calls, Book(c)
  PROVE  HoldInv'
<1>1. PICK who \in Users, n \in 1..seats :
        /\ booked[who] = 0
        /\ booked' = [booked EXCEPT ![who] = n]
        /\ seats' = seats - n
        /\ call' = [call EXCEPT ![c] = Releasing(who)]
  BY DEF Book
<1>2. seats \in Nat /\ seats <= Total
  BY DEF HoldInv, TypeOK, Amounts
<1>3. n \in Amounts /\ seats' >= 0 /\ seats' = seats + booked[who] - n
  BY <1>1, <1>2 DEF Amounts
<1>4. Releasing(who) \in Call /\ Releasing(who).pc # "acquire"
  BY <1>1 DEF Releasing, Call, Amounts, Times
<1>5. call' \in [Calls -> Call \cup {NoCall}] /\ Dated'
  BY <1>1, <1>4, CallSet DEF Book
<1> QED  BY <1>1, <1>3, <1>5, PostgresKeeps DEF Book

LEMMA CancelKeeps ==
  ASSUME HoldInv, Cancel
  PROVE  HoldInv'
<1>1. PICK who \in Users : /\ seats' = seats + booked[who]
                           /\ booked' = [booked EXCEPT ![who] = 0]
  BY DEF Cancel
<1>2. seats \in Nat /\ booked[who] \in Nat /\ 0 \in Amounts
  BY <1>1 DEF HoldInv, TypeOK, Amounts
<1>3. seats' >= 0 /\ seats' = seats + booked[who] - 0
  BY <1>1, <1>2
<1>4. call' \in [Calls -> Call \cup {NoCall}] /\ Dated'
  BY DEF Cancel, HoldInv, TypeOK, Dated
<1> QED  BY <1>1, <1>2, <1>3, <1>4, PostgresKeeps DEF Cancel

LEMMA TickKeeps ==
  ASSUME HoldInv, Tick
  PROVE  HoldInv'
<1>1. TypeOK'
  BY DEF HoldInv, TypeOK, Tick, Postgres, Redis
<1>2. ASSUME damage # "keys"  PROVE Bound(expiry, held, granted, clock')
  <2> SUFFICES ASSUME NEW v \in Users, granted[v].until > clock'
               PROVE  granted[v].until > clock
    BY <1>2 DEF HoldInv, Tied, Bound
  <2>1. granted[v] \in Grant /\ clock \in Nat
    BY DEF HoldInv, TypeOK
  <2> QED  BY <2>1 DEF Tick, Grant, Times
<1>3. Dated'
  <2> SUFFICES ASSUME NEW c \in Calls, call[c].pc = "acquire"
               PROVE  call[c].now <= clock + 1
    BY DEF Tick, Dated
  <2>1. call[c].now <= clock /\ call[c].now \in Nat /\ clock \in Nat
    BY CallType DEF HoldInv, TypeOK, NoCall
  <2> QED  BY <2>1
<1> QED  BY <1>1, <1>2, <1>3 DEF HoldInv, Tied, Tick, Postgres, Redis, Conserved, CountFits

LEMMA FaultKeeps ==
  ASSUME HoldInv, EvictExpiries \/ EvictSeats \/ \E c \in Calls : ReleaseBreaks(c)
  PROVE  HoldInv'
<1>1. damage' = "keys" /\ UNCHANGED <<seats, booked, clock, granted>>
  BY DEF EvictExpiries, EvictSeats, ReleaseBreaks, Fault, Postgres
<1>2. Tied' /\ Conserved'
  BY <1>1 DEF HoldInv, Tied, Conserved
<1>3. ASSUME NEW c \in Calls, ReleaseBreaks(c)  PROVE HoldInv'
  <2>1. call' \in [Calls -> Call \cup {NoCall}] /\ Dated'
    BY <1>1, <1>3, EndsType DEF ReleaseBreaks
  <2> QED  BY <1>1, <1>2, <1>3, <2>1 DEF ReleaseBreaks, Redis, HoldInv, TypeOK, CountFits, Damages
<1>4. CASE EvictExpiries
  <2>1. expiry' \in [Users -> Times] /\ UNCHANGED <<held, call>>
    BY <1>4 DEF EvictExpiries, Times
  <2> QED  BY <1>1, <1>2, <2>1 DEF HoldInv, TypeOK, CountFits, Damages, Dated
<1>5. CASE EvictSeats
  <2>1. SumOf(held', Users) = 0
    BY <1>5, SumZero DEF EvictSeats
  <2>2. held' \in [Users -> Amounts] /\ UNCHANGED <<expiry, call>>
    BY <1>5 DEF EvictSeats, Amounts
  <2>3. TypeOK'
    BY <1>1, <2>2 DEF HoldInv, TypeOK, Damages
  <2>4. CountFits'
    BY <2>1 DEF CountFits
  <2>5. Dated'
    BY <1>1, <2>2 DEF HoldInv, Dated
  <2> QED  BY <1>2, <2>3, <2>4, <2>5 DEF HoldInv
<1> QED  BY <1>3, <1>4, <1>5

LEMMA NextKeeps == HoldInv /\ [Next]_vars => HoldInv'
<1> SUFFICES ASSUME HoldInv, [Next]_vars  PROVE HoldInv'
  OBVIOUS
<1>1. CASE UNCHANGED vars
  BY <1>1 DEF vars, HoldInv, Tied, TypeOK, Conserved, CountFits, Bound, Dated
<1>2. ASSUME NEW c \in Calls, Serve(c)  PROVE HoldInv'
  BY <1>2, RequestsKeep, AcquireKeeps, DenyKeeps, UnpackFailsKeeps, BookKeeps, ReleaseKeeps
     DEF Serve
<1>3. CASE Cancel
  BY <1>3, CancelKeeps
<1>4. CASE Tick
  BY <1>4, TickKeeps
<1> QED  BY <1>1, <1>2, <1>3, <1>4, FaultKeeps DEF Next

\* The invariant that carries the rest, TypeOK among its parts.
THEOREM HoldInvariant == Spec => []HoldInv
  BY InitHolds, NextKeeps, PTL DEF Spec

\* The keys, what was reserved and the requests keep their types.
THEOREM HoldTypes == Spec => []TypeOK
<1>1. HoldInv => TypeOK
  BY DEF HoldInv
<1> QED  BY <1>1, HoldInvariant, PTL

\* Whatever becomes of the keys, the seats counted as held are never more than
\* were on sale (holds.go:94-151).
THEOREM HoldsCountFits == Spec => []CountFits
<1>1. HoldInv => CountFits
  BY DEF HoldInv
<1> QED  BY <1>1, HoldInvariant, PTL

\* No seat is held twice: the holds reserved last for their users, and that have
\* neither expired nor been released, fit into the event, also when the answer of
\* a script was lost or it ran again (holds.go:94-115).
THEOREM HoldsNeverOverheld == Spec => []NeverOverheld
<1>1. HoldInv => NeverOverheld
  <2> SUFFICES ASSUME HoldInv, damage # "keys"
               PROVE  SumOf(Promised, Holders(clock)) <= Total
    BY DEF NeverOverheld
  <2>1. Amounted(Promised) /\ Amounted(held)
    BY DEF HoldInv, TypeOK, Promised, Amounted, Grant
  <2>2. Holders(clock) \in SUBSET Users
    BY DEF Holders
  <2>3. \A v \in Holders(clock) : Promised[v] # 0 => v \in Users /\ Promised[v] <= held[v]
    BY <2>1 DEF HoldInv, Tied, Bound, Holders, Promised, Amounted, Amounts
  <2>4. SumOf(Promised, Holders(clock)) <= SumOf(held, Users)
    BY <2>1, <2>2, <2>3, SumMonotone
  <2>5. SumOf(Promised, Holders(clock)) \in Nat /\ SumOf(held, Users) \in Nat
    BY <2>2, SumType
  <2> QED  BY <2>4, <2>5 DEF HoldInv, CountFits
<1> QED  BY <1>1, HoldInvariant, PTL

-----------------------------------------------------------------------------
(* Holds lapse. *)

LEMMA ExpiredFits ==
  ASSUME Cardinality(Users) <= UnpackLimit, NEW now
  PROVE  Cardinality(Expired(now)) <= UnpackLimit
<1>1. Expired(now) \subseteq Users
  BY DEF Expired
<1>2. Cardinality(Expired(now)) <= Cardinality(Users)
  BY <1>1, FS_Subset
<1>3. Cardinality(Expired(now)) \in Nat /\ Cardinality(Users) \in Nat
  BY <1>1, FS_Subset, FS_CardinalityType
<1> QED  BY <1>2, <1>3

\* A release that has run its ZREM stays in line for its HDEL.
LEMMA StillReleased ==
  ASSUME HoldInv, NEW c \in Calls, call[c].pc # "hdel",
         \/ UNCHANGED call
         \/ \E new : call' = [call EXCEPT ![c] = new]
  PROVE  BeingReleased \subseteq BeingReleased'
  BY DEF BeingReleased, HoldInv, TypeOK

\* Nothing repairs what has gone wrong.
LEMMA DamageStays ==
  ASSUME HoldInv, [Next]_vars
  PROVE  /\ damage' # "keys" => damage # "keys"
         /\ damage' = "none" => damage = "none" /\ \A c \in Calls : ~UnpackFails(c)
<1>1. damage \in Damages
  BY DEF HoldInv, TypeOK
<1>2. CASE UNCHANGED damage /\ \A c \in Calls : ~UnpackFails(c)
  BY <1>2
<1>3. CASE \E c \in Calls : UnpackFails(c)
  BY <1>1, <1>3 DEF UnpackFails
<1>4. CASE damage' = "keys"
  BY <1>4
<1>5. \/ UNCHANGED damage
      \/ \E c \in Calls : UnpackFails(c)
      \/ damage' = "keys"
  BY DEF Next, vars, Serve, BeginHold, ReadClock, Acquire, Deny, BeginRelease, Book,
         ZRem, HDel, Fails, ReleaseBreaks, Cancel, Tick, EvictExpiries, EvictSeats, Fault
<1> QED  BY <1>2, <1>3, <1>4, <1>5

\* Which calls a request and the script work for.
LEMMA RequestMoves ==
  ASSUME NEW c \in Calls, BeginHold(c) \/ ReadClock(c) \/ BeginRelease(c) \/ Book(c) \/ Fails(c)
  PROVE  call[c].pc # "hdel" /\ \E new : call' = [call EXCEPT ![c] = new]
<1>1. BeginHold(c) => \E new : call' = [call EXCEPT ![c] = new]
  BY DEF BeginHold
<1>2. ReadClock(c) => \E new : call' = [call EXCEPT ![c] = new]
  BY DEF ReadClock
<1>3. BeginRelease(c) => \E new : call' = [call EXCEPT ![c] = new]
  BY DEF BeginRelease
<1>4. Book(c) => \E new : call' = [call EXCEPT ![c] = new]
  BY DEF Book
<1>5. Fails(c) => \E new : call' = [call EXCEPT ![c] = new]
  BY DEF Fails, Ends
<1>6. call[c].pc # "hdel"
  BY DEF BeginHold, ReadClock, BeginRelease, Book, Fails, NoCall
<1> QED  BY <1>1, <1>2, <1>3, <1>4, <1>5, <1>6

LEMMA AcquireBusy ==
  ASSUME NEW c \in Calls, Acquire(c) \/ Deny(c)
  PROVE  call[c] # NoCall
BY DEF Acquire, Deny, NoCall

LEMMA LapseStep ==
  ASSUME HoldInv, Lapsing, [Next]_vars,
         damage' # "keys", \A c \in Calls : ~UnpackFails(c)
  PROVE  Lapsing'
<1> USE DEF Lapsing
<1>1. CASE UNCHANGED vars
  BY <1>1 DEF vars, BeingReleased
<1>2. ASSUME NEW c \in Calls, BeginHold(c) \/ ReadClock(c) \/ BeginRelease(c) \/ Book(c) \/ Fails(c)
      PROVE  Lapsing'
  <2>1. UNCHANGED Redis
    BY <1>2 DEF BeginHold, ReadClock, BeginRelease, Book, Fails
  <2>2. call[c].pc # "hdel" /\ \E new : call' = [call EXCEPT ![c] = new]
    BY <1>2, RequestMoves
  <2>3. BeingReleased \subseteq BeingReleased'
    BY <2>2, StillReleased
  <2> QED  BY <2>1, <2>3 DEF Redis
<1>3. ASSUME NEW c \in Calls, Acquire(c) \/ Deny(c)  PROVE Lapsing'
  <2>1. BeingReleased \subseteq BeingReleased'
    BY <1>3, StillReleased DEF Acquire, Deny, Answered, Ends
  <2>2. call[c] # NoCall
    BY <1>3, AcquireBusy
  <2> DEFINE now == call[c].now
  <2>3. PICK who \in Users :
          \/ expiry' = Purged(expiry, now) /\ held' = Purged(held, now)
          \/ /\ expiry' = [Purged(expiry, now) EXCEPT ![who] = now + Ttl]
             /\ \E n : held' = [Purged(held, now) EXCEPT ![who] = n]
    BY <1>3, <2>2, CallType DEF Acquire, Deny, HSet, HoldInv
  <2>4. now \in Nat
    BY <2>2, CallType
  <2> HIDE DEF now
  <2> SUFFICES ASSUME NEW v \in Users, held'[v] # 0
               PROVE  expiry'[v] # 0 \/ v \in BeingReleased
    BY <2>1
  <2>5. Purged(held, now)[v] # 0 => Purged(expiry, now)[v] # 0 \/ v \in BeingReleased
    BY DEF Purged
  <2>6. CASE v # who
    <3>1. expiry'[v] = Purged(expiry, now)[v] /\ held'[v] = Purged(held, now)[v]
      BY <2>3, <2>6 DEF Purged
    <3> QED  BY <2>5, <3>1
  <2>7. CASE v = who
    <3>1. CASE expiry' = Purged(expiry, now) /\ held' = Purged(held, now)
      BY <2>5, <3>1
    <3>2. CASE expiry' = [Purged(expiry, now) EXCEPT ![who] = now + Ttl]
      <4>1. expiry'[who] = now + Ttl
        BY <2>3, <3>2 DEF Purged
      <4> QED  BY <2>4, <2>7, <4>1, HoldAssumption
    <3> QED  BY <2>3, <3>1, <3>2
  <2> QED  BY <2>6, <2>7
<1>4. ASSUME NEW c \in Calls, UnpackFails(c)  PROVE Lapsing'
  BY <1>4
<1>5. ASSUME NEW c \in Calls, ZRem(c)  PROVE Lapsing'
  <2>1. BeingReleased \subseteq BeingReleased'
    BY <1>5 DEF ZRem, BeingReleased, HoldInv, TypeOK, Call, NoCall
  <2>2. call[c].user \in BeingReleased'
    BY <1>5 DEF ZRem, BeingReleased, HoldInv, TypeOK, Call, NoCall
  <2> QED  BY <1>5, <2>1, <2>2 DEF ZRem, HoldInv, TypeOK
<1>6. ASSUME NEW c \in Calls, HDel(c)  PROVE Lapsing'
  <2>1. \A v \in BeingReleased : v = call[c].user \/ v \in BeingReleased'
    BY <1>6 DEF HDel, Ends, BeingReleased, HoldInv, TypeOK
  <2> QED  BY <1>6, <2>1 DEF HDel, HoldInv, TypeOK
<1>7. CASE Cancel \/ Tick
  BY <1>7 DEF Cancel, Tick, Redis, BeingReleased
<1>8. CASE EvictExpiries \/ EvictSeats \/ \E c \in Calls : ReleaseBreaks(c)
  BY <1>8 DEF EvictExpiries, EvictSeats, ReleaseBreaks, Fault
<1> QED  BY <1>1, <1>2, <1>3, <1>4, <1>5, <1>6, <1>7, <1>8 DEF Next, Serve

\* Abandoned seats come back by themselves: a hold that blocks others has an
\* expiry, unless a Release is about to remove it (holds.go:17-24), as long as
\* nothing went wrong in Redis.
THEOREM HoldsExpire == Spec => []HeldSeatsExpire
<1>1. Init => HeldSeatsExpire
  BY DEF Init, HeldSeatsExpire, Lapsing
<1>2. HoldInv /\ HeldSeatsExpire /\ [Next]_vars => HeldSeatsExpire'
  <2> SUFFICES ASSUME HoldInv, HeldSeatsExpire, [Next]_vars, damage' = "none"
               PROVE  Lapsing'
    BY DEF HeldSeatsExpire
  <2>1. damage = "none" /\ \A c \in Calls : ~UnpackFails(c)
    BY DamageStays
  <2> QED  BY <2>1, LapseStep DEF HeldSeatsExpire
<1> QED  BY <1>1, <1>2, HoldInvariant, PTL DEF Spec

\* "the reservation expires on its own" (holds.go:20) while Redis keeps its keys, if
\* no more users hold seats than unpack can return: the run HoldsUnpack shows
\* what happens beyond that.
THEOREM HoldsComeBack ==
  ASSUME Cardinality(Users) <= UnpackLimit
  PROVE  Spec => []SeatsComeBack
<1>1. Init => SeatsComeBack
  BY DEF Init, SeatsComeBack, Lapsing
<1>2. ASSUME NEW c \in Calls  PROVE ~UnpackFails(c)
  <2> SUFFICES ASSUME NEW now, Cardinality(Expired(now)) > UnpackLimit
               PROVE  FALSE
    BY DEF UnpackFails
  <2>1. Cardinality(Expired(now)) <= UnpackLimit /\ Cardinality(Expired(now)) \in Nat
    <3>1. Expired(now) \subseteq Users
      BY DEF Expired
    <3> QED  BY <3>1, ExpiredFits, FS_Subset, FS_CardinalityType
  <2> QED  BY <2>1
<1>3. HoldInv /\ SeatsComeBack /\ [Next]_vars => SeatsComeBack'
  <2> SUFFICES ASSUME HoldInv, SeatsComeBack, [Next]_vars, damage' # "keys"
               PROVE  Lapsing'
    BY DEF SeatsComeBack
  <2>1. damage # "keys"
    BY DamageStays
  <2> QED  BY <2>1, <1>2, LapseStep DEF SeatsComeBack
<1> QED  BY <1>1, <1>3, HoldInvariant, PTL DEF Spec

\* A user is denied seats only because of the bookings and of holds that have
\* not expired or are being released (holds.go:17-24), as long as nothing went
\* wrong in Redis.
THEOREM HoldsDenyForLiveOnly == Spec => DeniedByLiveHolds
<1>1. HoldInv /\ HeldSeatsExpire /\ [Next]_vars =>
        [\A c \in Calls :
           damage = "none" /\ call[c].pc = "acquire" /\ Deny(c) =>
             SumOf(Promised, (Holders(call[c].now) \cup BeingReleased) \ {call[c].user})
               + call[c].want > call[c].cap]_vars
  <2> SUFFICES ASSUME HoldInv, HeldSeatsExpire, damage = "none", NEW c \in Calls, Deny(c)
               PROVE  SumOf(Promised, (Holders(call[c].now) \cup BeingReleased) \ {call[c].user})
                        + call[c].want > call[c].cap
    OBVIOUS
  <2>1. call[c] # NoCall
    BY DEF Deny, NoCall
  <2> DEFINE now == call[c].now
  <2>2. OthersHeld(call[c].user, now) + call[c].want > call[c].cap
    BY DEF Deny
  <2>3. /\ now \in Nat /\ now <= clock
        /\ call[c].user \in Users /\ call[c].want \in Nat /\ call[c].cap \in Nat
    BY <2>1, CallType DEF Amounts, Deny
  <2>4. PICK live \in SUBSET Users :
          live = (Holders(call[c].now) \cup BeingReleased) \ {call[c].user}
    <3>1. BeingReleased \subseteq Users
      BY DEF BeingReleased, HoldInv, TypeOK, Call, NoCall
    <3> QED  BY <3>1 DEF Holders
  <2>5. PICK others \in SUBSET Users : others = Users \ {call[c].user}
    OBVIOUS
  <2>6. Amounted(Promised) /\ Amounted(Purged(held, now))
    BY <2>3, PurgeKeeps DEF HoldInv, TypeOK, Promised, Amounted, Grant
  <2>7. ASSUME NEW v \in others, Purged(held, now)[v] # 0
        PROVE  v \in live /\ Purged(held, now)[v] <= Promised[v]
    <3>1. v \in Users /\ v # call[c].user
      BY <2>5
    <3>2. held[v] # 0 /\ Purged(held, now)[v] = held[v] /\ v \notin Expired(now)
      BY <2>7, <3>1 DEF Purged
    <3>3. held[v] = Promised[v] /\ granted[v].until # 0 /\ held[v] \in Nat
      BY <3>1, <3>2 DEF HoldInv, Tied, TypeOK, Bound, Promised, Amounts
    <3>4. CASE expiry[v] # 0
      <4>1. expiry[v] = granted[v].until
        BY <3>1, <3>3, <3>4 DEF HoldInv, Tied, Bound
      <4>2. expiry[v] \in Nat /\ ~ (expiry[v] <= now)
        BY <3>1, <3>2, <3>4 DEF Expired, HoldInv, TypeOK, Times
      <4>3. granted[v].until > now
        BY <2>3, <4>1, <4>2
      <4> QED  BY <2>4, <3>1, <3>2, <3>3, <4>3 DEF Holders
    <3>5. CASE expiry[v] = 0
      BY <2>4, <3>1, <3>2, <3>3, <3>5 DEF HeldSeatsExpire, Lapsing
    <3> QED  BY <3>4, <3>5
  <2>8. SumOf(Purged(held, now), others) <= SumOf(Promised, live)
    BY <2>4, <2>5, <2>6, <2>7, SumMonotone
  <2>9. SumOf(Purged(held, now), others) \in Nat /\ SumOf(Promised, live) \in Nat
    BY <2>4, <2>5, SumType
  <2>10. SumOf(Purged(held, now), others) + call[c].want > call[c].cap
    BY <2>2, <2>5 DEF OthersHeld
  <2>11. SumOf(Promised, live) + call[c].want > call[c].cap
    BY <2>3, <2>8, <2>9, <2>10
  <2> QED  BY <2>4, <2>11
<1> QED  BY <1>1, HoldInvariant, HoldsExpire, PTL DEF Spec, DeniedByLiveHolds
=============================================================================
