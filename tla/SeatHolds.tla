----------------------------- MODULE SeatHolds -----------------------------
(***************************************************************************)
(* internal/holds/holds.go and the handlers that call it: the seats one    *)
(* event's users hold while they check out.                                *)
(*                                                                         *)
(* Redis keeps a sorted set with the expiry of every hold and a hash with  *)
(* its seats.  A Lua script is one step; the two commands of Release's     *)
(* pipeline are two, because a pipeline is not a transaction.  What Redis  *)
(* answers may be lost: go-redis then sends the same again, or gives up.   *)
(* Postgres is the number of seats left and what everybody booked: whether *)
(* a request is queued instead makes no difference here.                   *)
(***************************************************************************)
EXTENDS Integers, FiniteSets

CONSTANTS Users,
          Calls,        \* requests being served, on all replicas
          Total,        \* seats of the event
          Ttl,          \* lifetime of a hold
          MaxClock,     \* bound on the time
          UnpackLimit   \* results Lua's unpack can return: 8000 in Redis

ASSUME HoldAssumption == /\ IsFiniteSet(Users)
                         /\ Total \in Nat \ {0} /\ Ttl \in Nat \ {0}
                         /\ MaxClock \in Nat /\ UnpackLimit \in Nat

VARIABLES seats,     \* events.seats in Postgres
          booked,    \* seats of each user's booking in Postgres, or 0
          expiry,    \* ZSET holds:<event>; 0: no such member
          held,      \* HASH holdseats:<event>; 0: no such field
          clock,     \* time.Now(), the same on all replicas
          call,      \* what each call does next
          granted,   \* the hold reserved last for each user, whether the
                     \* user heard of it or not (history)
          damage     \* what has gone wrong in Redis so far (history)

vars == <<seats, booked, expiry, held, clock, call, granted, damage>>

Amounts == 0..Total
Times == 0..MaxClock + Ttl

\* cap  the seats read from Postgres, now  Acquire's time.Now()
Call == [pc : {"idle", "now", "acquire", "zrem", "hdel"},
         user : Users, want : Amounts, cap : Amounts, now : Times]
NoCall == [pc |-> "idle"]

\* Granted: so many seats until that time.
Grant == [seats : Amounts, until : Times]
NoGrant == [seats |-> 0, until |-> 0]

\* script  the script stopped half-way, keys  a key or half a release is lost
Damages == {"none", "script", "keys"}

Init == /\ seats = Total
        /\ booked = [u \in Users |-> 0]
        /\ expiry = [u \in Users |-> 0]
        /\ held = [u \in Users |-> 0]
        /\ clock = 0
        /\ call = [c \in Calls |-> NoCall]
        /\ granted = [u \in Users |-> NoGrant]
        /\ damage = "none"

\* SUM over the users in us of the seats f gives them, as a number of units.
UnitsOf(f, us) == {x \in us \X (1..Total) : x[2] <= f[x[1]]}
SumOf(f, us) == Cardinality(UnitsOf(f, us))

Ends(c) == call' = [call EXCEPT ![c] = NoCall]

\* A script has run: its answer arrives or go-redis gives up, or the answer is
\* lost and the same script, with the same arguments, is yet to run again.
Answered(c) == Ends(c) \/ UNCHANGED call
Postgres == <<seats, booked>>
Redis == <<expiry, held>>
World == <<clock, damage>>
-----------------------------------------------------------------------------
\* createHold has checked its input, seats > 0, and read the seats left from
\* Postgres.
BeginHold(c) ==
  /\ call[c] = NoCall
  /\ \E u \in Users, n \in 1..Total :
       call' = [call EXCEPT ![c] =
                  [pc |-> "now", user |-> u, want |-> n, cap |-> seats, now |-> 0]]
  /\ UNCHANGED <<Postgres, Redis, World, granted>>

\* Acquire reads the replica's clock, and sends the script off with it.
ReadClock(c) ==
  /\ call[c].pc = "now"
  /\ call' = [call EXCEPT ![c].pc = "acquire", ![c].now = clock]
  /\ UNCHANGED <<Postgres, Redis, World, granted>>

\* What the script purges when it runs with ARGV[1] = now.
Expired(now) == {u \in Users : expiry[u] # 0 /\ expiry[u] <= now}

\* Faulty variant of Purged: the purge forgets the key.
PurgedNot(f, now) == f
\* ... and what it leaves of one of the two keys.
Purged(f, now) == [u \in Users |-> IF u \in Expired(now) THEN 0 ELSE f[u]]

\* Faulty variant of OthersHeld: the sum forgets the others.
OnlyOwn(u, now) == 0
\* The sum over HGETALL, without the caller's own hold.
OthersHeld(u, now) == SumOf(Purged(held, now), Users \ {u})

\* Faulty variant of HSet: HINCRBY.
HIncrBy(f, u, n) == [f EXCEPT ![u] = @ + n]
\* HSET replaces what the user held before.
HSet(f, u, n) == [f EXCEPT ![u] = n]

\* acquireScript reserves, with the seats and the time the call brought along.
Acquire(c) ==
  LET u == call[c].user
      n == call[c].want
      now == call[c].now
  IN  /\ call[c].pc = "acquire"
      /\ Cardinality(Expired(now)) <= UnpackLimit
      /\ OthersHeld(u, now) + n <= call[c].cap
      /\ expiry' = [Purged(expiry, now) EXCEPT ![u] = now + Ttl]
      /\ held' = HSet(Purged(held, now), u, n)
      /\ granted' = [granted EXCEPT ![u] = [seats |-> n, until |-> now + Ttl]]
      /\ Answered(c)
      /\ UNCHANGED <<Postgres, World>>

\* acquireScript denies, having purged: 409.
Deny(c) ==
  LET now == call[c].now
  IN  /\ call[c].pc = "acquire"
      /\ Cardinality(Expired(now)) <= UnpackLimit
      /\ OthersHeld(call[c].user, now) + call[c].want > call[c].cap
      /\ expiry' = Purged(expiry, now)
      /\ held' = Purged(held, now)
      /\ Answered(c)
      /\ UNCHANGED <<Postgres, World, granted>>

\* More expired holds than unpack can return: the script stops with an error
\* between ZREMRANGEBYSCORE and HDEL, and what it has done stays done.
UnpackFails(c) ==
  LET now == call[c].now
  IN  /\ call[c].pc = "acquire"
      /\ Cardinality(Expired(now)) > UnpackLimit
      /\ expiry' = Purged(expiry, now)
      /\ damage' = IF damage = "none" THEN "script" ELSE damage
      /\ Answered(c)
      /\ UNCHANGED <<Postgres, held, clock, granted>>
-----------------------------------------------------------------------------
Releasing(u) == [pc |-> "zrem", user |-> u, want |-> 0, cap |-> 0, now |-> 0]

\* releaseHold.
BeginRelease(c) ==
  /\ call[c] = NoCall
  /\ \E u \in Users : call' = [call EXCEPT ![c] = Releasing(u)]
  /\ UNCHANGED <<Postgres, Redis, World, granted>>

\* bookEvent: Store.Book, which knows nothing of holds, has booked, and the
\* handler goes on to release the user's hold.
Book(c) ==
  /\ call[c] = NoCall
  /\ \E u \in Users, n \in 1..seats :
       /\ booked[u] = 0
       /\ booked' = [booked EXCEPT ![u] = n]
       /\ seats' = seats - n
       /\ call' = [call EXCEPT ![c] = Releasing(u)]
  /\ UNCHANGED <<Redis, World, granted>>

\* The pipeline's ZREM.  A pipeline that broke between its two commands may
\* be sent again.
ZRem(c) == /\ call[c].pc \in {"zrem", "hdel"}
           /\ expiry' = [expiry EXCEPT ![call[c].user] = 0]
           /\ call' = [call EXCEPT ![c].pc = "hdel"]
           /\ UNCHANGED <<Postgres, held, World, granted>>

\* Faulty variant of HDel: Release drops the expiry only.
ZRemOnly(c) == /\ call[c].pc = "hdel"
               /\ granted' = [granted EXCEPT ![call[c].user] = NoGrant]
               /\ Ends(c)
               /\ UNCHANGED <<Postgres, Redis, World>>

\* The pipeline's HDEL, with which Release is done.  Should its answer be lost
\* and the pipeline sent again, that is the same as a BeginRelease.
HDel(c) == /\ call[c].pc = "hdel"
           /\ held' = [held EXCEPT ![call[c].user] = 0]
           /\ granted' = [granted EXCEPT ![call[c].user] = NoGrant]
           /\ Ends(c)
           /\ UNCHANGED <<Postgres, expiry, World>>

\* Redis cannot be reached, the request's context ends, go-redis
\* gives up, or the replica dies.  What a script that ran has done stays done.
Fails(c) == /\ call[c].pc \in {"now", "acquire", "zrem"}
            /\ Ends(c)
            /\ UNCHANGED <<Postgres, Redis, World, granted>>

\* Faulty variant of Cancel: the row of the booking stays.
CancelKeepsBooking == /\ \E u \in Users : /\ booked[u] > 0
                                          /\ seats' = seats + booked[u]
                      /\ UNCHANGED <<booked, Redis, World, call, granted>>

\* cancelBooking, when the freed seats are not promoted away.
Cancel == /\ \E u \in Users : /\ booked[u] > 0
                              /\ seats' = seats + booked[u]
                              /\ booked' = [booked EXCEPT ![u] = 0]
          /\ UNCHANGED <<Redis, World, call, granted>>

Tick == /\ clock < MaxClock
        /\ clock' = clock + 1
        /\ UNCHANGED <<Postgres, Redis, call, granted, damage>>
-----------------------------------------------------------------------------
\* What Redis and the connection to it may do to a key.
Fault == damage' = "keys" /\ UNCHANGED <<Postgres, clock, granted>>

\* allkeys-lru evicts one of the two keys (docker-compose.yml:62-63).
EvictExpiries == /\ Fault
                 /\ \E u \in Users : expiry[u] # 0
                 /\ expiry' = [u \in Users |-> 0]
                 /\ UNCHANGED <<held, call>>

EvictSeats == /\ Fault
              /\ \E u \in Users : held[u] # 0
              /\ held' = [u \in Users |-> 0]
              /\ UNCHANGED <<expiry, call>>

\* The connection breaks between the two commands of the pipeline.
ReleaseBreaks(c) == /\ Fault
                    /\ call[c].pc = "hdel"
                    /\ Ends(c)
                    /\ UNCHANGED Redis

Serve(c) == \/ BeginHold(c) \/ ReadClock(c) \/ Acquire(c) \/ Deny(c)
            \/ UnpackFails(c) \/ BeginRelease(c) \/ Book(c) \/ ZRem(c) \/ HDel(c) \/ Fails(c)

Next == \/ \E c \in Calls : Serve(c) \/ ReleaseBreaks(c)
        \/ Cancel \/ Tick \/ EvictExpiries \/ EvictSeats

Spec == Init /\ [][Next]_vars
-----------------------------------------------------------------------------
TypeOK == /\ seats \in Amounts
          /\ booked \in [Users -> Amounts]
          /\ expiry \in [Users -> Times]
          /\ held \in [Users -> Amounts]
          /\ clock \in 0..MaxClock
          /\ call \in [Calls -> Call \cup {NoCall}]
          /\ granted \in [Users -> Grant]
          /\ damage \in Damages

\* The users whose hold has not expired at `now'.
Holders(now) == {u \in Users : granted[u].until > now}
BeingReleased == {call[c].user : c \in {d \in Calls : call[d].pc = "hdel"}}
Promised == [u \in Users |-> granted[u].seats]

\* No seat is held twice: the holds reserved last for their users, and that have
\* neither expired nor been released, fit into the event, whatever replicas
\* reserved them and whether or not they could say so (holds.go:94-115), as long
\* as Redis keeps what it was given.  (A user whose later request was never
\* answered has what that one reserved, not what they were told before.)
NeverOverheld == damage # "keys" => SumOf(Promised, Holders(clock)) <= Total

\* Whatever becomes of the keys, the seats counted as held are never more than
\* were on sale: the script's check and its write cannot come apart.
CountFits == SumOf(held, Users) <= Total

\* A hold that blocks others has an expiry, unless a Release is about to
\* remove it: abandoned seats come back by themselves (holds.go:17-24).
Lapsing == \A u \in Users : held[u] # 0 => expiry[u] # 0 \/ u \in BeingReleased

\* It is so as long as Redis keeps what it was given and runs the script to its
\* end.
HeldSeatsExpire == damage = "none" => Lapsing

\* A user is denied seats only because of the bookings and of holds that have
\* not expired or are being released: "leaked seat locks mean an event that shows
\* as sold out while being half empty" (holds.go:18-19).
DeniedByLiveHolds ==
  [][\A c \in Calls :
       damage = "none" /\ call[c].pc = "acquire" /\ Deny(c) =>
         SumOf(Promised, (Holders(call[c].now) \cup BeingReleased) \ {call[c].user})
           + call[c].want > call[c].cap]_vars

\* "the reservation expires on its own" (holds.go:20), however many of them there
\* are, as long as Redis keeps what it was given.
SeatsComeBack == damage # "keys" => Lapsing

\* A hold "blocks other people from taking those seats" (holds.go:11): what those
\* hold who have yet to book is still there to be booked.
HoldsKeepSeats == SumOf(Promised, {u \in Holders(clock) : booked[u] = 0}) <= seats
=============================================================================
