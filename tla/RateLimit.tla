----------------------------- MODULE RateLimit -----------------------------
(***************************************************************************)
(* internal/ratelimit/ratelimit.go: one client's counters of one limiter.  *)
(*                                                                         *)
(* Allow sends INCR, EXPIRE and TTL in a pipeline, which is not a          *)
(* transaction: commands of other requests run in between, and the         *)
(* connection can break after any of them.  go-redis then sends the whole  *)
(* pipeline again, so one request may count more than once.  A window has  *)
(* a key of its own.  Time is one clock for all replicas and Redis.        *)
(***************************************************************************)
EXTENDS Integers, FiniteSets

CONSTANTS Calls,        \* requests of the client being served, on all replicas
          Limit,        \* requests allowed per window
          Window,       \* length of a window
          Retries,      \* how often go-redis sends a failed pipeline again
          MaxRequests,  \* bound on the requests begun in one window
          MaxClock      \* bound on the time

ASSUME RateAssumption ==
  /\ IsFiniteSet(Calls)
  /\ Limit \in Nat /\ Window \in Nat \ {0} /\ Retries \in Nat
  /\ MaxRequests \in Nat /\ MaxClock \in Nat

VARIABLES clock,    \* time.Now() and the clock of Redis
          count,    \* value of the key rl:<prefix>:<ip>:<window>; 0: no such key
          expiry,   \* when that key expires; 0: it has no TTL
          call,     \* what each request does next, and its answer
          evicted,  \* windows whose key Redis evicted while it lasted (history)
          begun,    \* requests begun in each window (history)
          passed    \* requests let through of those counted in each window
                    \* while it lasted, and within the limit (history)

vars == <<clock, count, expiry, call, evicted, begun, passed>>

Windows == 0..MaxClock
EndOf(w) == (w + 1) * Window
Lasts(w) == clock < EndOf(w)

\* got     what INCR returned; timely: it ran while the window lasted
\* tries   pipelines sent so far
\* told    the answer: 0 if let through, else how long to wait (Retry-After)
Call == [pc : {"idle", "incr", "expire", "ttl", "repair"}, win : Windows, got : Nat,
         timely : BOOLEAN, tries : 1..Retries + 1, told : Nat]
NoCall == [pc |-> "idle", win |-> 0, got |-> 0, timely |-> FALSE, tries |-> 1,
           told |-> 0]

Init == /\ clock = 0
        /\ count = [w \in Windows |-> 0]
        /\ expiry = [w \in Windows |-> 0]
        /\ call = [c \in Calls |-> NoCall]
        /\ evicted = {}
        /\ begun = [w \in Windows |-> 0]
        /\ passed = [w \in Windows |-> 0]

\* The key as Redis sees it: an expired one is not there.
Exists(w) == count[w] > 0 /\ (expiry[w] = 0 \/ clock < expiry[w])
History == <<evicted, begun, passed>>
-----------------------------------------------------------------------------
\* Faulty variant of WindowNum: one key for ever.
OneKey == 0
\* windowNum
WindowNum == clock \div Window

\* Middleware and Allow: the pipeline is sent.
Begin(c) ==
  LET w == WindowNum
  IN  /\ call[c].pc = "idle"
      /\ begun[clock \div Window] < MaxRequests
      /\ begun' = [begun EXCEPT ![clock \div Window] = @ + 1]
      /\ call' = [call EXCEPT ![c] = [NoCall EXCEPT !.pc = "incr", !.win = w]]
      /\ UNCHANGED <<clock, count, expiry, evicted, passed>>

\* INCR, which makes a key without a TTL if there is none.
Incr(c) ==
  LET w == call[c].win
      n == IF Exists(w) THEN count[w] + 1 ELSE 1
  IN  /\ call[c].pc = "incr"
      /\ count' = [count EXCEPT ![w] = n]
      /\ expiry' = [expiry EXCEPT ![w] = IF Exists(w) THEN @ ELSE 0]
      /\ call' = [call EXCEPT ![c].pc = "expire", ![c].got = n, ![c].timely = Lasts(w)]
      /\ UNCHANGED <<clock, History>>

\* What EXPIRE is given.
Lifetime == Window

\* Faulty variant of Refreshed: SET ... EX, key or no key.
RefreshedAnyway(w) == [expiry EXCEPT ![w] = clock + Lifetime]
\* EXPIRE: a key that is not there stays so.
Refreshed(w) == [expiry EXCEPT ![w] = IF Exists(w) THEN clock + Lifetime ELSE @]
Expire(c) ==
  /\ call[c].pc = "expire"
  /\ expiry' = Refreshed(call[c].win)
  /\ call' = [call EXCEPT ![c].pc = "ttl"]
  /\ UNCHANGED <<clock, count, History>>

\* What TTL returns: -2 without a key, -1 without an expiry.
TtlOf(w) == IF ~Exists(w) THEN -2 ELSE IF expiry[w] = 0 THEN -1 ELSE expiry[w] - clock

\* Faulty variant of Admits: one request too many.
AdmitsOneMore(n) == n <= Limit + 1
\* The verdict.
Admits(n) == n <= Limit

\* A request is let through; Redis counted it while its window lasted, or not.
LetThrough(c) ==
  LET k == call[c]
  IN  passed' = [passed EXCEPT ![k.win] = IF Admits(k.got) /\ k.timely THEN @ + 1 ELSE @]

\* Allow returns and Middleware answers; resetIn is rounded up.
Answer(c, pc, resetIn) ==
  LET k == call[c]
      ok == Admits(k.got)
  IN  /\ call' = [call EXCEPT ![c] = [NoCall EXCEPT !.pc = pc, !.win = k.win,
                                     !.told = IF ok THEN 0 ELSE resetIn + 1]]
      /\ IF ok THEN LetThrough(c) ELSE UNCHANGED passed

\* Faulty variant of ResetIn: what TTL said, whatever it was.
ResetAsRead(ttl) == IF ttl < 0 THEN 0 ELSE ttl
\* resetIn
ResetIn(ttl) == IF ttl < 0 THEN Window ELSE ttl

\* TTL answers, and with it the pipeline; without a TTL there is a repair to do.
Ttl(c) ==
  LET ttl == TtlOf(call[c].win)
  IN  /\ call[c].pc = "ttl"
      /\ Answer(c, IF ttl < 0 THEN "repair" ELSE "idle", ResetIn(ttl))
      /\ UNCHANGED <<clock, count, expiry, evicted, begun>>

\* The repair: an EXPIRE whose error nobody looks at.
Repair(c) ==
  /\ call[c].pc = "repair"
  /\ expiry' \in {expiry, Refreshed(call[c].win)}
  /\ call' = [call EXCEPT ![c].pc = "idle"]
  /\ UNCHANGED <<clock, count, History>>
-----------------------------------------------------------------------------
Sending == {"incr", "expire", "ttl"}

\* The connection breaks or is too slow, and go-redis sends the pipeline again.
Retry(c) ==
  /\ call[c].pc \in Sending
  /\ call[c].tries <= Retries
  /\ call' = [call EXCEPT ![c].pc = "incr", ![c].tries = @ + 1]
  /\ UNCHANGED <<clock, count, expiry, History>>

\* Exec returns an error, and the request is let through whether or not its INCR
\* ran, in this pipeline or in one sent before.
FailOpen(c) ==
  /\ call[c].pc \in Sending
  /\ call' = [call EXCEPT ![c] = NoCall]
  /\ LetThrough(c)
  /\ UNCHANGED <<clock, count, expiry, evicted, begun>>

\* The replica dies, and the request with it.
Dies(c) ==
  /\ call[c].pc \in Sending \cup {"repair"}
  /\ call' = [call EXCEPT ![c] = NoCall]
  /\ UNCHANGED <<clock, count, expiry, History>>

\* Redis evicts a key, or loses it in a restart.
Evict(w) ==
  /\ Exists(w)
  /\ count' = [count EXCEPT ![w] = 0]
  /\ expiry' = [expiry EXCEPT ![w] = 0]
  /\ evicted' = IF Lasts(w) THEN evicted \cup {w} ELSE evicted
  /\ UNCHANGED <<clock, call, begun, passed>>

Tick == /\ clock < MaxClock
        /\ clock' = clock + 1
        /\ UNCHANGED <<count, expiry, call, History>>

Next == \/ \E c \in Calls : \/ Begin(c) \/ Incr(c) \/ Expire(c) \/ Ttl(c) \/ Repair(c)
                            \/ Retry(c) \/ FailOpen(c) \/ Dies(c)
        \/ \E w \in Windows : Evict(w)
        \/ Tick

Spec == Init /\ [][Next]_vars
-----------------------------------------------------------------------------
\* Counters, deadlines and the requests' states have their types; a counter
\* without a key has no deadline.
TypeOK == /\ clock \in 0..MaxClock
          /\ count \in [Windows -> Nat] /\ expiry \in [Windows -> Nat]
          /\ call \in [Calls -> Call]
          /\ evicted \subseteq Windows
          /\ begun \in [Windows -> Nat] /\ passed \in [Windows -> Nat]
          /\ \A w \in Windows : count[w] = 0 => expiry[w] = 0

\* Limiter's "N requests per window, per key", whatever replicas the requests
\* go to and however their pipelines interleave, break and are sent again: of
\* the requests counted before the window ended, at most Limit are let through,
\* unless Redis lost the counter.  What an error lets through uses up the limit
\* like the rest; only a request that is let through on an error although its
\* count was beyond the limit comes on top (ratelimit.go:111-124).
WithinLimit == \A w \in Windows \ evicted : passed[w] <= Limit

\* The key embeds the window number so that nobody pays for the past: whoever is
\* refused has begun enough requests in that very window, each of them counted
\* once per pipeline sent.
RefusedForThisWindow ==
  \A c \in Calls : call[c].told > 0 => begun[call[c].win] * (Retries + 1) > Limit

\* Retry-After: who waits as long as told finds the window over, even when the
\* counter lost its TTL, or was lost, while the pipeline ran.
WaitIsEnough ==
  \A c \in Calls : call[c].told > 0 => clock + call[c].told > EndOf(call[c].win)
=============================================================================
