---------------------------- MODULE Notifications ----------------------------
(***************************************************************************)
(* internal/handlers/handlers.go, internal/notify/notify.go and            *)
(* cmd/notifier/main.go: what bookEvent and cancelBooking tell the users   *)
(* whose place changed, through an RPC nobody waits for and a notifier     *)
(* that drops the keys it has seen.                                        *)
(*                                                                         *)
(* The store is the ledger.  Its queue is left without an order (all       *)
(* stamps are equal): who is promoted first makes no difference here.      *)
(* Releasing holds is left to SeatHolds.                                   *)
(***************************************************************************)
EXTENDS SeatRows

CONSTANTS Calls,       \* concurrent requests, on all replicas
          MaxRepeats,  \* bound on how often the same may happen to a user
          MaxOutcomes  \* bound on the outcomes of a behaviour

ASSUME RepeatAssumption == MaxRepeats \in Nat /\ MaxOutcomes \in Nat

VARIABLES capacity, seats, bookings, waitlist,   \* the store
          happened,  \* outcomes the store has committed (history)
          call,      \* Calls: what the handler has still to tell
          wire,      \* RPCs under way, in the goroutines of Send
          seen,      \* keys the notifier remembers
          emailed,   \* outcomes the notifier sent an email for (history)
          lost       \* outcomes given up after a failure (history)

store == <<capacity, seats, bookings, waitlist>>
vars == <<store, happened, call, wire, seen, emailed, lost>>

Store == INSTANCE BookingLedger WITH Stamps <- {0}

Types == {"confirmed", "waitlisted", "promoted"}
KeyOf == [event : Events, user : Users, type : Types]

\* The n-th time that this happened to the user.
Outcome == [event : Events, user : Users, type : Types, n : 1..MaxRepeats]

\* notify.Key
Key(o) == [event |-> o.event, user |-> o.user, type |-> o.type]

Idle == [pc |-> "idle", news |-> {}]
Call == [pc : {"idle", "get", "tell"}, news : SUBSET Outcome]

Init == /\ Store!Init
        /\ happened = {}
        /\ call = [c \in Calls |-> Idle]
        /\ wire = {} /\ seen = {} /\ emailed = {} /\ lost = {}
-----------------------------------------------------------------------------
CreateEvent(e, n) ==
  /\ Store!Create(e, n)
  /\ UNCHANGED <<happened, call, wire, seen, emailed, lost>>

Before(key) == {o \in happened : Key(o) = key}
Fresh(key) == [event |-> key.event, user |-> key.user, type |-> key.type,
               n |-> Cardinality(Before(key)) + 1]

\* The store has committed; the handler has these outcomes to tell.
Announce(c, keys) ==
  LET news == {Fresh(key) : key \in keys}
  IN  /\ call[c].pc = "idle"
      /\ news \subseteq Outcome
      /\ Cardinality(happened \cup news) <= MaxOutcomes
      /\ happened' = happened \cup news
      /\ call' = [call EXCEPT ![c] = IF news = {} THEN Idle ELSE [pc |-> "get", news |-> news]]
      /\ UNCHANGED <<wire, seen, emailed, lost>>

Told(e, u, type) == [event |-> e, user |-> u, type |-> type]

\* Faulty variant of Replay: the place that is there is announced again.
ReplayAnnounces(c, e, u) ==
  /\ call[c].pc = "idle"
  /\ \E o \in happened : o.event = e /\ o.user = u
                         /\ call' = [call EXCEPT ![c] = [pc |-> "get", news |-> {o}]]
  /\ ~Store!Newcomer(e, u)
  /\ UNCHANGED <<store, happened, wire, seen, emailed, lost>>

\* The user has a place: "they were already told the first time".
Replay(c, e, u) == call[c].pc = "idle" /\ ~Store!Newcomer(e, u) /\ UNCHANGED vars

BookEvent(c, e, u) ==
  \/ \E n \in Wants :
       \/ Store!Book(e, u, n) /\ Announce(c, {Told(e, u, "confirmed")})
       \/ Store!Enqueue(e, u, n, 0) /\ Announce(c, {Told(e, u, "waitlisted")})
  \/ Replay(c, e, u)

CancelBooking(c, e, u) ==
  \E b \in RowsFor(bookings, e, u), promoted \in SUBSET RowsOf(waitlist, e) :
    /\ Store!Cancel(e, b, promoted)
    /\ Announce(c, {Told(e, w.user, "promoted") : w \in promoted})
-----------------------------------------------------------------------------
Working(c, pc) == call[c].pc = pc /\ UNCHANGED <<store, happened, seen, emailed>>

\* Store.Get, for the event's name.
GetEvent(c) == /\ Working(c, "get")
               /\ call' = [call EXCEPT ![c].pc = "tell"]
               /\ UNCHANGED <<wire, lost>>

\* Faulty variant of GiveUp: the outcomes stay with the call.
GiveUpKeepsNews(c) == /\ lost' = lost \cup call[c].news
                      /\ call' = [call EXCEPT ![c].pc = "idle"]
                      /\ UNCHANGED wire

GiveUp(c) == /\ lost' = lost \cup call[c].news
             /\ call' = [call EXCEPT ![c] = Idle]
             /\ UNCHANGED wire

\* The event cannot be read: nobody is told, and the request succeeds.  Or the
\* answer to COMMIT is lost, and with it the store's result.
GetEventFails(c) == Working(c, "get") /\ GiveUp(c)

\* The replica dies while the handler tells.  If it dies before, after the
\* commit, the effect is that of GetEventFails.
CallDies(c) == Working(c, "tell") /\ GiveUp(c)

\* On to the next user; after the last one the request is answered.
Continue(c, o) ==
  /\ Working(c, "tell")
  /\ o \in call[c].news
  /\ call' = [call EXCEPT ![c] = IF call[c].news = {o} THEN Idle
                                ELSE [pc |-> "tell", news |-> call[c].news \ {o}]]

\* GetUserByID, then Send, which starts a goroutine with a context of its own
\* and returns.
Send(c, o) == Continue(c, o) /\ wire' = wire \cup {o} /\ UNCHANGED lost

\* Faulty variant of LookupFails: the loop returns.
LookupAborts(c, o) == /\ Working(c, "tell")
                      /\ o \in call[c].news
                      /\ call' = [call EXCEPT ![c] = Idle]
                      /\ lost' = lost \cup {o}
                      /\ UNCHANGED wire

\* GetUserByID fails: this user is not told, and the loop continues.
LookupFails(c, o) == Continue(c, o) /\ lost' = lost \cup {o} /\ UNCHANGED wire

Handler(c) == \/ GetEvent(c) \/ GetEventFails(c) \/ CallDies(c)
              \/ \E o \in call[c].news : Send(c, o) \/ LookupFails(c, o)
-----------------------------------------------------------------------------
Arrives(o) == o \in wire /\ wire' = wire \ {o} /\ UNCHANGED <<store, happened, call, lost>>

\* SendNotification, under the mutex.
SendEmail(o) == /\ Arrives(o)
                /\ Key(o) \notin seen
                /\ seen' = seen \cup {Key(o)}
                /\ emailed' = emailed \cup {o}

\* The key was seen: answered like a delivery.
Deduplicate(o) == /\ Arrives(o)
                  /\ Key(o) \in seen
                  /\ UNCHANGED <<seen, emailed>>

\* The RPC never gets there, or is refused: no notifier, the timeout, or Close
\* while the process stops.  If only its answer is lost, the notifier has done
\* its part, and the client's log line is all that is different.
RpcFails(o) == /\ o \in wire
               /\ wire' = wire \ {o}
               /\ lost' = lost \cup {o}
               /\ UNCHANGED <<store, happened, call, seen, emailed>>

\* The keys are kept in memory.
NotifierRestarts == /\ seen # {}
                    /\ seen' = {}
                    /\ UNCHANGED <<store, happened, call, wire, emailed, lost>>

Rpc(o) == SendEmail(o) \/ Deduplicate(o) \/ RpcFails(o)

Next == \/ \E e \in Events, n \in Capacities : CreateEvent(e, n)
        \/ \E c \in Calls, e \in Events, u \in Users :
             BookEvent(c, e, u) \/ CancelBooking(c, e, u)
        \/ \E c \in Calls : Handler(c)
        \/ \E o \in wire : Rpc(o)
        \/ NotifierRestarts

Spec == Init /\ [][Next]_vars
-----------------------------------------------------------------------------
TypeOK == /\ Store!TypeOK
          /\ happened \subseteq Outcome
          /\ call \in [Calls -> Call]
          /\ \A c \in Calls : call[c].pc = "idle" <=> call[c].news = {}
          /\ wire \subseteq happened
          /\ seen \subseteq KeyOf
          /\ emailed \subseteq happened /\ lost \subseteq happened

Pending == wire \cup UNION {call[c].news : c \in Calls}

\* A replay is not announced, so an outcome that was emailed, or given up, is
\* never on its way again, and no two calls tell of the same: "Sending again
\* would mean an email per retry" (handlers.go:103-106).  The notifier's memory is
\* no help here, it ends with a restart.
NeverToldTwice ==
  /\ Pending \cap (emailed \cup lost) = {}
  /\ \A c, d \in Calls : c # d => call[c].news \cap call[d].news = {}
  /\ \A c \in Calls : call[c].news \cap wire = {}

\* Nothing the store committed is forgotten: it is being told, or was given up
\* because its own telling failed, or an email for its key went out, also when the
\* answer was written long before the RPC ends, and when another user of the same
\* cancellation cannot be looked up (handlers.go:494-513, notify.go:142-196).
NothingForgotten ==
  \A o \in happened : o \in Pending \cup lost \/ \E p \in emailed : Key(p) = Key(o)

\* What the notifier drops is "A RETRY" (cmd/notifier/main.go:96): the user got an
\* email for this very outcome.
DropsOnlyRepeats == [][\A o \in wire : Deduplicate(o) => o \in emailed]_vars
=============================================================================
