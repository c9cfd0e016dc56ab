------------------------- MODULE NotificationsProofs -------------------------
(***************************************************************************)
(* For any number of users, requests and outcomes: nobody is told the same *)
(* outcome twice, and no outcome is forgotten.                             *)
(*                                                                         *)
(* An outcome is named by its key and by how often the key came up before, *)
(* so the argument needs that this name is new when the store commits:     *)
(* no outcome's number exceeds the number of outcomes with its key.        *)
(***************************************************************************)
EXTENDS Notifications, FiniteSetTheorems, TLAPS

\* Of the ledger's proofs only what does not read the map-based store's clock.
LedgerProofs == INSTANCE BookingLedgerProofs WITH Stamps <- {0}, clock <- 0

Shapes ==
  /\ happened \subseteq Outcome
  /\ call \in [Calls -> Call]
  /\ \A c \in Calls : call[c].pc = "idle" <=> call[c].news = {}
  /\ \A c \in Calls : call[c].news \subseteq happened
  /\ wire \subseteq happened /\ emailed \subseteq happened /\ lost \subseteq happened

\* Outcomes are numbered from 1, key by key.
Numbered ==
  /\ \A key \in KeyOf : IsFiniteSet(Before(key))
  /\ \A o \in happened : o.n <= Cardinality(Before(Key(o)))

\* A key is remembered because of an email.
SeenEmailed == \A k \in seen : \E p \in emailed : Key(p) = k

NotifyInv == Shapes /\ Numbered /\ SeenEmailed /\ NeverToldTwice /\ NothingForgotten

LEMMA InitNotify == Init => NotifyInv
<1> SUFFICES ASSUME Init PROVE NotifyInv
  OBVIOUS
<1> USE DEF Init
<1>1. Shapes
  BY DEF Shapes, Idle, Call
<1>2. Numbered
  BY FS_EmptySet DEF Numbered, Before
<1>3. SeenEmailed /\ NothingForgotten
  BY DEF SeenEmailed, NothingForgotten
<1>4. NeverToldTwice
  BY DEF NeverToldTwice, Pending, Idle
<1> QED  BY <1>1, <1>2, <1>3, <1>4 DEF NotifyInv

\* The outcome a key stands for is one that has not happened.
LEMMA FreshIsNew ==
  ASSUME Numbered, Shapes, NEW key \in KeyOf
  PROVE  Key(Fresh(key)) = key /\ Fresh(key) \notin happened
<1>1. Key(Fresh(key)) = key /\ Fresh(key).n = Cardinality(Before(key)) + 1
  BY DEF Key, Fresh, KeyOf
<1>2. Cardinality(Before(key)) \in Nat
  BY FS_CardinalityType DEF Numbered
<1> QED  BY <1>1, <1>2 DEF Numbered

\* The store commits and the call takes over what there is to tell.
LEMMA AnnounceNotify ==
  ASSUME NotifyInv, NEW c \in Calls, NEW keys \in SUBSET KeyOf, Announce(c, keys)
  PROVE  NotifyInv'
<1> DEFINE news == {Fresh(key) : key \in keys}
           new == IF news = {} THEN Idle ELSE [pc |-> "get", news |-> news]
<1> USE DEF NotifyInv
<1>1. /\ call[c].pc = "idle" /\ call[c].news = {} /\ news \subseteq Outcome
      /\ happened' = happened \cup news
      /\ call' = [call EXCEPT ![c] = new]
      /\ UNCHANGED <<wire, seen, emailed, lost>>
  BY DEF Announce, Shapes
<1>2. news \cap happened = {} /\ \A key \in keys : Key(Fresh(key)) = key
  BY FreshIsNew
<1>3. new.news = news /\ new \in Call /\ (new.pc = "idle" <=> news = {})
  BY <1>1 DEF Idle, Call
<1> HIDE DEF new
<1>4. call'[c].news = news /\ \A d \in Calls \ {c} : call'[d] = call[d]
  BY <1>1, <1>3 DEF Shapes
<1>5. Shapes'
  BY <1>1, <1>3, <1>4 DEF Shapes
<1>6. Numbered'
  <2>1. ASSUME NEW key \in KeyOf
        PROVE  /\ IsFiniteSet(Before(key)')
               /\ Cardinality(Before(key)') >= Cardinality(Before(key))
               /\ key \in keys => Cardinality(Before(key)') = Cardinality(Before(key)) + 1
    <3>1. IsFiniteSet(Before(key)) /\ Cardinality(Before(key)) \in Nat
      BY FS_CardinalityType DEF Numbered
    <3>2. CASE key \in keys
      <4>1. Before(key)' = Before(key) \cup {Fresh(key)} /\ Fresh(key) \notin Before(key)
        BY <1>1, <1>2, <3>2 DEF Before
      <4>2. /\ IsFiniteSet(Before(key) \cup {Fresh(key)})
            /\ Cardinality(Before(key) \cup {Fresh(key)}) = Cardinality(Before(key)) + 1
        BY <3>1, <4>1, FS_AddElement
      <4> QED  BY <3>1, <4>1, <4>2
    <3>3. CASE key \notin keys
      <4>1. Before(key)' = Before(key)
        BY <1>1, <1>2, <3>3 DEF Before
      <4> QED  BY <3>1, <3>3, <4>1
    <3> QED  BY <3>2, <3>3
  <2>2. ASSUME NEW o \in happened'
        PROVE  o.n <= Cardinality(Before(Key(o))')
    <3>1. CASE o \in happened
      <4>1. Key(o) \in KeyOf /\ o.n \in Nat
        BY <3>1 DEF Shapes, Outcome, Key, KeyOf
      <4>2. /\ Cardinality(Before(Key(o))) \in Nat /\ Cardinality(Before(Key(o))') \in Nat
            /\ o.n <= Cardinality(Before(Key(o)))
        BY <2>1, <3>1, <4>1, FS_CardinalityType DEF Numbered
      <4> QED  BY <2>1, <4>1, <4>2
    <3>2. CASE o \in news
      <4>1. PICK key \in keys : o = Fresh(key)
        BY <3>2
      <4>2. Key(o) = key /\ o.n = Cardinality(Before(key)) + 1
        BY <1>2, <4>1 DEF Fresh
      <4>3. Cardinality(Before(key)) \in Nat
        BY FS_CardinalityType DEF Numbered
      <4> QED  BY <2>1, <4>2, <4>3
    <3> QED  BY <1>1, <3>1, <3>2
  <2> QED  BY <2>1, <2>2 DEF Numbered, Key
<1>7. SeenEmailed'
  BY <1>1 DEF SeenEmailed, Key
<1>8. NeverToldTwice'
  <2>1. Pending' = Pending \cup news
    BY <1>1, <1>4 DEF Pending
  <2>2. Pending' \cap (emailed' \cup lost') = {}
    BY <1>1, <1>2, <2>1 DEF NeverToldTwice, Shapes
  <2>3. \A d \in Calls : call'[d].news \cap wire' = {}
    BY <1>1, <1>2, <1>4 DEF NeverToldTwice, Shapes
  <2>4. \A d, e \in Calls : d # e => call'[d].news \cap call'[e].news = {}
    BY <1>2, <1>4 DEF NeverToldTwice, Shapes
  <2> QED  BY <2>2, <2>3, <2>4 DEF NeverToldTwice
<1>9. NothingForgotten'
  <2>1. Pending' = Pending \cup news
    BY <1>1, <1>4 DEF Pending
  <2> QED  BY <1>1, <2>1 DEF NothingForgotten, Key
<1> QED  BY <1>5, <1>6, <1>7, <1>8, <1>9

\* Steps that commit nothing: outcomes leave what a call has to tell, in part or
\* all at once, for the wire or for the lost.
LEMMA TellNotify ==
  ASSUME NotifyInv, NEW c \in Calls, NEW new \in Call, NEW sent, NEW dropped,
         call' = [call EXCEPT ![c] = new],
         new.pc = "idle" <=> new.news = {},
         call[c].news = new.news \cup sent \cup dropped,
         new.news \cap (sent \cup dropped) = {}, sent \cap dropped = {},
         wire' = wire \cup sent, lost' = lost \cup dropped,
         UNCHANGED <<happened, seen, emailed>>
  PROVE  NotifyInv'
<1> USE DEF NotifyInv
<1>1. call'[c] = new /\ \A d \in Calls \ {c} : call'[d] = call[d]
  BY DEF Shapes
<1>2. Shapes'
  BY <1>1 DEF Shapes
<1>3. Numbered' /\ SeenEmailed'
  BY DEF Numbered, SeenEmailed, Before, Key
<1>4. Pending \subseteq Pending' \cup dropped /\ Pending' \subseteq Pending
  BY <1>1 DEF Pending
<1>5. Pending' \cap dropped = {}
  <2>1. dropped \cap wire = {} /\ \A d \in Calls \ {c} : call[d].news \cap dropped = {}
    BY DEF NeverToldTwice
  <2> QED  BY <1>1, <2>1 DEF Pending
<1>6. NeverToldTwice'
  <2>1. Pending' \cap (emailed' \cup lost') = {}
    BY <1>4, <1>5 DEF NeverToldTwice
  <2>2. \A d \in Calls : call'[d].news \cap wire' = {}
    BY <1>1 DEF NeverToldTwice
  <2>3. \A d, e \in Calls : d # e => call'[d].news \cap call'[e].news = {}
    BY <1>1 DEF NeverToldTwice
  <2> QED  BY <2>1, <2>2, <2>3 DEF NeverToldTwice
<1>7. NothingForgotten'
  BY <1>4 DEF NothingForgotten, Key
<1> QED  BY <1>2, <1>3, <1>6, <1>7

LEMMA HandlerNotify ==
  ASSUME NotifyInv, NEW c \in Calls, Handler(c)
  PROVE  NotifyInv'
<1> USE DEF NotifyInv
<1>1. /\ call[c] \in Call /\ call[c].news \subseteq Outcome /\ Idle \in Call
      /\ Idle.pc = "idle" /\ Idle.news = {}
  BY DEF Shapes, Call, Idle
<1>2. CASE GetEvent(c)
  <2> DEFINE new == [call[c] EXCEPT !.pc = "tell"]
  <2>1. new \in Call /\ new.pc = "tell" /\ new.news = call[c].news /\ new.news # {}
    BY <1>1, <1>2 DEF Call, GetEvent, Working, Shapes
  <2>2. call' = [call EXCEPT ![c] = new] /\ UNCHANGED <<happened, wire, seen, emailed, lost>>
    BY <1>2 DEF GetEvent, Working
  <2> HIDE DEF new
  <2>3. wire' = wire \cup {} /\ lost' = lost \cup {}
    BY <2>2
  <2> QED  BY <2>1, <2>2, <2>3, TellNotify
<1>3. CASE GetEventFails(c) \/ CallDies(c)
  <2>1. /\ call' = [call EXCEPT ![c] = Idle] /\ wire' = wire \cup {}
        /\ lost' = lost \cup call[c].news /\ UNCHANGED <<happened, seen, emailed>>
    BY <1>3 DEF GetEventFails, CallDies, GiveUp, Working
  <2> QED  BY <1>1, <2>1, TellNotify
<1>4. ASSUME NEW o \in call[c].news, Send(c, o) \/ LookupFails(c, o)  PROVE NotifyInv'
  <2> DEFINE new == IF call[c].news = {o} THEN Idle
                    ELSE [pc |-> "tell", news |-> call[c].news \ {o}]
  <2>1. call[c].pc = "tell" /\ UNCHANGED <<happened, seen, emailed>>
        /\ call' = [call EXCEPT ![c] = new]
    BY <1>4 DEF Send, LookupFails, Continue, Working
  <2>2. new \in Call /\ new.news = call[c].news \ {o} /\ (new.pc = "idle" <=> new.news = {})
    BY <1>1, <2>1 DEF Call
  <2> HIDE DEF new
  <2>3. CASE Send(c, o)
    <3>1. wire' = wire \cup {o} /\ lost' = lost \cup {}
      BY <2>3 DEF Send
    <3> QED  BY <2>1, <2>2, <3>1, TellNotify
  <2>4. CASE LookupFails(c, o)
    <3>1. wire' = wire \cup {} /\ lost' = lost \cup {o}
      BY <2>4 DEF LookupFails
    <3> QED  BY <2>1, <2>2, <3>1, TellNotify
  <2> QED  BY <1>4, <2>3, <2>4
<1> QED  BY <1>2, <1>3, <1>4 DEF Handler

\* However an RPC ends, its outcome is accounted for.
LEMMA RpcNotify ==
  ASSUME NotifyInv, NEW o \in wire, Rpc(o)
  PROVE  NotifyInv'
<1> USE DEF NotifyInv
<1>1. /\ wire' = wire \ {o} /\ UNCHANGED <<happened, call>> /\ o \in happened
      /\ emailed \subseteq emailed' /\ emailed' \subseteq emailed \cup {o}
      /\ lost \subseteq lost' /\ lost' \subseteq lost \cup {o}
  BY DEF Rpc, SendEmail, Deduplicate, RpcFails, Arrives, Shapes
<1>2. o \in lost' \/ \E p \in emailed' : Key(p) = Key(o)
  BY DEF Rpc, SendEmail, Deduplicate, RpcFails, SeenEmailed
<1>3. Shapes'
  BY <1>1 DEF Shapes
<1>4. Numbered'
  BY <1>1 DEF Numbered, Before, Key
<1>5. SeenEmailed'
  BY DEF Rpc, SendEmail, Deduplicate, RpcFails, Arrives, SeenEmailed, Key
<1>6. Pending' = Pending \ {o}
  BY <1>1 DEF Pending, NeverToldTwice
<1>7. NeverToldTwice'
  BY <1>1, <1>6 DEF NeverToldTwice
<1>8. NothingForgotten'
  <2> SUFFICES ASSUME NEW q \in happened
               PROVE  q \in Pending' \cup lost' \/ \E p \in emailed' : Key(p) = Key(q)
    BY <1>1 DEF NothingForgotten, Key
  <2> QED  BY <1>1, <1>2, <1>6 DEF NothingForgotten
<1> QED  BY <1>3, <1>4, <1>5, <1>7, <1>8

LEMMA NextNotify == NotifyInv /\ [Next]_vars => NotifyInv'
<1> SUFFICES ASSUME NotifyInv, [Next]_vars PROVE NotifyInv'
  OBVIOUS
<1>1. CASE UNCHANGED <<happened, call, wire, seen, emailed, lost>>
  BY <1>1 DEF NotifyInv, Shapes, Numbered, Before, Key, SeenEmailed, NeverToldTwice,
              NothingForgotten, Pending
<1>2. ASSUME NEW e \in Events, NEW n \in Capacities, CreateEvent(e, n)  PROVE NotifyInv'
  BY <1>1, <1>2 DEF CreateEvent
<1>3. ASSUME NEW c \in Calls, NEW e \in Events, NEW u \in Users, BookEvent(c, e, u)
      PROVE  NotifyInv'
  <2>1. \A type \in Types : {Told(e, u, type)} \in SUBSET KeyOf
    BY DEF Told, KeyOf
  <2>2. CASE Replay(c, e, u)
    BY <1>1, <2>2 DEF Replay, vars
  <2> QED  BY <1>3, <2>1, <2>2, AnnounceNotify DEF BookEvent, Types
<1>4. ASSUME NEW c \in Calls, NEW e \in Events, NEW u \in Users, CancelBooking(c, e, u)
      PROVE  NotifyInv'
  <2>1. PICK keys \in SUBSET KeyOf : Announce(c, keys)
    <3>1. PICK promoted \in SUBSET RowsOf(waitlist, e) :
            Announce(c, {Told(e, w.user, "promoted") : w \in promoted})
      BY <1>4 DEF CancelBooking
    <3>2. ASSUME NEW w \in promoted  PROVE Told(e, w.user, "promoted") \in KeyOf
      <4>1. Fresh(Told(e, w.user, "promoted")) \in Outcome
        BY <3>1 DEF Announce
      <4>2. w.user \in Users
        BY <4>1 DEF Fresh, Told, Outcome
      <4> QED  BY <4>2 DEF Told, KeyOf, Types
    <3> QED  BY <3>1, <3>2
  <2> QED  BY <2>1, AnnounceNotify
<1>5. ASSUME NEW c \in Calls, Handler(c)  PROVE NotifyInv'
  BY <1>5, HandlerNotify
<1>6. ASSUME NEW o \in wire, Rpc(o)  PROVE NotifyInv'
  BY <1>6, RpcNotify
<1>7. CASE NotifierRestarts
  BY <1>7 DEF NotifierRestarts, NotifyInv, Shapes, Numbered, Before, Key, SeenEmailed,
              NeverToldTwice, NothingForgotten, Pending
<1> QED  BY <1>1, <1>2, <1>3, <1>4, <1>5, <1>6, <1>7 DEF Next, vars

\* The invariant that carries the proof.
THEOREM NotifyInvariant == Spec => []NotifyInv
  BY InitNotify, NextNotify, PTL DEF Spec

\* An outcome that was emailed or given up is never told again, and no two
\* requests tell of the same one.
THEOREM NobodyToldTwice == Spec => []NeverToldTwice
<1>1. NotifyInv => NeverToldTwice
  BY DEF NotifyInv
<1> QED  BY <1>1, NotifyInvariant, PTL

\* Every outcome the store committed is being told, was given up, or had its key
\* emailed.
THEOREM OutcomesAccounted == Spec => []NothingForgotten
<1>1. NotifyInv => NothingForgotten
  BY DEF NotifyInv
<1> QED  BY <1>1, NotifyInvariant, PTL

-----------------------------------------------------------------------------
(* Types.  Those of the store are the ledger's. *)

\* Whatever is announced, a step leaves the store alone or is one of the ledger's.
LEMMA StoreSteps == [Next]_vars => [Store!Next]_(Store!vars)
<1> SUFFICES ASSUME [Next]_vars PROVE [Store!Next]_(Store!vars)
  OBVIOUS
<1>1. ASSUME NEW e \in Events, NEW n \in Capacities, CreateEvent(e, n)
      PROVE  Store!Next
  BY <1>1 DEF CreateEvent, Store!Next
<1>2. ASSUME NEW c \in Calls, NEW e \in Events, NEW u \in Users, BookEvent(c, e, u)
      PROVE  [Store!Next]_(Store!vars)
  BY <1>2 DEF BookEvent, Replay, vars, store, Store!Next, Store!vars
<1>3. ASSUME NEW c \in Calls, NEW e \in Events, NEW u \in Users, CancelBooking(c, e, u)
      PROVE  Store!Next
  <2>1. PICK b \in RowsFor(bookings, e, u), promoted \in SUBSET RowsOf(waitlist, e) :
          Store!Cancel(e, b, promoted)
    BY <1>3 DEF CancelBooking
  <2>2. b \in Store!RowsOf(bookings, e) /\ promoted \in SUBSET Store!RowsOf(waitlist, e)
    BY <2>1 DEF RowsFor, RowsOf, Store!RowsOf
  <2> QED  BY <2>1, <2>2 DEF Store!Next
<1>4. ASSUME NEW c \in Calls, Handler(c)  PROVE UNCHANGED store
  BY <1>4 DEF Handler, GetEvent, GetEventFails, CallDies, Send, LookupFails, Continue, Working
<1>5. ASSUME NEW o \in wire, Rpc(o)  PROVE UNCHANGED store
  BY <1>5 DEF Rpc, SendEmail, Deduplicate, RpcFails, Arrives
<1>6. CASE NotifierRestarts
  BY <1>6 DEF NotifierRestarts, store, Store!vars
<1>7. CASE UNCHANGED vars
  BY <1>7 DEF vars, store, Store!vars
<1>8. UNCHANGED store => UNCHANGED Store!vars
  BY DEF store, Store!vars
<1> QED  BY <1>1, <1>2, <1>3, <1>4, <1>5, <1>6, <1>7, <1>8 DEF Next

LEMMA LedgerTypesInit == Init => LedgerProofs!LedgerInv
<1>1. {0} \subseteq Nat
  OBVIOUS
<1>2. LedgerProofs!Init => LedgerProofs!LedgerInv
  BY <1>1, SeatAssumption, LedgerProofs!LedgerInit
<1> QED  BY <1>2 DEF Init, Store!Init, LedgerProofs!Init

LEMMA LedgerTypesNext == LedgerProofs!LedgerInv /\ [Next]_vars => LedgerProofs!LedgerInv'
<1>1. {0} \subseteq Nat
  OBVIOUS
<1>2. LedgerProofs!LedgerInv /\ [LedgerProofs!Next]_(LedgerProofs!vars) => LedgerProofs!LedgerInv'
  BY <1>1, SeatAssumption, LedgerProofs!LedgerNext
<1>3. LedgerProofs!Next <=> Store!Next
  BY Zenon DEF LedgerProofs!Next, Store!Next,
     LedgerProofs!Create, Store!Create, LedgerProofs!Book, Store!Book,
     LedgerProofs!Newcomer, Store!Newcomer, LedgerProofs!Enqueue, Store!Enqueue,
     LedgerProofs!Cancel, Store!Cancel, LedgerProofs!RowsOf, Store!RowsOf,
     LedgerProofs!RowsFor, Store!RowsFor, LedgerProofs!InOrder, Store!InOrder,
     LedgerProofs!Blocked, Store!Blocked, LedgerProofs!Oldest, Store!Oldest,
     LedgerProofs!AsBooking, Store!AsBooking, LedgerProofs!SeatSum, Store!SeatSum,
     LedgerProofs!Units, Store!Units, LedgerProofs!Cardinality, Store!Cardinality
<1>4. [Store!Next]_(Store!vars) => [LedgerProofs!Next]_(LedgerProofs!vars)
  BY <1>3, Zenon DEF LedgerProofs!vars, Store!vars
<1> QED  BY <1>2, <1>4, StoreSteps

\* The notifier remembers keys of outcomes.
SeenTyped == seen \subseteq KeyOf

LEMMA SeenStep == NotifyInv /\ SeenTyped /\ [Next]_vars => SeenTyped'
<1> SUFFICES ASSUME NotifyInv, SeenTyped, [Next]_vars PROVE SeenTyped'
  OBVIOUS
<1>1. ASSUME NEW o \in wire, Rpc(o)  PROVE SeenTyped'
  <2>1. Key(o) \in KeyOf
    BY <1>1 DEF NotifyInv, Shapes, Outcome, Key, KeyOf
  <2> QED  BY <1>1, <2>1 DEF Rpc, SendEmail, Deduplicate, RpcFails, SeenTyped
<1>2. ASSUME NEW c \in Calls, Handler(c)  PROVE UNCHANGED seen
  BY <1>2 DEF Handler, GetEvent, GetEventFails, CallDies, Send, LookupFails, Continue, Working
<1>3. ASSUME NEW c \in Calls, NEW e \in Events, NEW u \in Users,
             BookEvent(c, e, u) \/ CancelBooking(c, e, u)
      PROVE  UNCHANGED seen
  BY <1>3 DEF BookEvent, CancelBooking, Announce, Replay, vars
<1>4. ASSUME NEW e \in Events, NEW n \in Capacities, CreateEvent(e, n)  PROVE UNCHANGED seen
  BY <1>4 DEF CreateEvent
<1>5. CASE NotifierRestarts
  BY <1>5 DEF NotifierRestarts, SeenTyped
<1>6. CASE UNCHANGED vars
  BY <1>6 DEF vars, SeenTyped
<1> QED  BY <1>1, <1>2, <1>3, <1>4, <1>5, <1>6 DEF Next, SeenTyped

\* The store, the calls, the outcomes and the notifier's memory have their types.
THEOREM NotifyTypes == Spec => []TypeOK
<1>1. LedgerProofs!LedgerInv => Store!TypeOK
  BY Zenon DEF LedgerProofs!LedgerInv, LedgerProofs!TypeOK, Store!TypeOK,
     LedgerProofs!Booking, Store!Booking, LedgerProofs!WaitlistEntry, Store!WaitlistEntry
<1>2. LedgerProofs!LedgerInv /\ NotifyInv /\ SeenTyped => TypeOK
  BY <1>1 DEF NotifyInv, Shapes, SeenTyped, TypeOK
<1>3. Init => SeenTyped
  BY DEF Init, SeenTyped
<1> QED  BY <1>2, <1>3, LedgerTypesInit, LedgerTypesNext, SeenStep, NotifyInvariant, PTL DEF Spec
=============================================================================
