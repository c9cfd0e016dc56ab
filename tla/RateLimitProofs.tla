-------------------------- MODULE RateLimitProofs --------------------------
(***************************************************************************)
(* For any limit, window, number of requests and of retries: no window     *)
(* lets more requests through than the limit, nobody is refused for what   *)
(* was done in another window, and Retry-After is enough.                  *)
(*                                                                         *)
(* The counter alone does not bound what was let through: a request that   *)
(* was counted may not have its answer yet.  Charged adds those under way. *)
(* Budget bounds the counter itself: every INCR spends one of the          *)
(* Retries + 1 pipelines that its request may send.                        *)
(***************************************************************************)
EXTENDS RateLimit, FiniteSetTheorems, TLAPS

Counted == {"expire", "ttl"}

\* The requests counted in w while it lasted that will be let through, one that
\* sends its pipeline again among them until its next INCR.
Passing(w) == {c \in Calls : /\ call[c].win = w /\ call[c].pc \in Sending
                             /\ call[c].timely /\ Admits(call[c].got)}

\* The pipelines that requests of w may still send.
Left(w) == {x \in Calls \X (1..Retries + 1) :
              /\ call[x[1]].win = w
              /\ \/ call[x[1]].pc = "incr" /\ x[2] >= call[x[1]].tries
                 \/ call[x[1]].pc \in Counted /\ x[2] > call[x[1]].tries}

\* No key expires while its window lasts, and no request is ahead of time.
Clocked == /\ \A w \in Windows : expiry[w] # 0 => expiry[w] >= EndOf(w)
           /\ \A c \in Calls : call[c].win * Window <= clock

Charged == \A w \in Windows \ evicted :
             /\ passed[w] + Cardinality(Passing(w)) <= Limit
             /\ Lasts(w) => passed[w] + Cardinality(Passing(w)) <= count[w]

Allowance(b) == b * (Retries + 1)
Budget == /\ \A w \in Windows : count[w] + Cardinality(Left(w)) <= Allowance(begun[w])
          /\ \A c \in Calls : call[c].pc \in Counted => call[c].got <= Allowance(begun[call[c].win])

RateInv == /\ TypeOK /\ Clocked /\ Charged /\ Budget
           /\ RefusedForThisWindow /\ WaitIsEnough

USE RateAssumption

\* The window number is one of the windows, and has begun.
LEMMA WindowHasBegun ==
  ASSUME TypeOK
  PROVE  clock \div Window \in Windows /\ (clock \div Window) * Window <= clock
<1> DEFINE q == clock \div Window
<1>1. clock \in Nat /\ clock <= MaxClock
  BY DEF TypeOK
<1>2. q \in Int /\ q * Window <= clock /\ clock < (q + 1) * Window
  BY <1>1, SMT
<1> HIDE DEF q
<1>3. q >= 0
  <2>1. ASSUME q + 1 <= 0 PROVE FALSE
    <3>1. (q + 1) * Window <= 0
      BY <1>2, <2>1, SMT
    <3> QED  BY <1>1, <1>2, <3>1
  <2> QED  BY <1>2, <2>1
<1>4. q * Window >= q
  BY <1>2, <1>3, SMT
<1>5. q \in Windows /\ q * Window <= clock
  BY <1>1, <1>2, <1>3, <1>4 DEF Windows
<1> QED  BY <1>5 DEF q

\* The records that the actions put into call.
LEMMA CallsTyped ==
  /\ 0 \in Windows /\ NoCall \in Call
  /\ \A w \in Windows : [NoCall EXCEPT !.pc = "incr", !.win = w] \in Call
  /\ \A w \in Windows, n \in Nat, pc \in {"idle", "repair"} :
       [NoCall EXCEPT !.pc = pc, !.win = w, !.told = n] \in Call
<1>1. 0 \in Windows /\ 1 \in 1..Retries + 1
  BY DEF Windows
<1> QED  BY <1>1 DEF NoCall, Call

LEMMA SetsFinite ==
  ASSUME NEW w \in Windows
  PROVE  /\ IsFiniteSet(Passing(w)) /\ Cardinality(Passing(w)) \in Nat
         /\ IsFiniteSet(Left(w)) /\ Cardinality(Left(w)) \in Nat
<1>1. IsFiniteSet(1..Retries + 1)
  BY FS_Interval
<1>2. IsFiniteSet(Calls \X (1..Retries + 1))
  BY <1>1, FS_Product
<1>3. IsFiniteSet(Passing(w)) /\ IsFiniteSet(Left(w))
  BY <1>2, FS_Subset DEF Passing, Left
<1> QED  BY <1>3, FS_CardinalityType

LEMMA InitRate == Init => RateInv
<1> SUFFICES ASSUME Init PROVE RateInv
  OBVIOUS
<1> USE DEF Init, NoCall
<1>1. TypeOK
  BY DEF TypeOK, Call, Windows
<1>2. Clocked
  BY DEF Clocked
<1>3. \A w \in Windows : Passing(w) = {} /\ Left(w) = {}
  BY DEF Passing, Left, Counted, Sending
<1>4. Charged /\ Budget
  <2>1. Allowance(0) = 0
    BY SMT DEF Allowance
  <2>2. \A w \in Windows : Cardinality(Passing(w)) = 0 /\ Cardinality(Left(w)) = 0
    BY <1>3, FS_EmptySet
  <2>3. Charged
    BY <2>2 DEF Charged
  <2>4. Budget
    BY <2>1, <2>2 DEF Budget, Counted
  <2> QED  BY <2>3, <2>4
<1>5. RefusedForThisWindow /\ WaitIsEnough
  BY DEF RefusedForThisWindow, WaitIsEnough
<1> QED  BY <1>1, <1>2, <1>4, <1>5 DEF RateInv

LEMMA TypeStep ==
  ASSUME TypeOK, [Next]_vars
  PROVE  TypeOK'
<1> USE DEF TypeOK
<1>1. ASSUME NEW c \in Calls, Begin(c) PROVE TypeOK'
  <2>1. WindowNum \in Windows
    BY WindowHasBegun DEF WindowNum
  <2>2. call' = [call EXCEPT ![c] = [NoCall EXCEPT !.pc = "incr", !.win = WindowNum]]
    BY <1>1 DEF Begin
  <2>3. call' \in [Calls -> Call]
    BY <2>1, <2>2, CallsTyped
  <2> QED  BY <1>1, <2>3, WindowHasBegun DEF Begin
<1>2. ASSUME NEW c \in Calls, Incr(c) PROVE TypeOK'
  <2> DEFINE w == call[c].win
             n == IF Exists(w) THEN count[w] + 1 ELSE 1
  <2>1. w \in Windows /\ n \in Nat \ {0} /\ Lasts(w) \in BOOLEAN
    BY DEF Call, Lasts
  <2>2. call' = [call EXCEPT ![c].pc = "expire", ![c].got = n, ![c].timely = Lasts(w)]
    BY <1>2 DEF Incr
  <2>3. count' = [count EXCEPT ![w] = n]
    BY <1>2 DEF Incr
  <2>4. /\ expiry' = [expiry EXCEPT ![w] = IF Exists(w) THEN @ ELSE 0]
        /\ UNCHANGED <<clock, evicted, begun, passed>>
    BY <1>2 DEF Incr, History
  <2> HIDE DEF n, w
  <2>5. [call[c] EXCEPT !.pc = "expire", !.got = n, !.timely = Lasts(w)] \in Call
    BY <2>1 DEF Call
  <2>6. call' = [call EXCEPT ![c] = [call[c] EXCEPT !.pc = "expire", !.got = n,
                                                    !.timely = Lasts(w)]]
    BY <2>2
  <2>7. call' \in [Calls -> Call]
    BY <2>5, <2>6
  <2> QED  BY <2>1, <2>3, <2>4, <2>7
<1>3. ASSUME NEW c \in Calls, Expire(c) PROVE TypeOK'
  BY <1>3 DEF Expire, Refreshed, Lifetime, Call, History, Exists
<1>4. ASSUME NEW c \in Calls, Ttl(c) PROVE TypeOK'
  <2> DEFINE w == call[c].win
             r == ResetIn(TtlOf(w))
             told == IF Admits(call[c].got) THEN 0 ELSE r + 1
  <2>1. w \in Windows /\ r \in Nat
    BY DEF Call, TtlOf, Exists, ResetIn
  <2>2. told \in Nat
    BY <2>1
  <2>3. PICK pc \in {"idle", "repair"} :
          call' = [call EXCEPT ![c] = [NoCall EXCEPT !.pc = pc, !.win = w, !.told = told]]
    BY <1>4 DEF Ttl, Answer
  <2> HIDE DEF r, told, w
  <2>4. call' \in [Calls -> Call]
    BY <2>1, <2>2, <2>3, CallsTyped
  <2>5. call[c].win \in Windows
    BY DEF Call
  <2>6. passed' \in [Windows -> Nat]
    BY <1>4, <2>5 DEF Ttl, Answer, LetThrough
  <2> QED  BY <1>4, <2>4, <2>6 DEF Ttl
<1>5. ASSUME NEW c \in Calls, Repair(c) PROVE TypeOK'
  BY <1>5 DEF Repair, Refreshed, Lifetime, Call, History, Exists
<1>6. ASSUME NEW c \in Calls, Retry(c) PROVE TypeOK'
  BY <1>6 DEF Retry, Call, History
<1>7. ASSUME NEW c \in Calls, FailOpen(c) \/ Dies(c) PROVE TypeOK'
  <2>1. call' \in [Calls -> Call]
    BY <1>7, CallsTyped DEF FailOpen, Dies
  <2>2. call[c].win \in Windows
    BY DEF Call
  <2>3. passed' \in [Windows -> Nat]
    BY <1>7, <2>2 DEF FailOpen, Dies, LetThrough, History
  <2> QED  BY <1>7, <2>1, <2>3 DEF FailOpen, Dies, History
<1>8. ASSUME NEW w \in Windows, Evict(w) PROVE TypeOK'
  BY <1>8 DEF Evict
<1>9. CASE Tick \/ UNCHANGED vars
  BY <1>9 DEF Tick, vars, History
<1> QED  BY <1>1, <1>2, <1>3, <1>4, <1>5, <1>6, <1>7, <1>8, <1>9 DEF Next

LEMMA ClockedStep ==
  ASSUME TypeOK, Clocked, [Next]_vars
  PROVE  Clocked'
<1> USE DEF Clocked, TypeOK
<1> DEFINE Ends == \A w \in Windows : expiry'[w] # 0 => expiry'[w] >= EndOf(w)
           Begins == \A c \in Calls : call'[c].win * Window <= clock'
<1>1. ASSUME NEW c \in Calls, Begin(c) PROVE Ends /\ Begins
  <2>1. WindowNum * Window <= clock
    BY WindowHasBegun DEF WindowNum
  <2> QED  BY <1>1, <2>1 DEF Begin, NoCall, EndOf
<1>2. ASSUME NEW c \in Calls, call[c].win * Window <= clock
      PROVE  /\ EndOf(call[c].win) <= clock + Window
             /\ call[c].win \in Windows
  <2>1. call[c].win \in Nat /\ call[c].win \in Windows /\ clock \in Nat
    BY DEF Call, Windows
  <2>2. EndOf(call[c].win) = call[c].win * Window + Window
    BY <2>1, SMT DEF EndOf
  <2>3. call[c].win * Window \in Nat
    BY <2>1, SMT
  <2> QED  BY <1>2, <2>1, <2>2, <2>3
<1>3. ASSUME NEW c \in Calls, Refreshed(call[c].win) = expiry', UNCHANGED clock,
             \A d \in Calls : call'[d].win = call[d].win
      PROVE  Ends /\ Begins
  BY <1>2, <1>3 DEF Refreshed, Lifetime
<1>4. ASSUME NEW c \in Calls, Incr(c) PROVE Ends /\ Begins
  BY <1>4 DEF Incr
<1>5. ASSUME NEW c \in Calls, Expire(c) PROVE Ends /\ Begins
  BY <1>3, <1>5 DEF Expire
<1>6. ASSUME NEW c \in Calls, Ttl(c) PROVE Ends /\ Begins
  BY <1>6 DEF Ttl, Answer, NoCall
<1>7. ASSUME NEW c \in Calls, Repair(c) PROVE Ends /\ Begins
  BY <1>3, <1>7 DEF Repair
<1>8. ASSUME NEW c \in Calls, Retry(c) PROVE Ends /\ Begins
  BY <1>8 DEF Retry
<1>9. ASSUME NEW c \in Calls, FailOpen(c) \/ Dies(c) PROVE Ends /\ Begins
  BY <1>9 DEF FailOpen, Dies, NoCall
<1>10. ASSUME NEW w \in Windows, Evict(w) PROVE Ends /\ Begins
  BY <1>10 DEF Evict
<1>11. CASE Tick
  <2>1. \A c \in Calls : call[c].win * Window \in Nat
    <3> TAKE c \in Calls
    <3>1. call[c].win \in Nat
      BY DEF Call, Windows
    <3> QED  BY <3>1, SMT
  <2> QED  BY <1>11, <2>1 DEF Tick
<1>12. CASE UNCHANGED vars
  BY <1>12 DEF vars
<1>13. Ends /\ Begins
  BY <1>1, <1>4, <1>5, <1>6, <1>7, <1>8, <1>9, <1>10, <1>11, <1>12 DEF Next
<1> QED  BY <1>13 DEF EndOf

\* A request that is among those that will be let through only if it was before
\* makes them no more.
LEMMA PassingShrinks ==
  ASSUME NEW c \in Calls, NEW w \in Windows, call \in [Calls -> Call],
         \A d \in Calls \ {c} : call'[d] = call[d],
         c \in Passing(w)' => c \in Passing(w)
  PROVE  /\ Cardinality(Passing(w)') \in Nat
         /\ Cardinality(Passing(w)') <= Cardinality(Passing(w))
<1>1. Passing(w)' \subseteq Passing(w)
  BY DEF Passing
<1> QED  BY <1>1, SetsFinite, FS_Subset, FS_CardinalityType

LEMMA ChargedStep ==
  ASSUME TypeOK, TypeOK', Clocked, Charged, [Next]_vars
  PROVE  Charged'
<1> DEFINE P(w) == Cardinality(Passing(w))
           Q(w) == Cardinality(Passing(w)')
           Holds(w) == /\ passed'[w] + Q(w) <= Limit
                       /\ Lasts(w)' => passed'[w] + Q(w) <= count'[w]
<1>1. ASSUME NEW c \in Calls, NEW w \in Windows \ evicted, UNCHANGED <<clock, count, passed>>,
             \A d \in Calls \ {c} : call'[d] = call[d],
             c \in Passing(w)' => c \in Passing(w)
      PROVE  Holds(w)
  <2>1. Q(w) \in Nat /\ P(w) \in Nat /\ Q(w) <= P(w)
    BY <1>1, PassingShrinks, SetsFinite DEF TypeOK
  <2> QED  BY <1>1, <2>1 DEF Charged, Lasts, TypeOK
<1>2. ASSUME NEW c \in Calls, Begin(c), NEW w \in Windows \ evicted PROVE Holds(w)
  BY <1>1, <1>2 DEF Begin, NoCall, Passing, TypeOK
<1>3. ASSUME NEW c \in Calls, Incr(c), NEW w \in Windows \ evicted PROVE Holds(w)
  <2> DEFINE n == IF Exists(w) THEN count[w] + 1 ELSE 1
  <2>2. /\ \A d \in Calls \ {c} : call'[d] = call[d]
        /\ call'[c].win = call[c].win /\ UNCHANGED <<clock, passed>>
    BY <1>3 DEF Incr, History, TypeOK
  <2>3. IsFiniteSet(Passing(w)) /\ P(w) \in Nat
    BY SetsFinite
  <2>4. CASE w # call[c].win
    <3>1. Passing(w)' = Passing(w)
      BY <2>2, <2>4 DEF Passing
    <3>2. count'[w] = count[w]
      BY <1>3, <2>4 DEF Incr, TypeOK
    <3> QED  BY <2>2, <3>1, <3>2 DEF Charged, Lasts
  <2>5. CASE w = call[c].win
    <3>1. /\ call'[c].got = n /\ call'[c].timely = Lasts(w) /\ count'[w] = n
      BY <1>3, <2>5 DEF Incr, TypeOK
    <3>2. CASE ~Lasts(w)
      <4>1. Q(w) \in Nat /\ Q(w) <= P(w)
        <5>1. Passing(w)' \subseteq Passing(w)
          BY <2>2, <3>1, <3>2 DEF Passing
        <5> QED  BY <2>3, <5>1, FS_Subset, FS_CardinalityType
      <4> QED  BY <2>2, <2>3, <3>2, <4>1 DEF Charged, Lasts, TypeOK
    <3>3. CASE Lasts(w)
      <4>1. n = count[w] + 1
        <5>1. EndOf(w) \in Int /\ clock \in Int /\ expiry[w] \in Nat /\ count[w] \in Nat
          BY DEF TypeOK, Windows, EndOf
        <5>2. expiry[w] = 0 \/ clock < expiry[w]
          BY <3>3, <5>1 DEF Clocked, Lasts
        <5> QED  BY <5>1, <5>2 DEF Exists
      <4>2. P(w) + passed[w] <= count[w] /\ P(w) + passed[w] <= Limit
            /\ passed'[w] = passed[w] /\ passed[w] \in Nat /\ count[w] \in Nat
        BY <2>2, <2>3, <3>3 DEF Charged, TypeOK
      <4>3. CASE Admits(n)
        <5>1. Passing(w)' \subseteq Passing(w) \cup {c}
          BY <2>2 DEF Passing
        <5>2. Q(w) <= P(w) + 1 /\ Q(w) \in Nat
          <6>1. /\ IsFiniteSet(Passing(w) \cup {c})
                /\ Cardinality(Passing(w) \cup {c}) <= P(w) + 1
            <7>1. CASE c \in Passing(w)
              <8>1. Passing(w) \cup {c} = Passing(w)
                BY <7>1
              <8> QED  BY <2>3, <8>1
            <7>2. CASE c \notin Passing(w)
              <8>1. /\ IsFiniteSet(Passing(w) \cup {c})
                    /\ Cardinality(Passing(w) \cup {c}) = P(w) + 1
                BY <2>3, <7>2, FS_AddElement
              <8> QED  BY <2>3, <8>1
            <7> QED  BY <7>1, <7>2
          <6>2. Cardinality(Passing(w) \cup {c}) \in Nat
            BY <6>1, FS_CardinalityType
          <6> QED  BY <2>3, <5>1, <6>1, <6>2, FS_Subset, FS_CardinalityType
        <5> QED  BY <2>3, <3>1, <4>1, <4>2, <4>3, <5>2 DEF Admits
      <4>4. CASE ~Admits(n)
        <5>1. Passing(w)' \subseteq Passing(w)
          BY <2>2, <3>1, <4>4 DEF Passing, Admits
        <5>2. Q(w) <= P(w) /\ Q(w) \in Nat
          BY <2>3, <5>1, FS_Subset, FS_CardinalityType
        <5> QED  BY <2>3, <3>1, <4>1, <4>2, <5>2
      <4> QED  BY <4>3, <4>4
    <3> QED  BY <3>2, <3>3
  <2> QED  BY <2>4, <2>5
<1>4. ASSUME NEW c \in Calls, Expire(c), NEW w \in Windows \ evicted PROVE Holds(w)
  <2>1. Passing(w)' = Passing(w)
    BY <1>4 DEF Expire, Passing, Sending, TypeOK
  <2> QED  BY <1>4, <2>1 DEF Expire, History, Charged, Lasts
<1>5. ASSUME NEW c \in Calls, Ttl(c) \/ FailOpen(c), NEW w \in Windows \ evicted
      PROVE  Holds(w)
  <2>1. /\ call[c].pc \in Sending /\ call'[c].pc \notin Sending
        /\ \A d \in Calls \ {c} : call'[d] = call[d]
        /\ UNCHANGED <<clock, count>> /\ call[c].win \in Windows
        /\ passed' = [passed EXCEPT ![call[c].win] =
                         IF Admits(call[c].got) /\ call[c].timely THEN @ + 1 ELSE @]
    <3>1. call[c].win \in Windows
      BY DEF TypeOK, Call
    <3>2. CASE Ttl(c)
      BY <3>1, <3>2 DEF Ttl, Answer, LetThrough, NoCall, Sending, TypeOK
    <3>3. CASE FailOpen(c)
      BY <3>1, <3>3 DEF FailOpen, LetThrough, NoCall, Sending, TypeOK
    <3> QED  BY <1>5, <3>2, <3>3
  <2>2. CASE c \in Passing(w)
    <3>1. passed'[w] = passed[w] + 1
      BY <2>1, <2>2 DEF Passing, TypeOK
    <3>2. Passing(w)' = Passing(w) \ {c}
      BY <2>1, <2>2 DEF Passing
    <3>3. Q(w) = P(w) - 1 /\ P(w) \in Nat
      BY <2>2, <3>2, SetsFinite, FS_RemoveElement
    <3> QED  BY <2>1, <3>1, <3>3 DEF Charged, Lasts, TypeOK
  <2>3. CASE c \notin Passing(w)
    <3>1. passed'[w] = passed[w]
      BY <2>1, <2>3 DEF Passing, TypeOK
    <3>2. c \notin Passing(w)'
      BY <2>1 DEF Passing
    <3>3. Q(w) \in Nat /\ P(w) \in Nat /\ Q(w) <= P(w)
      BY <2>1, <3>2, PassingShrinks, SetsFinite DEF TypeOK
    <3> QED  BY <2>1, <3>1, <3>3 DEF Charged, Lasts, TypeOK
  <2> QED  BY <2>2, <2>3
<1>6. ASSUME NEW c \in Calls, Repair(c), NEW w \in Windows \ evicted PROVE Holds(w)
  <2>1. c \notin Passing(w)'
    BY <1>6 DEF Repair, Passing, Sending, TypeOK
  <2> QED  BY <1>1, <1>6, <2>1 DEF Repair, TypeOK, History
<1>7. ASSUME NEW c \in Calls, Retry(c), NEW w \in Windows \ evicted PROVE Holds(w)
  <2>1. c \in Passing(w)' => c \in Passing(w)
    BY <1>7 DEF Retry, Passing, TypeOK
  <2> QED  BY <1>1, <1>7, <2>1 DEF Retry, TypeOK, History
<1>8. ASSUME NEW c \in Calls, Dies(c), NEW w \in Windows \ evicted PROVE Holds(w)
  <2>1. c \notin Passing(w)'
    BY <1>8 DEF Dies, Passing, Sending, NoCall, TypeOK
  <2> QED  BY <1>1, <1>8, <2>1 DEF Dies, TypeOK, History
<1>9. ASSUME NEW v \in Windows, Evict(v), NEW w \in Windows \ evicted' PROVE Holds(w)
  <2>1. Passing(w)' = Passing(w)
    BY <1>9 DEF Evict, Passing
  <2>2. w \notin evicted /\ (Lasts(w) => count'[w] = count[w])
    BY <1>9 DEF Evict, TypeOK
  <2> QED  BY <1>9, <2>1, <2>2 DEF Evict, Charged, Lasts
<1>10. ASSUME Tick \/ UNCHANGED vars, NEW w \in Windows \ evicted PROVE Holds(w)
  <2>1. Passing(w)' = Passing(w)
    BY <1>10 DEF Tick, vars, Passing
  <2>2. Lasts(w)' => Lasts(w)
    BY <1>10 DEF Tick, vars, Lasts, TypeOK, EndOf, Windows
  <2> QED  BY <1>10, <2>1, <2>2 DEF Tick, vars, History, Charged
<1>11. ASSUME NEW w \in Windows \ evicted' PROVE Holds(w)
  <2>1. (\E v \in Windows : Evict(v)) \/ evicted' = evicted
    BY DEF Next, Begin, Incr, Expire, Ttl, Repair, Retry, FailOpen, Dies, Tick, vars, History
  <2> QED  BY <1>2, <1>3, <1>4, <1>5, <1>6, <1>7, <1>8, <1>9, <1>10, <2>1 DEF Next
<1> QED  BY <1>11 DEF Charged

\* One more request is worth as many pipelines as it may send.
LEMMA AllowanceGrows ==
  ASSUME NEW b \in Nat
  PROVE  /\ Allowance(b) \in Nat
         /\ Allowance(b + 1) = Allowance(b) + (Retries + 1)
BY SMT DEF Allowance

LEMMA BudgetStep ==
  ASSUME TypeOK, TypeOK', Budget, [Next]_vars
  PROVE  Budget'
<1> DEFINE L(w) == Cardinality(Left(w))
           M(w) == Cardinality(Left(w)')
           Spent(w) == count'[w] + M(w) <= Allowance(begun'[w])
           Got(d) == call'[d].pc \in Counted => call'[d].got <= Allowance(begun'[call'[d].win])
           Kept == /\ \A w \in Windows : Spent(w)
                   /\ \A d \in Calls : Got(d)
<1>1. \A w \in Windows : /\ IsFiniteSet(Left(w)) /\ L(w) \in Nat /\ count[w] \in Nat
                           /\ begun[w] \in Nat /\ Allowance(begun[w]) \in Nat
                           /\ count[w] + L(w) <= Allowance(begun[w])
  BY SetsFinite, AllowanceGrows DEF Budget, TypeOK
<1>2. ASSUME begun' = begun, \A w \in Windows : count'[w] <= count[w],
             \A w \in Windows : Left(w)' \subseteq Left(w),
             \A d \in Calls : call'[d].pc \in Counted =>
                /\ call[d].pc \in Counted /\ call'[d].got = call[d].got
                /\ call'[d].win = call[d].win
      PROVE  Kept
  <2>1. \A w \in Windows : M(w) \in Nat /\ M(w) <= L(w)
    BY <1>1, <1>2, FS_Subset, FS_CardinalityType
  <2>2. \A w \in Windows : count'[w] \in Nat
    BY DEF TypeOK
  <2>3. \A w \in Windows : Spent(w)
    BY <1>1, <1>2, <2>1, <2>2
  <2>4. \A d \in Calls : Got(d)
    BY <1>2 DEF Budget
  <2> QED  BY <2>3, <2>4
<1>3. ASSUME NEW c \in Calls, Begin(c) PROVE Kept
  <2> DEFINE New == {c} \X (1..Retries + 1)
  <2>0. PICK v \in Windows : v = clock \div Window
    BY WindowHasBegun
  <2>1. /\ begun' = [begun EXCEPT ![v] = @ + 1] /\ v \in Windows
        /\ count' = count /\ call[c].pc = "idle"
        /\ call'[c].win = v /\ call'[c].pc = "incr"
        /\ \A d \in Calls \ {c} : call'[d] = call[d]
    BY <1>3, <2>0 DEF Begin, NoCall, WindowNum, TypeOK
  <2>2. \A w \in Windows \ {v} : Left(w)' \subseteq Left(w) /\ Allowance(begun'[w]) = Allowance(begun[w])
    BY <2>1 DEF Left, TypeOK
  <2>3. Left(v)' \subseteq Left(v) \cup New
    <3>1. \A x \in Left(v)' : x[1] = c => x \in New
      BY DEF Left
    <3>2. ASSUME NEW x \in Left(v)', x[1] # c PROVE x \in Left(v)
      <4>1. x \in Calls \X (1..Retries + 1) /\ x[1] \in Calls \ {c}
        BY <3>2 DEF Left
      <4>2. call'[x[1]] = call[x[1]]
        BY <2>1, <4>1
      <4> QED  BY <3>2, <4>1, <4>2 DEF Left
    <3> QED  BY <3>1, <3>2
  <2>4. IsFiniteSet(New) /\ Cardinality(New) = Retries + 1
    <3>1. IsFiniteSet({c}) /\ Cardinality({c}) = 1
      BY FS_Singleton
    <3>2. IsFiniteSet(1..Retries + 1) /\ Cardinality(1..Retries + 1) = Retries + 1
      BY FS_Interval
    <3>3. /\ IsFiniteSet(New)
          /\ Cardinality(New) = Cardinality({c}) * Cardinality(1..Retries + 1)
      BY <3>1, <3>2, FS_Product
    <3> QED  BY <3>1, <3>2, <3>3
  <2> HIDE DEF New
  <2>5. M(v) \in Nat /\ M(v) <= L(v) + (Retries + 1)
    <3>1. /\ IsFiniteSet(Left(v) \cup New)
          /\ Cardinality(Left(v) \cup New) =
               L(v) + (Retries + 1) - Cardinality(Left(v) \cap New)
      BY <1>1, <2>1, <2>4, FS_Union
    <3>2. Cardinality(Left(v) \cap New) \in Nat
      BY <1>1, <2>1, FS_Intersection, FS_CardinalityType
    <3>3. M(v) \in Nat /\ M(v) <= Cardinality(Left(v) \cup New)
      BY <2>3, <3>1, FS_Subset, FS_CardinalityType
    <3> QED  BY <1>1, <2>1, <3>1, <3>2, <3>3
  <2>6. Allowance(begun'[v]) = Allowance(begun[v]) + (Retries + 1)
    <3>1. begun'[v] = begun[v] + 1 /\ begun[v] \in Nat
      BY <2>1 DEF TypeOK
    <3> QED  BY <3>1, AllowanceGrows
  <2>7. ASSUME NEW w \in Windows PROVE Spent(w) /\ Allowance(begun[w]) <= Allowance(begun'[w])
    <3>1. CASE w = v
      <4>1. count'[v] + M(v) <= count[v] + L(v) + (Retries + 1)
        BY <1>1, <2>1, <2>5
      <4>2. Spent(v)
        BY <1>1, <2>1, <2>5, <2>6, <4>1
      <4>3. Allowance(begun[v]) <= Allowance(begun'[v])
        BY <1>1, <2>1, <2>6
      <4> QED  BY <3>1, <4>2, <4>3
    <3>2. CASE w # v
      <4>1. M(w) \in Nat /\ M(w) <= L(w)
        BY <1>1, <2>2, <3>2, FS_Subset, FS_CardinalityType
      <4> QED  BY <1>1, <2>1, <2>2, <3>2, <4>1
    <3> QED  BY <3>1, <3>2
  <2>8. ASSUME NEW d \in Calls, call'[d].pc \in Counted PROVE call'[d].got <= Allowance(begun'[call'[d].win])
    <3>1. call'[d] = call[d]
      BY <2>1, <2>8 DEF Counted
    <3>2. call[d].win \in Windows /\ call[d].got \in Nat
      BY DEF TypeOK, Call
    <3>3. Allowance(begun'[call[d].win]) \in Nat
      BY <3>2, AllowanceGrows DEF TypeOK
    <3>4. call[d].got <= Allowance(begun[call[d].win])
      BY <2>8, <3>1 DEF Budget
    <3>5. Allowance(begun[call[d].win]) <= Allowance(begun'[call'[d].win])
      BY <2>7, <3>1, <3>2
    <3> QED  BY <1>1, <3>1, <3>2, <3>3, <3>4, <3>5
  <2> QED  BY <2>7, <2>8
<1>4. ASSUME NEW c \in Calls, Incr(c) PROVE Kept
  <2> DEFINE v == call[c].win
             n == IF Exists(v) THEN count[v] + 1 ELSE 1
             k == <<c, call[c].tries>>
  <2>1. /\ call[c].pc = "incr" /\ v \in Windows /\ call[c].tries \in 1..Retries + 1
        /\ count' = [count EXCEPT ![v] = n] /\ n <= count[v] + 1 /\ n \in Nat
        /\ begun' = begun
        /\ call'[c].pc = "expire" /\ call'[c].win = v /\ call'[c].got = n
        /\ call'[c].tries = call[c].tries
        /\ \A d \in Calls \ {c} : call'[d] = call[d]
    BY <1>4 DEF Incr, History, TypeOK, Call
  <2> HIDE DEF n
  <2>2. k \in Left(v) /\ Left(v)' \subseteq Left(v) \ {k}
    BY <2>1 DEF Left, Counted
  <2>3. M(v) \in Nat /\ M(v) <= L(v) - 1
    <3>1. IsFiniteSet(Left(v) \ {k}) /\ Cardinality(Left(v) \ {k}) = L(v) - 1
      BY <1>1, <2>1, <2>2, FS_RemoveElement
    <3> QED  BY <2>2, <3>1, FS_Subset, FS_CardinalityType
  <2>4. ASSUME NEW w \in Windows PROVE Spent(w)
    <3>1. CASE w = v
      BY <1>1, <2>1, <2>3, <3>1 DEF TypeOK
    <3>2. CASE w # v
      <4>1. Left(w)' \subseteq Left(w)
        BY <2>1, <3>2 DEF Left, Counted
      <4>2. M(w) \in Nat /\ M(w) <= L(w)
        BY <1>1, <4>1, FS_Subset, FS_CardinalityType
      <4>3. count'[w] = count[w]
        BY <2>1, <3>2 DEF TypeOK
      <4> QED  BY <1>1, <2>1, <4>2, <4>3
    <3> QED  BY <3>1, <3>2
  <2>5. ASSUME NEW d \in Calls PROVE Got(d)
    <3>1. CASE d = c
      <4>1. n <= Allowance(begun[v])
        BY <1>1, <2>1, <2>3
      <4> QED  BY <2>1, <3>1, <4>1
    <3>2. CASE d # c
      <4>1. call'[d] = call[d] /\ begun' = begun
        BY <2>1, <3>2
      <4>2. call[d].pc \in Counted => call[d].got <= Allowance(begun[call[d].win])
        BY DEF Budget
      <4> QED  BY <4>1, <4>2
    <3> QED  BY <3>1, <3>2
  <2> QED  BY <2>4, <2>5
<1>5. ASSUME NEW c \in Calls, Expire(c) PROVE Kept
  BY <1>2, <1>5 DEF Expire, History, Left, Counted, TypeOK
<1>6. ASSUME NEW c \in Calls, Ttl(c) PROVE Kept
  <2>1. /\ call'[c].pc \in {"idle", "repair"} /\ UNCHANGED <<count, begun>>
        /\ \A d \in Calls \ {c} : call'[d] = call[d]
    BY <1>6 DEF Ttl, Answer, NoCall, TypeOK
  <2> QED  BY <1>2, <2>1 DEF Left, Counted, TypeOK
<1>7. ASSUME NEW c \in Calls, Repair(c) PROVE Kept
  BY <1>2, <1>7 DEF Repair, History, Left, Counted, TypeOK
<1>8. ASSUME NEW c \in Calls, Retry(c) PROVE Kept
  <2>1. /\ call[c].pc \in Sending /\ UNCHANGED <<count, begun>> /\ call[c].tries \in Nat
        /\ call'[c].pc = "incr" /\ call'[c].win = call[c].win
        /\ call'[c].tries = call[c].tries + 1
        /\ \A d \in Calls \ {c} : call'[d] = call[d]
    BY <1>8 DEF Retry, History, TypeOK, Call
  <2>2. \A w \in Windows : Left(w)' \subseteq Left(w)
    BY <2>1 DEF Left, Counted, Sending
  <2> QED  BY <1>1, <1>2, <2>1, <2>2 DEF Counted
<1>9. ASSUME NEW c \in Calls, FailOpen(c) \/ Dies(c) PROVE Kept
  <2>1. /\ call'[c].pc = "idle" /\ UNCHANGED <<count, begun>>
        /\ \A d \in Calls \ {c} : call'[d] = call[d]
    BY <1>9 DEF FailOpen, Dies, NoCall, History, TypeOK
  <2> QED  BY <1>2, <2>1 DEF Left, Counted, TypeOK
<1>10. ASSUME NEW w \in Windows, Evict(w) PROVE Kept
  BY <1>2, <1>10 DEF Evict, Left, TypeOK
<1>11. ASSUME Tick \/ UNCHANGED vars PROVE Kept
  BY <1>2, <1>11 DEF Tick, vars, History, Left, TypeOK
<1>12. Kept
  BY <1>3, <1>4, <1>5, <1>6, <1>7, <1>8, <1>9, <1>10, <1>11 DEF Next
<1> QED  BY <1>12 DEF Budget

LEMMA VerdictStep ==
  ASSUME TypeOK, TypeOK', Clocked, Budget, RefusedForThisWindow, WaitIsEnough, [Next]_vars
  PROVE  RefusedForThisWindow' /\ WaitIsEnough'
<1> DEFINE Fair(d) == call'[d].told > 0 => Allowance(begun'[call'[d].win]) > Limit
           Enough(d) == call'[d].told > 0 => clock' + call'[d].told > EndOf(call'[d].win)
<1>1. /\ clock \in Nat /\ clock' \in Nat /\ clock <= clock'
      /\ \A w \in Windows : begun[w] \in Nat /\ begun'[w] \in Nat /\ begun[w] <= begun'[w]
  <2>1. clock <= clock' /\ \A w \in Windows : begun[w] <= begun'[w]
    <3>1. ASSUME NEW c \in Calls, Begin(c)
          PROVE  clock' = clock /\ \A w \in Windows : begun[w] <= begun'[w]
      BY <3>1, WindowHasBegun DEF Begin, TypeOK
    <3>2. CASE clock' = clock /\ begun' = begun
      BY <3>2 DEF TypeOK
    <3>3. CASE Tick
      BY <3>3 DEF Tick, History, TypeOK
    <3>4. (\E c \in Calls : Begin(c)) \/ Tick \/ (clock' = clock /\ begun' = begun)
      BY DEF Next, Incr, Expire, Ttl, Repair, Retry, FailOpen, Dies, Evict, vars, History
    <3> QED  BY <3>1, <3>2, <3>3, <3>4 DEF TypeOK
  <2> QED  BY <2>1 DEF TypeOK
<1>2. ASSUME NEW a \in Nat, NEW b \in Nat, a <= b PROVE Allowance(a) <= Allowance(b)
  BY <1>2, SMT DEF Allowance
<1>3. ASSUME NEW d \in Calls, call'[d].win = call[d].win, call'[d].told = call[d].told
      PROVE  Fair(d) /\ Enough(d)
  <2>0. call[d].win \in Windows /\ call[d].told \in Nat
    BY DEF TypeOK, Call
  <2>1. /\ call[d].win \in Windows /\ call[d].told \in Nat
        /\ EndOf(call[d].win) \in Int
    BY <2>0 DEF EndOf, Windows
  <2>2. CASE call[d].told > 0
    <3>1. /\ Allowance(begun[call[d].win]) > Limit
          /\ clock + call[d].told > EndOf(call[d].win)
      BY <2>2 DEF RefusedForThisWindow, WaitIsEnough, Allowance
    <3>2. /\ Allowance(begun[call[d].win]) <= Allowance(begun'[call[d].win])
          /\ Allowance(begun[call[d].win]) \in Nat
          /\ Allowance(begun'[call[d].win]) \in Nat
      BY <1>1, <1>2, <2>1, AllowanceGrows
    <3> QED  BY <1>1, <1>3, <2>1, <3>1, <3>2
  <2> QED  BY <1>3, <2>1, <2>2
<1>4. ASSUME NEW d \in Calls, call'[d].told = 0 PROVE Fair(d) /\ Enough(d)
  BY <1>4
<1>5. ASSUME NEW c \in Calls, Ttl(c) PROVE Fair(c) /\ Enough(c)
  <2> DEFINE w == call[c].win
             r == ResetIn(TtlOf(w))
  <2>1. /\ call[c].pc \in Counted /\ w \in Windows /\ call[c].got \in Nat
        /\ call'[c].told = (IF Admits(call[c].got) THEN 0 ELSE r + 1)
        /\ call'[c].win = w /\ UNCHANGED <<clock, begun, count, expiry>>
    BY <1>5 DEF Ttl, Answer, NoCall, Counted, TypeOK, Call
  <2>2. CASE Admits(call[c].got)
    BY <1>4, <2>1, <2>2
  <2>3. CASE ~Admits(call[c].got)
    <3>1. call[c].got <= Allowance(begun[w]) /\ Allowance(begun[w]) \in Nat
      BY <1>1, <2>1, AllowanceGrows DEF Budget
    <3>2. Fair(c)
      BY <2>1, <2>3, <3>1 DEF Admits
    <3>3. EndOf(w) \in Int /\ EndOf(w) <= clock + Window
      <4>1. w \in Nat /\ w * Window <= clock
        BY <2>1 DEF Clocked, Windows
      <4>2. EndOf(w) = w * Window + Window /\ w * Window \in Nat
        BY <4>1, SMT DEF EndOf
      <4> QED  BY <1>1, <4>1, <4>2
    <3>4. r \in Nat /\ clock + r >= EndOf(w)
      <4>1. CASE TtlOf(w) < 0
        BY <1>1, <3>3, <4>1 DEF ResetIn
      <4>2. CASE ~(TtlOf(w) < 0)
        <5>1. expiry[w] # 0 /\ clock < expiry[w] /\ TtlOf(w) = expiry[w] - clock
          BY <4>2 DEF TtlOf, Exists
        <5>2. expiry[w] \in Nat /\ expiry[w] >= EndOf(w)
          BY <2>1, <5>1 DEF Clocked, TypeOK
        <5> QED  BY <1>1, <3>3, <4>2, <5>1, <5>2 DEF ResetIn
      <4> QED  BY <4>1, <4>2
    <3> HIDE DEF r
    <3>5. Enough(c)
      BY <1>1, <2>1, <2>3, <3>3, <3>4
    <3> QED  BY <3>2, <3>5
  <2> QED  BY <2>2, <2>3
<1>6. ASSUME NEW d \in Calls PROVE Fair(d) /\ Enough(d)
  <2>1. CASE Ttl(d)
    BY <1>5, <2>1
  <2>2. CASE call'[d].told = 0
    BY <1>4, <2>2
  <2>3. CASE call'[d].win = call[d].win /\ call'[d].told = call[d].told
    BY <1>3, <2>3
  <2>4. Ttl(d) \/ call'[d].told = 0 \/ (call'[d].win = call[d].win /\ call'[d].told = call[d].told)
    <3> DEFINE Same == call'[d].win = call[d].win /\ call'[d].told = call[d].told
    <3>1. ASSUME NEW c \in Calls, Begin(c) PROVE Same \/ call'[d].told = 0
      BY <3>1 DEF Begin, NoCall, TypeOK
    <3>7. ASSUME NEW c \in Calls, FailOpen(c) \/ Dies(c) PROVE Same \/ call'[d].told = 0
      BY <3>7 DEF FailOpen, Dies, NoCall, TypeOK
    <3>2. ASSUME NEW c \in Calls, Incr(c) PROVE Same
      BY <3>2 DEF Incr, TypeOK
    <3>3. ASSUME NEW c \in Calls, Expire(c) PROVE Same
      BY <3>3 DEF Expire, TypeOK
    <3>8. ASSUME NEW c \in Calls, Repair(c) PROVE Same
      BY <3>8 DEF Repair, TypeOK
    <3>9. ASSUME NEW c \in Calls, Retry(c) PROVE Same
      BY <3>9 DEF Retry, TypeOK
    <3>4. ASSUME NEW c \in Calls, Ttl(c), c # d PROVE Same
      BY <3>4 DEF Ttl, Answer, TypeOK
    <3>5. CASE call' = call
      BY <3>5
    <3>6. (\E w \in Windows : Evict(w)) \/ Tick \/ UNCHANGED vars => call' = call
      BY DEF Evict, Tick, vars
    <3> QED  BY <3>1, <3>2, <3>3, <3>4, <3>5, <3>6, <3>7, <3>8, <3>9 DEF Next
  <2> QED  BY <2>1, <2>2, <2>3, <2>4
<1> QED  BY <1>6 DEF RefusedForThisWindow, WaitIsEnough, Allowance, EndOf

LEMMA RateInvariant == Spec => []RateInv
<1>1. RateInv /\ [Next]_vars => RateInv'
  <2> SUFFICES ASSUME RateInv, [Next]_vars PROVE RateInv'
    OBVIOUS
  <2>1. TypeOK /\ Clocked /\ Charged /\ Budget /\ RefusedForThisWindow /\ WaitIsEnough
    BY DEF RateInv
  <2>2. TypeOK' /\ Clocked'
    BY <2>1, TypeStep, ClockedStep
  <2>3. Charged' /\ Budget' /\ RefusedForThisWindow' /\ WaitIsEnough'
    BY <2>1, <2>2, ChargedStep, BudgetStep, VerdictStep
  <2> QED  BY <2>2, <2>3 DEF RateInv
<1> QED  BY InitRate, <1>1, PTL DEF Spec

\* Counters and deadlines keep their types.
THEOREM RateTypes == Spec => []TypeOK
<1>1. RateInv => TypeOK
  BY DEF RateInv
<1> QED  BY RateInvariant, <1>1, PTL

\* Allow's limit: however many replicas serve the client and whatever pipelines
\* break, of the requests counted before a window ends at most Limit are let
\* through, unless Redis lost the key: those let through on an error count too,
\* unless their own count was beyond the limit (ratelimit.go:111-124).
THEOREM RateWithinLimit == Spec => []WithinLimit
<1>1. RateInv => WithinLimit
  <2> SUFFICES ASSUME RateInv, NEW w \in Windows \ evicted PROVE passed[w] <= Limit
    BY DEF WithinLimit
  <2>1. passed[w] + Cardinality(Passing(w)) <= Limit /\ passed[w] \in Nat
    BY DEF RateInv, Charged, TypeOK
  <2> QED  BY <2>1, SetsFinite
<1> QED  BY RateInvariant, <1>1, PTL

\* Allow's window number: nobody is refused who has begun no more requests in the
\* window than the limit allows for, each counted once per pipeline sent.
THEOREM RateRefusedForThisWindow == Spec => []RefusedForThisWindow
<1>1. RateInv => RefusedForThisWindow
  BY DEF RateInv
<1> QED  BY RateInvariant, <1>1, PTL

\* Middleware's Retry-After: waiting as long as told reaches the next window.
THEOREM RateWaitIsEnough == Spec => []WaitIsEnough
<1>1. RateInv => WaitIsEnough
  BY DEF RateInv
<1> QED  BY RateInvariant, <1>1, PTL
=============================================================================
