-------------------------- MODULE CachedListProofs --------------------------
(***************************************************************************)
(* The cached listing never hides an acknowledged write, for any number of *)
(* readers and writers and any TTL, as long as Redis never loses the       *)
(* generation.                                                             *)
(*                                                                         *)
(* acked changes only together with gen, so to every generation belongs    *)
(* one value of acked: the floor of all readers that saw that generation,  *)
(* and a lower bound of every page stored under it.                        *)
(***************************************************************************)
EXTENDS CachedList, TLAPS

Active(r) == reader[r].pc \in {"get", "count", "select", "set"}

\* The page holds write v.
Holds(page, v) == page.total >= v /\ page.items >= v

WritesInv == acked <= db /\ \A w \in Writers : writer[w] <= db

\* What a reader holds, and the generation it saw.
ReaderInv ==
  \A r \in Readers :
    /\ reader[r].floor <= acked
    /\ Active(r) => reader[r].gen <= gen
    /\ Active(r) /\ reader[r].gen = gen => reader[r].floor = acked
    /\ reader[r].pc = "select" => reader[r].page.total >= reader[r].floor
    /\ reader[r].pc \in {"set", "done"} => Holds(reader[r].page, reader[r].floor)

\* Readers of one generation have one floor.
SameFloor == \A r, s \in Readers :
  Active(r) /\ Active(s) /\ reader[r].gen = reader[s].gen => reader[r].floor = reader[s].floor

\* What lies in the cache.
CacheInv ==
  \A g \in Generations : cache[g].left > 0 =>
    /\ g <= gen
    /\ g = gen => Holds(cache[g].page, acked)
    /\ \A r \in Readers : Active(r) /\ reader[r].gen = g => Holds(cache[g].page, reader[r].floor)

\* Before the first INCR nothing was promised, and calls that believe in
\* generation 0 are promised nothing.
ZeroInv == /\ gen = 0 => acked = 0
           /\ \A r \in Readers : Active(r) /\ reader[r].gen = 0 => reader[r].floor = 0

Fresh == TypeOK /\ WritesInv /\ ReaderInv /\ SameFloor /\ CacheInv /\ ZeroInv

\* Types hold whatever happens, the rest while the generation is not lost.
FreshInv == TypeOK /\ (intact => Fresh)

USE BoundAssumption

LEMMA InitFresh == Init => FreshInv
  BY DEF Init, FreshInv, Fresh, TypeOK, WritesInv, ReaderInv, SameFloor, CacheInv, ZeroInv, Active,
         Holds, Versions, Generations, Page, NoPage, Entry, NoEntry, Reader, Idle

\* The shapes of the records, which every step below starts from.
LEMMA Shapes ==
  ASSUME TypeOK
  PROVE  /\ db \in Nat /\ acked \in Nat /\ gen \in Nat
         /\ \A r \in Readers : /\ reader[r].floor \in Nat /\ reader[r].gen \in Generations
                               /\ reader[r].page.total \in Nat /\ reader[r].page.items \in Nat
         /\ \A g \in Generations : /\ cache[g].left \in Nat
                                   /\ cache[g].page.total \in Nat /\ cache[g].page.items \in Nat
         /\ \A w \in Writers : writer[w] \in Nat
<1>1. db \in Nat /\ acked \in Nat /\ gen \in Nat
  BY DEF TypeOK, Versions, Generations
<1>2. ASSUME NEW r \in Readers
      PROVE  /\ reader[r].floor \in Nat /\ reader[r].gen \in Generations
             /\ reader[r].page.total \in Nat /\ reader[r].page.items \in Nat
  <2>1. reader[r] \in Reader
    BY DEF TypeOK
  <2> QED  BY <2>1 DEF Versions, Page, Reader
<1>3. ASSUME NEW g \in Generations
      PROVE  /\ cache[g].left \in Nat
             /\ cache[g].page.total \in Nat /\ cache[g].page.items \in Nat
  <2>1. cache[g] \in Entry
    BY DEF TypeOK
  <2> QED  BY <2>1 DEF Versions, Page, Entry
<1>4. ASSUME NEW w \in Writers  PROVE writer[w] \in Nat
  BY DEF TypeOK, Versions
<1> QED  BY <1>1, <1>2, <1>3, <1>4

LEMMA WriteFresh ==
  ASSUME Fresh, NEW w \in Writers, Write(w)
  PROVE  Fresh'
<1>1. TypeOK'
  BY DEF Fresh, Write, TypeOK, Versions
<1>2. WritesInv'
  BY Shapes DEF Fresh, Write, WritesInv, TypeOK
<1>3. ReaderInv' /\ SameFloor' /\ CacheInv' /\ ZeroInv'
  BY DEF Fresh, Write, ReaderInv, SameFloor, CacheInv, ZeroInv, Active
<1> QED  BY <1>1, <1>2, <1>3 DEF Fresh

\* After the INCR nothing is stored under the current generation and no reader
\* has seen it.
LEMMA InvalidateFresh ==
  ASSUME Fresh, NEW w \in Writers, Invalidate(w)
  PROVE  Fresh'
<1> USE DEF Fresh, Invalidate
<1>1. TypeOK'
  BY DEF TypeOK, Versions, Generations, Later
<1>2. acked' >= acked /\ acked' <= db
  BY Shapes DEF WritesInv, Later
<1>3. WritesInv'
  BY <1>2, Shapes DEF WritesInv, TypeOK
<1>4. ReaderInv'
  <2> SUFFICES ASSUME NEW r \in Readers
               PROVE  /\ reader[r].floor <= acked'
                      /\ Active(r) => reader[r].gen <= gen + 1 /\ reader[r].gen # gen + 1
    BY DEF ReaderInv, Active, Holds
  <2>1. reader[r].floor \in Nat /\ reader[r].gen \in Nat /\ gen \in Nat /\ acked \in Nat /\ acked' \in Nat
    BY Shapes, <1>1 DEF TypeOK, Versions, Generations
  <2> QED  BY <1>2, <2>1 DEF ReaderInv
<1>5. SameFloor'
  BY DEF SameFloor, Active
<1>6. CacheInv'
  BY Shapes DEF CacheInv, Active, Generations
<1>7. ZeroInv'
  BY Shapes DEF ZeroInv, Active
<1> QED  BY <1>1, <1>3, <1>4, <1>5, <1>6, <1>7

LEMMA WriteUncachedFresh ==
  ASSUME Fresh, WriteUncached
  PROVE  Fresh'
<1>1. TypeOK'
  BY DEF Fresh, WriteUncached, TypeOK, Versions
<1>2. WritesInv'
  BY Shapes DEF Fresh, WriteUncached, WritesInv, TypeOK
<1>3. ReaderInv' /\ SameFloor' /\ CacheInv' /\ ZeroInv'
  BY DEF Fresh, WriteUncached, ReaderInv, SameFloor, CacheInv, ZeroInv, Active
<1> QED  BY <1>1, <1>2, <1>3 DEF Fresh

LEMMA InvalidateFailsFresh ==
  ASSUME Fresh, NEW w \in Writers, InvalidateFails(w)
  PROVE  Fresh'
  BY Shapes DEF Fresh, InvalidateFails, TypeOK, Versions, WritesInv, ReaderInv, SameFloor,
         CacheInv, ZeroInv, Active

\* A step that changes one reader and nothing else keeps the invariant if the
\* reader's new record satisfies its part of it.
LEMMA ReaderStep ==
  ASSUME Fresh, NEW r \in Readers, NEW new \in Reader,
         reader' = [reader EXCEPT ![r] = new],
         UNCHANGED <<db, up, acked, gen, writer>>,
         cache' = cache,
         intact' = intact,
         new.floor <= acked,
         new.pc \in {"get", "count", "select", "set"} =>
            \/ /\ Active(r) /\ new.gen = reader[r].gen /\ new.floor = reader[r].floor
            \/ new.gen = gen /\ new.floor = acked
            \/ new.gen = 0 /\ new.floor = 0,
         new.pc = "select" => new.page.total >= new.floor,
         new.pc \in {"set", "done"} => Holds(new.page, new.floor)
  PROVE  Fresh'
<1> USE DEF Fresh
<1>1. TypeOK'
  BY DEF TypeOK
<1>2. reader'[r] = new /\ \A s \in Readers \ {r} : reader'[s] = reader[s]
  BY DEF TypeOK
<1>3. WritesInv'
  BY DEF WritesInv
<1>4. ReaderInv'
  BY <1>2, Shapes DEF ReaderInv, ZeroInv, Active
<1>5. SameFloor'
  <2> SUFFICES ASSUME NEW s \in Readers, NEW t \in Readers,
                      Active(s)', Active(t)', (reader[s].gen = reader[t].gen)'
               PROVE  (reader[s].floor = reader[t].floor)'
    BY DEF SameFloor
  <2> QED  BY <1>2, Shapes DEF SameFloor, ReaderInv, ZeroInv, Active
<1>6. CacheInv'
  BY <1>2, Shapes DEF CacheInv, Active, Holds
<1>7. ZeroInv'
  BY <1>2 DEF ZeroInv, Active
<1> QED  BY <1>1, <1>3, <1>4, <1>5, <1>6, <1>7

LEMMA StartFresh ==
  ASSUME Fresh, NEW r \in Readers, Start(r)
  PROVE  Fresh'
<1> DEFINE new == [pc |-> "get", gen |-> gen, floor |-> acked, page |-> NoPage]
<1>1. new \in Reader /\ reader' = [reader EXCEPT ![r] = new]
  BY DEF Fresh, TypeOK, Start, StartWith, Reader, Page, NoPage, Versions
<1>2. acked <= acked
  BY Shapes DEF Fresh
<1> QED  BY <1>1, <1>2, ReaderStep DEF Start, StartWith, ReaderOnly

LEMMA StartWithoutRedisFresh ==
  ASSUME Fresh, NEW r \in Readers, StartWithoutRedis(r)
  PROVE  Fresh'
<1> DEFINE new == [pc |-> "get", gen |-> 0, floor |-> 0, page |-> NoPage]
<1>1. new \in Reader /\ reader' = [reader EXCEPT ![r] = new]
  BY DEF StartWithoutRedis, StartWith, Reader, Page, NoPage, Versions, Generations
<1>2. 0 <= acked
  BY Shapes DEF Fresh
<1> QED  BY <1>1, <1>2, ReaderStep DEF StartWithoutRedis, StartWith, ReaderOnly

LEMMA HaveIsDone ==
  ASSUME TypeOK, NEW r \in Readers, NEW page \in Page, Have(r, page)
  PROVE  Done(r, page) \in Reader /\ reader' = [reader EXCEPT ![r] = Done(r, page)]
<1>1. reader[r] \in Reader /\ 0 \in Generations
  BY DEF TypeOK, Generations
<1>2. Done(r, page) \in Reader
  BY <1>1 DEF Done, Reader
<1> QED  BY <1>2 DEF Have

LEMMA HitFresh ==
  ASSUME Fresh, NEW r \in Readers, Hit(r)
  PROVE  Fresh'
<1> DEFINE old == reader[r]
           page == cache[old.gen].page
           new == Done(r, page)
<1>1. old \in Reader /\ old.gen \in Generations /\ 0 \in Generations /\ page \in Page
  BY DEF Fresh, TypeOK, Reader, Entry, Generations
<1>2. new \in Reader /\ reader' = [reader EXCEPT ![r] = new]
  BY <1>1, HaveIsDone DEF Hit, Fresh
<1>3. Holds(page, old.floor)
  BY <1>1 DEF Fresh, CacheInv, Hit, Active
<1>4. old.floor <= acked
  BY DEF Fresh, ReaderInv
<1>5. new.pc = "done" /\ new.floor = old.floor /\ new.page = page
  BY DEF Done
<1> HIDE DEF new
<1> QED  BY <1>2, <1>3, <1>4, <1>5, ReaderStep DEF Hit, ReaderOnly

LEMMA GotoCountFresh ==
  ASSUME Fresh, NEW r \in Readers, Miss(r) \/ GetFails(r)
  PROVE  Fresh'
<1> DEFINE old == reader[r]
           new == [old EXCEPT !.pc = "count"]
<1>1. new \in Reader /\ reader' = [reader EXCEPT ![r] = new]
  BY DEF Fresh, TypeOK, Miss, GetFails, Goto, Reader
<1>2. new.gen = old.gen /\ new.floor = old.floor /\ new.pc = "count" /\ Active(r)
  BY DEF Miss, GetFails, Active, Fresh, TypeOK, Reader
<1>3. old.floor <= acked
  BY DEF Fresh, ReaderInv
<1> QED  BY <1>1, <1>2, <1>3, ReaderStep DEF Miss, GetFails, ReaderOnly

LEMMA CountFresh ==
  ASSUME Fresh, NEW r \in Readers, Count(r)
  PROVE  Fresh'
<1> DEFINE old == reader[r]
           new == [old EXCEPT !.page.total = db, !.pc = "select"]
<1>1. new \in Reader /\ reader' = [reader EXCEPT ![r] = new]
  BY DEF Fresh, TypeOK, Count, Reader, Page
<1>2. /\ new.gen = old.gen /\ new.floor = old.floor /\ new.pc = "select"
      /\ new.page.total = db /\ Active(r)
  BY DEF Count, Active, Fresh, TypeOK, Reader, Page
<1>3. old.floor <= acked /\ db >= old.floor
  BY Shapes DEF Fresh, ReaderInv, WritesInv
<1> QED  BY <1>1, <1>2, <1>3, ReaderStep DEF Count, ReaderOnly

LEMMA SelectFresh ==
  ASSUME Fresh, NEW r \in Readers, Select(r)
  PROVE  Fresh'
<1> DEFINE old == reader[r]
           new == [old EXCEPT !.page.items = db, !.pc = "set"]
<1>1. new \in Reader /\ reader' = [reader EXCEPT ![r] = new]
  BY DEF Fresh, TypeOK, Select, Reader, Page
<1>2. /\ new.gen = old.gen /\ new.floor = old.floor /\ new.pc = "set"
      /\ new.page.items = db /\ new.page.total = old.page.total /\ Active(r)
  BY DEF Select, Active, Fresh, TypeOK, Reader, Page
<1>3. old.floor <= acked /\ Holds(new.page, new.floor)
  BY <1>2, Shapes DEF Fresh, ReaderInv, WritesInv, Holds, Select
<1> QED  BY <1>1, <1>2, <1>3, ReaderStep DEF Select, ReaderOnly

\* What the reader is left with when it has its page, stored or not.
LEMMA DoneFresh ==
  ASSUME Fresh, NEW r \in Readers, reader[r].pc = "set",
         Have(r, reader[r].page), UNCHANGED <<db, up, acked, gen, cache, intact, writer>>
  PROVE  Fresh'
<1> DEFINE old == reader[r]
           new == Done(r, old.page)
<1>1. old.page \in Page
  BY DEF Fresh, TypeOK, Reader
<1>2. new \in Reader /\ reader' = [reader EXCEPT ![r] = new]
  BY <1>1, HaveIsDone DEF Fresh
<1>3. old.floor <= acked /\ Holds(old.page, old.floor)
  BY DEF Fresh, ReaderInv
<1>4. new.pc = "done" /\ new.floor = old.floor /\ new.page = old.page
  BY DEF Done
<1> HIDE DEF new
<1> QED  BY <1>2, <1>3, <1>4, ReaderStep

LEMMA LeaveFresh ==
  ASSUME Fresh, NEW r \in Readers, Leave(r)
  PROVE  Fresh'
<1>1. Idle \in Reader /\ Idle.floor = 0 /\ Idle.pc = "idle"
  BY DEF Idle, Reader, NoPage, Page, Versions, Generations
<1>2. 0 <= acked
  BY Shapes DEF Fresh
<1> QED  BY <1>1, <1>2, ReaderStep DEF Leave, ReaderOnly

\* The page goes under the generation seen before the database was read: if
\* that is still the current one, no write has been acknowledged since.
LEMMA StoreFresh ==
  ASSUME Fresh, NEW r \in Readers, Store(r)
  PROVE  Fresh'
<1> DEFINE old == reader[r]
           entry == [page |-> old.page, left |-> Ttl]
           new == Done(r, old.page)
<1> USE DEF Fresh
<1>1. old \in Reader /\ old.page \in Page /\ entry \in Entry /\ old.gen \in Generations
  BY DEF TypeOK, Reader, Entry, Generations
<1>0. /\ new \in Reader /\ reader' = [reader EXCEPT ![r] = new]
      /\ new.pc = "done" /\ new.floor = old.floor /\ new.page = old.page
  BY <1>1, HaveIsDone DEF Store, StoreUnder, Done
<1> HIDE DEF new
<1>2. /\ cache' = [cache EXCEPT ![old.gen] = entry]
      /\ UNCHANGED <<db, up, acked, gen, intact, writer>>
      /\ old.pc = "set" /\ Active(r)
  BY <1>1 DEF Store, StoreUnder, Active
<1>3. TypeOK'
  BY <1>0, <1>1, <1>2 DEF TypeOK
<1>4. /\ reader'[r] = new /\ \A s \in Readers \ {r} : reader'[s] = reader[s]
      /\ cache'[old.gen] = entry
      /\ \A g \in Generations \ {old.gen} : cache'[g] = cache[g]
  BY <1>0, <1>1, <1>2 DEF TypeOK
<1>5. WritesInv'
  BY <1>2 DEF WritesInv
<1>6. ReaderInv'
  BY <1>0, <1>2, <1>4 DEF ReaderInv, Active, Holds
<1>7. SameFloor'
  BY <1>0, <1>2, <1>4 DEF SameFloor, Active
<1>8. Holds(old.page, old.floor)
  BY <1>2 DEF ReaderInv
<1>9. CacheInv'
  <2> SUFFICES ASSUME NEW g \in Generations, cache'[g].left > 0
               PROVE  /\ g <= gen'
                      /\ g = gen' => Holds(cache'[g].page, acked')
                      /\ \A s \in Readers : Active(s)' /\ reader'[s].gen = g
                                              => Holds(cache'[g].page, reader'[s].floor)
    BY DEF CacheInv, Active, Holds
  <2>1. CASE g = old.gen
    <3>1. g <= gen' /\ (g = gen' => Holds(cache'[g].page, acked'))
      BY <1>0, <1>2, <1>4, <1>8, <2>1 DEF ReaderInv
    <3>2. ASSUME NEW s \in Readers, Active(s)', reader'[s].gen = g
          PROVE  Holds(cache'[g].page, reader'[s].floor)
      BY <1>0, <1>2, <1>4, <1>8, <2>1, <3>2 DEF SameFloor, Active
    <3> QED  BY <3>1, <3>2
  <2>2. CASE g # old.gen
    BY <1>0, <1>2, <1>4, <2>2 DEF CacheInv, Active
  <2> QED  BY <2>1, <2>2
<1>10. ZeroInv'
  BY <1>0, <1>2, <1>4 DEF ZeroInv, Active
<1> QED  BY <1>3, <1>5, <1>6, <1>7, <1>9, <1>10

\* Pages only disappear or grow older.
LEMMA FewerPages ==
  ASSUME Fresh, UNCHANGED <<db, up, acked, gen, writer, reader>>, intact' = intact,
         cache' \in [Generations -> Entry],
         \A g \in Generations : cache'[g].left > 0 =>
           cache[g].left > 0 /\ cache'[g].page = cache[g].page
  PROVE  Fresh'
<1>1. TypeOK' /\ WritesInv' /\ ReaderInv' /\ SameFloor' /\ ZeroInv'
  BY DEF Fresh, TypeOK, WritesInv, ReaderInv, SameFloor, ZeroInv, Active
<1>2. CacheInv'
  BY DEF Fresh, CacheInv, Active
<1> QED  BY <1>1, <1>2 DEF Fresh

LEMMA EvictPageFresh ==
  ASSUME Fresh, NEW g \in Generations, EvictPage(g)
  PROVE  Fresh'
<1>1. NoEntry \in Entry /\ ~ (NoEntry.left > 0)
  BY DEF NoEntry, Entry, NoPage, Page, Versions
<1>2. /\ cache' \in [Generations -> Entry]
      /\ \A h \in Generations : cache'[h].left > 0 => cache'[h] = cache[h]
  BY <1>1 DEF EvictPage, Fresh, TypeOK
<1> QED  BY <1>2, FewerPages DEF EvictPage

LEMMA TickFresh ==
  ASSUME Fresh, Tick
  PROVE  Fresh'
<1>1. NoEntry \in Entry /\ NoEntry.left = 0
  BY DEF NoEntry, Entry, NoPage, Page, Versions
<1>2. ASSUME NEW g \in Generations
      PROVE  /\ Older(cache[g]) \in Entry
             /\ Older(cache[g]).left > 0 =>
                  cache[g].left > 0 /\ Older(cache[g]).page = cache[g].page
  BY <1>1 DEF Older, Fresh, TypeOK, Entry
<1>3. /\ cache' \in [Generations -> Entry]
      /\ \A g \in Generations : cache'[g].left > 0 =>
           cache[g].left > 0 /\ cache'[g].page = cache[g].page
  BY <1>2 DEF Tick
<1> QED  BY <1>3, FewerPages DEF Tick

\* Types are kept by every step, the generation lost or not.
LEMMA NextTypes == TypeOK /\ [Next]_vars => TypeOK'
<1> SUFFICES ASSUME TypeOK, [Next]_vars  PROVE TypeOK'
  OBVIOUS
<1>1. CASE UNCHANGED vars
  BY <1>1 DEF vars, TypeOK
<1>2. ASSUME NEW w \in Writers, Write(w) \/ Invalidate(w) \/ InvalidateFails(w)  PROVE TypeOK'
  <2>1. CASE Write(w)
    BY <2>1 DEF Write, TypeOK, Versions
  <2>2. CASE Invalidate(w)
    <3>1. acked' \in Versions /\ acked' <= db /\ gen' \in Generations
      BY <2>2 DEF Invalidate, TypeOK, Versions, Generations, Later
    <3>2. writer' \in [Writers -> Versions] /\ \A v \in Writers : writer'[v] <= db
      BY <2>2 DEF Invalidate, TypeOK, Versions
    <3> QED  BY <2>2, <3>1, <3>2 DEF Invalidate, TypeOK
  <2>3. CASE InvalidateFails(w)
    BY <2>3 DEF InvalidateFails, TypeOK, Versions
  <2> QED  BY <1>2, <2>1, <2>2, <2>3
<1>3. ASSUME NEW r \in Readers, NEW new \in Reader, reader' = [reader EXCEPT ![r] = new],
             UNCHANGED <<db, up, acked, gen, intact, writer>>, cache' \in [Generations -> Entry]
      PROVE  TypeOK'
  BY <1>3 DEF TypeOK
<1>4. ASSUME NEW r \in Readers, Start(r) \/ StartWithoutRedis(r) \/ GetFails(r) \/ List(r)
      PROVE  TypeOK'
  <2>1. reader[r] \in Reader /\ reader[r].page \in Page /\ reader[r].gen \in Generations
    BY DEF TypeOK, Reader
  <2>2. NoPage \in Page /\ 0 \in Generations /\ 0 \in Versions /\ Idle \in Reader
    BY DEF NoPage, Page, Versions, Generations, Idle, Reader
  <2>3. ASSUME NEW page \in Page, Have(r, page), ReaderOnly  PROVE TypeOK'
    BY <1>3, <2>3, HaveIsDone DEF ReaderOnly, TypeOK
  <2>4. CASE Start(r) \/ StartWithoutRedis(r)
    <3>1. PICK g \in Generations, floor \in Versions : StartWith(r, g, floor)
      BY <2>2, <2>4 DEF Start, StartWithoutRedis, TypeOK
    <3>2. [pc |-> "get", gen |-> g, floor |-> floor, page |-> NoPage] \in Reader
      BY <2>2 DEF Reader
    <3> QED  BY <1>3, <3>1, <3>2 DEF StartWith, ReaderOnly, TypeOK
  <2>5. CASE Miss(r) \/ GetFails(r)
    <3>1. [reader[r] EXCEPT !.pc = "count"] \in Reader
      BY <2>1 DEF Reader
    <3> QED  BY <1>3, <2>5, <3>1 DEF Miss, GetFails, Goto, ReaderOnly, TypeOK
  <2>6. CASE Hit(r)
    <3>1. cache[reader[r].gen].page \in Page
      BY <2>1 DEF TypeOK, Entry
    <3> QED  BY <2>3, <2>6, <3>1 DEF Hit
  <2>7. CASE Count(r)
    <3>1. [reader[r] EXCEPT !.page.total = db, !.pc = "select"] \in Reader
      BY <2>1 DEF Reader, Page, TypeOK
    <3> QED  BY <1>3, <2>7, <3>1 DEF Count, ReaderOnly, TypeOK
  <2>8. CASE Select(r)
    <3>1. [reader[r] EXCEPT !.page.items = db, !.pc = "set"] \in Reader
      BY <2>1 DEF Reader, Page, TypeOK
    <3> QED  BY <1>3, <2>8, <3>1 DEF Select, ReaderOnly, TypeOK
  <2>9. CASE Store(r)
    <3>1. [page |-> reader[r].page, left |-> Ttl] \in Entry
      BY <2>1 DEF Entry
    <3>2. Done(r, reader[r].page) \in Reader
      BY <2>1, <2>9, HaveIsDone DEF Store, StoreUnder
    <3> QED  BY <1>3, <2>1, <2>9, <3>1, <3>2 DEF Store, StoreUnder, Have, TypeOK
  <2>10. CASE StoreFails(r)
    BY <2>1, <2>3, <2>10 DEF StoreFails
  <2>11. CASE DatabaseFails(r) \/ Return(r)
    BY <1>3, <2>2, <2>11 DEF DatabaseFails, Return, Leave, ReaderOnly, TypeOK
  <2> QED  BY <1>4, <2>4, <2>5, <2>6, <2>7, <2>8, <2>9, <2>10, <2>11 DEF List
<1>5. ASSUME NEW g \in Generations, EvictPage(g)  PROVE TypeOK'
  BY <1>5 DEF EvictPage, TypeOK, NoEntry, Entry, NoPage, Page, Versions
<1>6. CASE EvictGeneration
  <2>1. 0 \in Generations /\ FALSE \in BOOLEAN
    BY DEF Generations
  <2>2. gen' = 0 /\ intact' = FALSE /\ UNCHANGED <<db, up, acked, cache, writer, reader>>
    BY <1>6 DEF EvictGeneration
  <2> QED  BY <2>1, <2>2 DEF TypeOK
<1>7. CASE Tick
  <2>1. ASSUME NEW g \in Generations  PROVE Older(cache[g]) \in Entry
    BY DEF Older, NoEntry, TypeOK, Entry, NoPage, Page, Versions
  <2> QED  BY <1>7, <2>1 DEF Tick, TypeOK
<1>8. CASE Outage \/ Recovery
  BY <1>8 DEF Outage, Recovery, TypeOK
<1>9. CASE WriteUncached
  BY <1>9 DEF WriteUncached, TypeOK, Versions
<1> QED  BY <1>1, <1>2, <1>4, <1>5, <1>6, <1>7, <1>8, <1>9 DEF Next

\* While the generation is there, a step keeps the rest or loses it.
LEMMA NextFresh == Fresh /\ [Next]_vars => Fresh' \/ ~intact'
<1> SUFFICES ASSUME Fresh, [Next]_vars, intact'  PROVE Fresh'
  OBVIOUS
<1>1. CASE UNCHANGED vars
  BY <1>1 DEF vars, Fresh, TypeOK, WritesInv, ReaderInv, SameFloor, CacheInv, ZeroInv, Active
<1>2. ASSUME NEW w \in Writers, Write(w) \/ Invalidate(w) \/ InvalidateFails(w)  PROVE Fresh'
  BY <1>2, WriteFresh, InvalidateFresh, InvalidateFailsFresh
<1>3. ASSUME NEW r \in Readers, Start(r) \/ StartWithoutRedis(r) \/ GetFails(r)  PROVE Fresh'
  BY <1>3, StartFresh, StartWithoutRedisFresh, GotoCountFresh
<1>4. ASSUME NEW r \in Readers, List(r)  PROVE Fresh'
  <2>1. CASE StoreFails(r)
    BY <2>1, DoneFresh DEF StoreFails, ReaderOnly
  <2> QED  BY <1>4, <2>1, HitFresh, GotoCountFresh, CountFresh, SelectFresh, StoreFresh,
              LeaveFresh DEF List, DatabaseFails, Return
<1>5. ASSUME NEW g \in Generations, EvictPage(g)  PROVE Fresh'
  BY <1>5, EvictPageFresh
<1>6. CASE Tick
  BY <1>6, TickFresh
<1>7. CASE Outage \/ Recovery
  <2>1. TypeOK' /\ UNCHANGED <<db, acked, gen, cache, writer, reader>>
    BY <1>7 DEF Outage, Recovery, Fresh, TypeOK
  <2>2. WritesInv' /\ ReaderInv' /\ SameFloor'
    BY <2>1 DEF Fresh, WritesInv, ReaderInv, SameFloor, Active
  <2>3. CacheInv' /\ ZeroInv'
    BY <2>1 DEF Fresh, CacheInv, ZeroInv, Active
  <2> QED  BY <2>1, <2>2, <2>3 DEF Fresh
<1>8. ~ EvictGeneration
  BY DEF EvictGeneration
<1>9. CASE WriteUncached
  BY <1>9, WriteUncachedFresh
<1> QED  BY <1>1, <1>2, <1>3, <1>4, <1>5, <1>6, <1>7, <1>8, <1>9 DEF Next

\* A generation once lost stays lost for the history.
LEMMA IntactOnce == TypeOK /\ [Next]_vars /\ intact' => intact
  BY DEF Next, vars, Write, WriteUncached, Invalidate, InvalidateFails, Start, StartWithoutRedis,
         StartWith, GetFails, List, Hit, Miss, Count, Select, Store, StoreUnder, StoreFails, DatabaseFails,
         Return, Leave, ReaderOnly, EvictPage, EvictGeneration, Tick, Outage, Recovery

\* The invariant that carries the proof.
THEOREM FreshInvariant == Spec => []FreshInv
<1>1. FreshInv /\ [Next]_vars => FreshInv'
  BY NextTypes, NextFresh, IntactOnce DEF FreshInv
<1> QED  BY <1>1, InitFresh, PTL DEF Spec

\* A listing asked for after a write was answered and invalidated shows that
\* write or a later state, whatever List calls, writes, lost INCRs and evictions
\* of pages overlap.
THEOREM CachedListFresh == Spec => []ReadYourWrites
<1>1. FreshInv => ReadYourWrites
  BY DEF FreshInv, Fresh, ReaderInv, ReadYourWrites, Holds
<1> QED  BY <1>1, FreshInvariant, PTL

\* Versions, generations and the life of pages keep their types.
THEOREM CachedListTypes == Spec => []TypeOK
<1>1. FreshInv => TypeOK
  BY DEF FreshInv
<1> QED  BY <1>1, FreshInvariant, PTL
-----------------------------------------------------------------------------
(***************************************************************************)
(* Why the listing corrects itself (SelfCorrects), as far as it is a       *)
(* matter of safety: without another write, staleness has no source but    *)
(* the List calls that already read an older table, each of which stores   *)
(* its page once, and a stale page only grows older.                       *)
(***************************************************************************)
Current == [total |-> db, items |-> db]
Stale(g) == cache[g].left > 0 /\ cache[g].page # Current

\* The List call will store, or return, what is not the table any more.
Carries(r) == \/ reader[r].pc = "select" /\ reader[r].page.total # db
              \/ reader[r].pc = "set" /\ reader[r].page # Current

\* No step begins to carry; a stale page was there before, with no less time to
\* live, unless a call that carried one has just stopped; and a tick takes time
\* off every stale page.
AgesOnly ==
  db' = db =>
    /\ \A r \in Readers : Carries(r)' => Carries(r)
    /\ \A g \in Generations : Stale(g)' =>
         \/ Stale(g) /\ cache'[g].page = cache[g].page /\ cache'[g].left <= cache[g].left
         \/ \E r \in Readers : Carries(r) /\ ~Carries(r)'
    /\ Tick => \A g \in Generations : Stale(g)' => cache'[g].left < cache[g].left

LEMMA AgesOnlyStep == TypeOK /\ [Next]_vars => [AgesOnly]_vars
<1> SUFFICES ASSUME TypeOK, Next, db' = db PROVE AgesOnly
  BY DEF AgesOnly
<1>1. ASSUME reader' = reader, \A g \in Generations : Stale(g)' => cache'[g] = cache[g], ~Tick
      PROVE  AgesOnly
  BY <1>1, Shapes DEF AgesOnly, Stale, Carries, Current
<1>2. ASSUME NEW w \in Writers, Write(w) \/ Invalidate(w) \/ InvalidateFails(w), ~Tick
      PROVE  AgesOnly
  BY <1>1, <1>2 DEF Write, Invalidate, InvalidateFails
<1>3. ASSUME NEW g \in Generations, EvictPage(g), ~Tick PROVE AgesOnly
  <2>1. \A h \in Generations : Stale(h)' => cache'[h] = cache[h]
    BY <1>3 DEF EvictPage, Stale, NoEntry, TypeOK
  <2> QED  BY <1>1, <1>3, <2>1 DEF EvictPage
<1>4. CASE (WriteUncached \/ EvictGeneration \/ Outage \/ Recovery) /\ ~Tick
  BY <1>1, <1>4 DEF WriteUncached, EvictGeneration, Outage, Recovery
<1>5. CASE Tick
  <2>1. ASSUME NEW g \in Generations, Stale(g)'
        PROVE  Stale(g) /\ cache'[g].page = cache[g].page /\ cache'[g].left < cache[g].left
    <3>1. cache'[g] = Older(cache[g]) /\ cache[g] \in Entry /\ cache[g].left \in Nat
      BY <1>5, Shapes DEF Tick, TypeOK
    <3>2. cache'[g].left > 0
      BY <2>1 DEF Stale
    <3>3. ~(cache[g].left <= 1) /\ cache'[g] = [cache[g] EXCEPT !.left = @ - 1]
      BY <3>1, <3>2 DEF Older, NoEntry
    <3> QED  BY <2>1, <3>1, <3>3 DEF Stale, Current, Entry
  <2>2. \A r \in Readers : Carries(r)' => Carries(r)
    BY <1>5 DEF Tick, Carries, Current
  <2>3. ASSUME NEW g \in Generations, Stale(g)' PROVE cache'[g].left <= cache[g].left
    <3>1. cache'[g].left < cache[g].left /\ cache[g].left \in Nat
      BY <2>1, <2>3, Shapes
    <3>2. cache'[g].left \in Nat
      BY NextTypes, Shapes DEF TypeOK, Entry
    <3> QED  BY <3>1, <3>2
  <2> QED  BY <2>1, <2>2, <2>3 DEF AgesOnly
<1>6. ASSUME NEW r \in Readers, cache' = cache, ~Tick, Carries(r)' => Carries(r),
             \A s \in Readers \ {r} : reader'[s] = reader[s]
      PROVE  AgesOnly
  <2>1. \A s \in Readers : Carries(s)' => Carries(s)
    BY <1>6 DEF Carries, Current
  <2>2. \A g \in Generations : cache[g].left <= cache[g].left
    BY Shapes
  <2> QED  BY <1>6, <2>1, <2>2 DEF AgesOnly, Stale, Current
<1>7. ASSUME NEW r \in Readers, ~Tick,
             Start(r) \/ StartWithoutRedis(r) \/ GetFails(r) \/ List(r)
      PROVE  AgesOnly
  <2> DEFINE old == reader[r]
  <2>1. old \in Reader /\ old.page \in Page
    BY DEF TypeOK, Reader
  <2>2. ASSUME NEW new, reader' = [reader EXCEPT ![r] = new]
        PROVE  reader'[r] = new /\ \A s \in Readers \ {r} : reader'[s] = reader[s]
    BY <2>2 DEF TypeOK
  <2>3. ASSUME NEW new, reader' = [reader EXCEPT ![r] = new], cache' = cache,
               new.pc \notin {"select", "set"}
        PROVE  AgesOnly
    BY <1>6, <1>7, <2>2, <2>3 DEF Carries
  <2>4. CASE Start(r) \/ StartWithoutRedis(r)
    BY <2>3, <2>4 DEF Start, StartWithoutRedis, StartWith, ReaderOnly
  <2>5. CASE Miss(r) \/ GetFails(r)
    <3>1. [old EXCEPT !.pc = "count"].pc = "count"
      BY <2>1 DEF Reader
    <3> QED  BY <2>3, <2>5, <3>1 DEF Miss, GetFails, Goto, ReaderOnly
  <2>6. CASE Hit(r) \/ StoreFails(r)
    BY <2>3, <2>6 DEF Hit, StoreFails, Have, Done, ReaderOnly
  <2>7. CASE DatabaseFails(r) \/ Return(r)
    BY <2>3, <2>7 DEF DatabaseFails, Return, Leave, Idle, ReaderOnly
  <2>8. CASE Count(r)
    <3> DEFINE new == [old EXCEPT !.page.total = db, !.pc = "select"]
    <3>1. new.pc = "select" /\ new.page.total = db
      BY <2>1 DEF Reader, Page
    <3>2. reader'[r] = new /\ \A s \in Readers \ {r} : reader'[s] = reader[s]
      BY <2>2, <2>8 DEF Count
    <3>3. ~Carries(r)'
      BY <3>1, <3>2 DEF Carries
    <3> QED  BY <1>6, <1>7, <2>8, <3>2, <3>3 DEF Count, ReaderOnly
  <2>9. CASE Select(r)
    <3> DEFINE new == [old EXCEPT !.page.items = db, !.pc = "set"]
    <3>1. new.page = [total |-> old.page.total, items |-> db] /\ old.pc = "select"
      BY <2>1, <2>9 DEF Reader, Page, Select
    <3>2. reader'[r] = new /\ \A s \in Readers \ {r} : reader'[s] = reader[s]
      BY <2>2, <2>9 DEF Select
    <3>3. Carries(r)' => Carries(r)
      BY <3>1, <3>2 DEF Carries, Current
    <3> QED  BY <1>6, <1>7, <2>9, <3>2, <3>3 DEF Select, ReaderOnly
  <2>10. CASE Store(r)
    <3> DEFINE entry == [page |-> old.page, left |-> Ttl]
    <3>1. /\ cache' = [cache EXCEPT ![old.gen] = entry] /\ old.pc = "set"
          /\ reader' = [reader EXCEPT ![r] = Done(r, old.page)]
      BY <2>10 DEF Store, StoreUnder, Have
    <3>2. reader'[r].pc = "done" /\ \A s \in Readers \ {r} : reader'[s] = reader[s]
      BY <2>2, <3>1 DEF Done
    <3>3. ~Carries(r)' /\ \A s \in Readers : Carries(s)' => Carries(s)
      BY <3>2 DEF Carries, Current
    <3>4. CASE Carries(r)
      BY <1>7, <3>3, <3>4 DEF AgesOnly
    <3>5. CASE ~Carries(r)
      <4>1. old.page = Current
        BY <3>1, <3>5 DEF Carries
      <4>2. \A g \in Generations : cache'[g] = cache[g] \/ cache'[g] = entry
        BY <3>1 DEF TypeOK
      <4>3. \A g \in Generations : Stale(g)' => cache'[g] = cache[g]
        BY <4>1, <4>2 DEF Stale, Current
      <4> QED  BY <1>7, <3>3, <4>3, Shapes DEF AgesOnly, Stale, Current
    <3> QED  BY <3>4, <3>5
  <2> QED  BY <1>7, <2>4, <2>5, <2>6, <2>7, <2>8, <2>9, <2>10 DEF List
<1> QED  BY <1>2, <1>3, <1>4, <1>5, <1>6, <1>7 DEF Next

\* Without writes staleness only runs out, whatever fails in Redis and Postgres.
THEOREM CachedListAgesOnly == Spec => [][AgesOnly]_vars
BY AgesOnlyStep, CachedListTypes, PTL DEF Spec
=============================================================================
