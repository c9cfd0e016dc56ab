-------------------------- MODULE LifecycleProofs --------------------------
(***************************************************************************)
(* For any number of replicas, requests and migrations: a replica past     *)
(* Migrate has every table, a restart seeds nothing, and no request is cut *)
(* short by an orderly shutdown.                                           *)
(*                                                                         *)
(* Three inductive parts on top of the types: SchemaOK ties the marks, the *)
(* tables and the replica inside the lock to one another; SeedOK says that *)
(* until there are events every replica that runs booted before them;      *)
(* PoolOK that the pool is never closed over requests in flight unless the *)
(* deadline has passed or the server died.                                 *)
(***************************************************************************)
EXTENDS Lifecycle, TLAPS

Migrating == {"version", "script", "mark"}
Before == {"off", "migrate"} \cup Migrating

SchemaOK ==
  /\ \A r \in Replicas : pc[r] \in Migrating <=> lock = r
  /\ marked.dirty => applied \in {marked.version - 1, marked.version} /\ marked.version > 0
  /\ ~marked.dirty => applied = marked.version
  /\ \A r \in Replicas : pc[r] = "script" => marked.dirty /\ applied = marked.version - 1
  /\ \A r \in Replicas : pc[r] = "mark" => marked.dirty /\ applied = marked.version
  /\ \A r \in Replicas : pc[r] \notin Before => marked.version = Latest /\ ~marked.dirty

SeedOK == /\ seeded = 0 => \A r \in Replicas : pc[r] # "off" => r \in fresh
          /\ \A r \in Replicas : pc[r] = "insert" => r \in fresh

PoolOK ==
  /\ \A q \in Requests : request[q].step = "none" <=> request[q].at = Nobody
  /\ \A q \in Requests, r \in Replicas :
       request[q].at = r /\ pc[r] \in {"release", "close"} => r \in late \cup failed
  /\ \A q \in Requests : request[q].cut => request[q].at \in late \cup failed

\* TypeOK, in the form that a step is easily shown to keep.
Types == /\ pc \in [Replicas -> {"off"} \cup Starting \cup Serving \cup Stopping]
         /\ marked \in [version : 0..Latest, dirty : BOOLEAN]
         /\ applied \in 0..Latest /\ lock \in Replicas \cup {Nobody} /\ seeded \in Nat
         /\ late \subseteq Replicas /\ failed \subseteq Replicas /\ fresh \subseteq Replicas
         /\ request \in [Requests -> Request] /\ faults \in 0..MaxFaults
Served == \A q \in Requests, r \in Replicas :
            request[q].at = r => pc[r] \in Serving \cup Stopping

LifeInv == Types /\ Served /\ SchemaOK /\ SeedOK /\ PoolOK

USE LifecycleAssumption

LEMMA NoRequestTyped ==
  NoRequest \in Request /\ NoRequest.at = Nobody /\ NoRequest.step = "none" /\ NoRequest.cut = FALSE
BY DEF NoRequest, Request

LEMMA InitLife == Init => LifeInv
<1> SUFFICES ASSUME Init PROVE LifeInv
  OBVIOUS
<1>1. Types /\ Served
  BY NoRequestTyped DEF Init, Types, Served
<1>2. SchemaOK /\ SeedOK
  BY DEF Init, SchemaOK, SeedOK, Migrating, Before
<1>3. PoolOK
  BY NoRequestTyped DEF Init, PoolOK
<1> QED  BY <1>1, <1>2, <1>3 DEF LifeInv

-----------------------------------------------------------------------------
\* The end of a process leaves the others as they are.
LEMMA EndsLife ==
  ASSUME LifeInv, NEW r \in Replicas, Ends(r), UNCHANGED <<marked, applied>>,
         seeded' = seeded \/ seeded' = seeded + 1, faults' \in 0..MaxFaults
  PROVE  LifeInv'
<1>1. /\ pc' = [pc EXCEPT ![r] = "off"]
      /\ pc'[r] = "off" /\ \A s \in Replicas : s # r => pc'[s] = pc[s]
      /\ lock' = IF lock = r THEN Nobody ELSE lock
  BY DEF Ends, Goes, LifeInv, Types
<1>2. \A q \in Requests : request'[q] = IF request[q].at = r THEN NoRequest ELSE request[q]
  BY DEF Ends, At
<1>3. late' = late \ {r} /\ failed' = failed \ {r} /\ fresh' = fresh \ {r}
  BY DEF Ends
<1>4. Types'
  <2>1. request' \in [Requests -> Request]
    BY NoRequestTyped DEF Ends, At, LifeInv, Types
  <2> QED  BY <1>1, <1>3, <2>1 DEF LifeInv, Types
<1>5. Served'
  BY <1>1, <1>2, NoRequestTyped DEF LifeInv, Served
<1>6. SchemaOK'
  BY <1>1 DEF LifeInv, SchemaOK, Migrating, Before
<1>7. SeedOK'
  BY <1>1, <1>3 DEF LifeInv, SeedOK, Types
<1>8. PoolOK'
  BY <1>1, <1>2, <1>3, NoRequestTyped DEF LifeInv, PoolOK
<1> QED  BY <1>4, <1>5, <1>6, <1>7, <1>8 DEF LifeInv

\* One replica moves on in run(), and no request moves.
LEMMA MovesLife ==
  ASSUME LifeInv, NEW r \in Replicas, NEW step,
         step \in {"off"} \cup Starting \cup Serving \cup Stopping, Goes(r, step),
         At(r) # {} => step \in Serving \cup Stopping,
         UNCHANGED request, late \subseteq late', failed \subseteq failed',
         late' \subseteq Replicas, failed' \subseteq Replicas,
         At(r) # {} /\ step \in {"release", "close"} => r \in late' \cup failed',
         NEW dirty \in BOOLEAN, NEW version \in 0..Latest,
         marked' = [version |-> version, dirty |-> dirty],
         applied' \in 0..Latest, lock' \in Replicas \cup {Nobody}, faults' \in 0..MaxFaults,
         fresh' \subseteq Replicas, seeded' \in Nat, SchemaOK', SeedOK'
  PROVE  LifeInv'
<1>1. pc'[r] = step /\ \A s \in Replicas : s # r => pc'[s] = pc[s]
  BY DEF Goes, LifeInv, Types
<1>2. Types'
  BY DEF Goes, LifeInv, Types
<1>3. Served'
  BY <1>1 DEF LifeInv, Served, At
<1>4. PoolOK'
  BY <1>1 DEF LifeInv, PoolOK, At
<1> QED  BY <1>2, <1>3, <1>4 DEF LifeInv

\* One request moves on, and no replica does.
LEMMA RequestsLife ==
  ASSUME LifeInv, NEW q \in Requests, NEW k \in Request, request' = [request EXCEPT ![q] = k],
         UNCHANGED <<pc, database, Process>>,
         k.step = "none" <=> k.at = Nobody,
         k.at # Nobody => pc[k.at] \in Serving \cup Stopping,
         k.at # Nobody /\ pc[k.at] \in {"release", "close"} => k.at \in late \cup failed,
         k.cut => k.at \in late \cup failed
  PROVE  LifeInv'
<1>1. request'[q] = k /\ \A p \in Requests : p # q => request'[p] = request[p]
  BY DEF LifeInv, Types
<1>2. UNCHANGED <<pc, marked, applied, lock, seeded, late, failed, faults, fresh>>
  BY DEF database, Process
<1>3. Types'
  BY <1>2 DEF LifeInv, Types
<1>4. Served'
  BY <1>1, <1>2 DEF LifeInv, Served
<1>5. SchemaOK' /\ SeedOK'
  BY <1>2 DEF LifeInv, SchemaOK, SeedOK
<1>6. PoolOK'
  BY <1>1, <1>2 DEF LifeInv, PoolOK
<1> QED  BY <1>3, <1>4, <1>5, <1>6 DEF LifeInv
-----------------------------------------------------------------------------
\* Past Migrate a replica moves on, and the database stays as it is.
LEMMA QuietLife ==
  ASSUME LifeInv, NEW r \in Replicas, NEW step,
         step \in {"ping", "count", "insert"} \cup Serving \cup Stopping, Goes(r, step),
         pc[r] \notin Before, At(r) # {} => step \in Serving \cup Stopping,
         UNCHANGED <<database, request, fresh>>, late \subseteq late', failed \subseteq failed',
         late' \subseteq Replicas, failed' \subseteq Replicas, faults' \in 0..MaxFaults,
         At(r) # {} /\ step \in {"release", "close"} => r \in late' \cup failed',
         step = "insert" => seeded = 0
  PROVE  LifeInv'
<1>1. pc'[r] = step /\ \A s \in Replicas : s # r => pc'[s] = pc[s]
  BY DEF Goes, LifeInv, Types
<1>2. UNCHANGED <<marked, applied, lock, seeded>> /\ fresh' = fresh
  BY DEF database
<1>3. step \notin Before /\ step \in {"off"} \cup Starting \cup Serving \cup Stopping
  BY DEF Before, Migrating, Starting, Serving, Stopping
<1>4. SchemaOK'
  BY <1>1, <1>2, <1>3 DEF LifeInv, SchemaOK, Migrating, Before
<1>5. SeedOK'
  <2>1. pc[r] # "off"
    BY DEF Before
  <2> QED  BY <1>1, <1>2, <2>1 DEF LifeInv, SeedOK
<1>6. PICK version \in 0..Latest, dirty \in BOOLEAN :
        marked = [version |-> version, dirty |-> dirty]
  BY DEF LifeInv, Types
<1>7. Types
  BY DEF LifeInv
<1> QED  BY <1>2, <1>3, <1>4, <1>5, <1>6, <1>7, MovesLife DEF Types

LEMMA ServeLife ==
  ASSUME LifeInv, NEW r \in Replicas,
         Ping(r) \/ Count(r) \/ Handle(r) \/ Signal(r) \/ ServerFails(r) \/ Drained(r)
         \/ Deadline(r) \/ Release(r)
  PROVE  LifeInv'
<1>1. /\ late \subseteq Replicas /\ failed \subseteq Replicas /\ faults \in 0..MaxFaults
      /\ At(r) # {} => pc[r] \in Serving \cup Stopping
  BY DEF LifeInv, Types, Served, At
<1>2. At(r) # {} /\ pc[r] \in {"release", "close"} => r \in late \cup failed
  BY DEF LifeInv, PoolOK, At
<1>3. CASE Ping(r) \/ Count(r) \/ Handle(r) \/ Signal(r)
  <2>1. PICK step \in {"count", "insert", "listen", "serve", "drain"} :
          /\ Goes(r, step) /\ UNCHANGED <<database, request, Process>>
          /\ pc[r] \in {"ping", "count", "listen", "serve"}
          /\ step = "insert" => seeded = 0
          /\ pc[r] \in {"listen", "serve"} => step \in {"serve", "drain"}
    BY <1>3 DEF Ping, Count, Handle, Signal, Empty
  <2>2. UNCHANGED <<late, failed, faults, fresh>>
    BY <2>1 DEF Process
  <2>3. At(r) # {} => step \in Serving \cup Stopping
    BY <1>1, <2>1 DEF Serving, Stopping
  <2>4. pc[r] \notin Before /\ step \in {"ping", "count", "insert"} \cup Serving \cup Stopping
    BY <2>1 DEF Before, Migrating, Serving, Stopping
  <2> QED  BY <1>1, <2>1, <2>2, <2>3, <2>4, QuietLife
<1>4. CASE ServerFails(r) \/ Drained(r) \/ Deadline(r) \/ Release(r)
  <2>1. PICK step \in {"release", "close"} :
          /\ Goes(r, step) /\ UNCHANGED <<database, request, fresh>>
          /\ pc[r] \in {"serve", "drain", "release"}
          /\ late' \in {late, late \cup {r}} /\ failed' \in {failed, failed \cup {r}}
          /\ faults' = faults \/ (faults < MaxFaults /\ faults' = faults + 1)
          /\ At(r) = {} \/ r \in late' \cup failed'
    BY <1>2, <1>4 DEF ServerFails, Drained, Deadline, Release, Process
  <2>2. pc[r] \notin Before /\ step \in Stopping
    BY <2>1 DEF Before, Migrating, Stopping
  <2>3. late' \subseteq Replicas /\ failed' \subseteq Replicas /\ faults' \in 0..MaxFaults
        /\ late \subseteq late' /\ failed \subseteq failed'
    BY <1>1, <2>1
  <2> QED  BY <2>1, <2>2, <2>3, QuietLife
<1> QED  BY <1>3, <1>4

\* Up to the lock and back, the replica in it is the only one that migrates.
LEMMA MigrateLife ==
  ASSUME LifeInv, NEW r \in Replicas,
         Boot(r) \/ TakeLock(r) \/ UpToDate(r) \/ MarkDirty(r) \/ RunScript(r) \/ MarkClean(r)
         \/ Seed(r)
  PROVE  LifeInv'
<1>1. /\ late \subseteq Replicas /\ failed \subseteq Replicas /\ fresh \subseteq Replicas
      /\ faults \in 0..MaxFaults /\ applied \in 0..Latest /\ seeded \in Nat
      /\ lock \in Replicas \cup {Nobody} /\ marked \in [version : 0..Latest, dirty : BOOLEAN]
      /\ pc \in [Replicas -> {"off"} \cup Starting \cup Serving \cup Stopping]
      /\ At(r) # {} => pc[r] \in Serving \cup Stopping
      /\ SchemaOK /\ SeedOK
  BY DEF LifeInv, Types, Served, At
<1> DEFINE Keeps(step) == Goes(r, step) /\ UNCHANGED <<request, late, failed, faults>>
<1>2. pc[r] \in {"off", "migrate", "version", "script", "mark", "insert"} => At(r) = {}
  BY <1>1 DEF Serving, Stopping
<1>3. ASSUME NEW step \in Starting \cup {"listen"}, Keeps(step), At(r) = {},
             NEW version \in 0..Latest, NEW dirty \in BOOLEAN,
             marked' = [version |-> version, dirty |-> dirty], applied' \in 0..Latest,
             lock' \in Replicas \cup {Nobody}, fresh' \subseteq Replicas, seeded' \in Nat,
             SchemaOK', SeedOK'
      PROVE  LifeInv'
  <2>1. step \in {"off"} \cup Starting \cup Serving \cup Stopping /\ step \notin {"release", "close"}
    BY DEF Starting, Serving, Stopping
  <2> QED  BY <1>1, <1>3, <2>1, MovesLife
<1>4. PICK version \in 0..Latest, dirty \in BOOLEAN :
        marked = [version |-> version, dirty |-> dirty]
  BY <1>1
<1>5. ASSUME NEW step, Goes(r, step)
      PROVE  pc'[r] = step /\ \A s \in Replicas : s # r => pc'[s] = pc[s]
  BY <1>1, <1>5 DEF Goes
<1>6. CASE Boot(r)
  <2>1. /\ Keeps("migrate") /\ UNCHANGED <<marked, applied, lock, seeded>> /\ pc[r] = "off"
        /\ fresh' = IF seeded = 0 THEN fresh \cup {r} ELSE fresh
    BY <1>6 DEF Boot, database
  <2>2. SchemaOK'
    BY <1>1, <1>5, <2>1 DEF SchemaOK, Migrating, Before
  <2>3. SeedOK'
    BY <1>1, <1>5, <2>1 DEF SeedOK
  <2> QED  BY <1>1, <1>2, <1>3, <1>4, <2>1, <2>2, <2>3 DEF Starting
<1>7. CASE TakeLock(r)
  <2>1. /\ Keeps("version") /\ UNCHANGED <<marked, applied, seeded, fresh>> /\ pc[r] = "migrate"
        /\ lock = Nobody /\ lock' = r
    BY <1>7 DEF TakeLock, Process
  <2>2. SchemaOK' /\ SeedOK'
    BY <1>1, <1>5, <2>1 DEF SchemaOK, SeedOK, Migrating, Before
  <2> QED  BY <1>1, <1>2, <1>3, <1>4, <2>1, <2>2 DEF Starting
<1>8. CASE UpToDate(r)
  <2>1. /\ Keeps("ping") /\ UNCHANGED <<marked, applied, seeded, fresh>> /\ pc[r] = "version"
        /\ ~marked.dirty /\ marked.version = Latest /\ lock' = Nobody
    BY <1>8 DEF UpToDate, Process
  <2>2. SchemaOK' /\ SeedOK'
    BY <1>1, <1>5, <2>1 DEF SchemaOK, SeedOK, Migrating, Before
  <2> QED  BY <1>1, <1>2, <1>3, <1>4, <2>1, <2>2 DEF Starting
<1>9. CASE MarkDirty(r)
  <2>1. /\ Keeps("script") /\ UNCHANGED <<applied, lock, seeded, fresh>> /\ pc[r] = "version"
        /\ ~marked.dirty /\ marked.version < Latest
        /\ marked' = [version |-> marked.version + 1, dirty |-> TRUE]
    BY <1>9 DEF MarkDirty, Process
  <2>2. marked.version + 1 \in 0..Latest /\ marked'.version = marked.version + 1 /\ marked'.dirty
    BY <1>1, <2>1
  <2>3. SchemaOK'
    BY <1>1, <1>5, <2>1, <2>2 DEF SchemaOK, Migrating, Before
  <2>4. SeedOK'
    BY <1>1, <1>5, <2>1 DEF SeedOK
  <2> QED  BY <1>1, <1>2, <1>3, <2>1, <2>2, <2>3, <2>4 DEF Starting
<1>10. CASE RunScript(r)
  <2>1. /\ Keeps("mark") /\ UNCHANGED <<marked, lock, seeded, fresh>> /\ pc[r] = "script"
        /\ applied' = applied + 1
    BY <1>10 DEF RunScript, Process
  <2>2. marked.dirty /\ applied = marked.version - 1 /\ applied' \in 0..Latest
    BY <1>1, <2>1 DEF SchemaOK
  <2>3. SchemaOK' /\ SeedOK'
    BY <1>1, <1>5, <2>1, <2>2 DEF SchemaOK, SeedOK, Migrating, Before
  <2> QED  BY <1>1, <1>2, <1>3, <1>4, <2>1, <2>2, <2>3 DEF Starting
<1>11. CASE MarkClean(r)
  <2>1. /\ Keeps("version") /\ UNCHANGED <<applied, lock, seeded, fresh>> /\ pc[r] = "mark"
        /\ marked' = [marked EXCEPT !.dirty = FALSE]
    BY <1>11 DEF MarkClean, Process
  <2>2. marked.dirty /\ applied = marked.version /\ marked' = [version |-> version, dirty |-> FALSE]
        /\ marked'.version = marked.version /\ ~marked'.dirty
    BY <1>1, <1>4, <2>1 DEF SchemaOK
  <2>3. SchemaOK'
    BY <1>1, <1>5, <2>1, <2>2 DEF SchemaOK, Migrating, Before
  <2>4. SeedOK'
    BY <1>1, <1>5, <2>1 DEF SeedOK
  <2> QED  BY <1>1, <1>2, <1>3, <2>1, <2>2, <2>3, <2>4 DEF Starting
<1>12. CASE Seed(r)
  <2>1. /\ Keeps("listen") /\ UNCHANGED <<marked, applied, lock, fresh>> /\ pc[r] = "insert"
        /\ seeded' = seeded + 1
    BY <1>12 DEF Seed, Process
  <2>2. SchemaOK' /\ SeedOK'
    BY <1>1, <1>5, <2>1 DEF SchemaOK, SeedOK, Migrating, Before
  <2> QED  BY <1>1, <1>2, <1>3, <1>4, <2>1, <2>2 DEF Starting
<1> QED  BY <1>6, <1>7, <1>8, <1>9, <1>10, <1>11, <1>12

LEMMA EndLife ==
  ASSUME LifeInv, NEW r \in Replicas, MigrateFails(r) \/ StoreFails(r) \/ Closed(r) \/ Dies(r)
  PROVE  LifeInv'
<1>1. /\ Ends(r) /\ UNCHANGED <<marked, applied>> /\ (seeded' = seeded \/ seeded' = seeded + 1)
      /\ faults' = faults \/ (faults < MaxFaults /\ faults' = faults + 1)
  BY DEF MigrateFails, StoreFails, Closed, Dies
<1>2. faults' \in 0..MaxFaults
  BY <1>1 DEF LifeInv, Types
<1> QED  BY <1>1, <1>2, EndsLife

LEMMA WorkLife ==
  ASSUME LifeInv, NEW q \in Requests, Work(q)
  PROVE  LifeInv'
<1> DEFINE a == request[q]
<1>1. /\ a \in Request /\ a.step # "none" /\ a.at # Nobody /\ a.at \in Replicas
      /\ pc[a.at] \in Serving \cup Stopping
      /\ pc[a.at] \in {"release", "close"} => a.at \in late \cup failed
      /\ a.cut => a.at \in late \cup failed
  BY DEF Work, Ask, Acquire, Refuse, QueryEnds, Finish, LifeInv, Types, Served, PoolOK, Request
<1>2. ASSUME NEW step \in {"client", "acquire", "query"}, Steps(q, step)
      PROVE  LifeInv'
  <2> DEFINE k == [a EXCEPT !.step = step]
  <2>1. k \in Request /\ k.at = a.at /\ k.step = step /\ k.cut = a.cut
    BY <1>1 DEF Request
  <2>2. request' = [request EXCEPT ![q] = k] /\ UNCHANGED <<pc, database, Process>>
    BY <1>2 DEF Steps
  <2> HIDE DEF k
  <2> QED  BY <1>1, <2>1, <2>2, RequestsLife
<1>3. CASE Refuse(q)
  <2> DEFINE b == [a EXCEPT !.step = "client"]
             k == [b EXCEPT !.cut = TRUE]
  <2>1. b \in Request /\ b.at = a.at /\ b.step = "client"
    BY <1>1 DEF Request
  <2>2. k \in Request /\ k.at = a.at /\ k.step = "client"
    <3> HIDE DEF b
    <3> QED  BY <2>1 DEF Request
  <2>3. request' = [request EXCEPT ![q] = k] /\ UNCHANGED <<pc, database, Process>>
        /\ pc[a.at] = "close"
    BY <1>3 DEF Refuse
  <2> HIDE DEF k
  <2> QED  BY <1>1, <2>2, <2>3, RequestsLife
<1>4. CASE Finish(q)
  BY <1>4, NoRequestTyped, RequestsLife DEF Finish
<1> QED  BY <1>2, <1>3, <1>4 DEF Work, Ask, Acquire, QueryEnds

LEMMA AcceptLife ==
  ASSUME LifeInv, NEW q \in Requests, NEW r \in Replicas, Accept(q, r)
  PROVE  LifeInv'
<1> DEFINE b == [NoRequest EXCEPT !.at = r]
           k == [b EXCEPT !.step = "client"]
<1>1. b \in Request /\ b.at = r /\ b.cut = FALSE
  BY NoRequestTyped DEF Request
<1>2. k \in Request /\ k.at = r /\ k.step = "client" /\ k.cut = FALSE
  <2> HIDE DEF b
  <2> QED  BY <1>1 DEF Request
<1>3. request' = [request EXCEPT ![q] = k] /\ UNCHANGED <<pc, database, Process>>
      /\ pc[r] \in Serving
  BY DEF Accept
<1>4. pc[r] \notin {"release", "close"}
  BY <1>3 DEF Serving
<1> HIDE DEF k
<1> QED  BY <1>2, <1>3, <1>4, RequestsLife

LEMMA LifeInvariant == Spec => []LifeInv
<1>1. LifeInv /\ [Next]_vars => LifeInv'
  <2> SUFFICES ASSUME LifeInv, [Next]_vars PROVE LifeInv'
    OBVIOUS
  <2>1. CASE UNCHANGED vars
    BY <2>1 DEF vars, database, LifeInv, Types, Served, SchemaOK, SeedOK, PoolOK
  <2> QED  BY <2>1, ServeLife, MigrateLife, EndLife, WorkLife, AcceptLife
           DEF Next, Start, Stop
<1> QED  BY InitLife, <1>1, PTL DEF Spec
-----------------------------------------------------------------------------
\* Processes, database and requests keep their types, and no request reaches a
\* replica before it listens.
THEOREM LifeTypes == Spec => []TypeOK
<1>1. LifeInv => TypeOK
  BY DEF LifeInv, Types, Served, TypeOK, At
<1> QED  BY LifeInvariant, <1>1, PTL

\* No replica gets past Migrate with a table missing, whichever others start and die.
THEOREM LifeServesMigrated == Spec => []ServesMigrated
<1>1. LifeInv => ServesMigrated
  BY DEF LifeInv, SchemaOK, Before, Migrating, ServesMigrated
<1> QED  BY LifeInvariant, <1>1, PTL

\* An orderly shutdown within its deadline fails no request.
THEOREM LifeNoneCutShort == Spec => []NoneCutShort
<1>1. LifeInv => NoneCutShort
  BY DEF LifeInv, PoolOK, NoneCutShort
<1> QED  BY LifeInvariant, <1>1, PTL

\* Who boots when there are events adds none.
THEOREM LifeRestartSeedsNothing == Spec => []RestartSeedsNothing
<1>1. LifeInv => RestartSeedsNothing
  BY DEF LifeInv, SeedOK, RestartSeedsNothing
<1> QED  BY LifeInvariant, <1>1, PTL
-----------------------------------------------------------------------------
(***************************************************************************)
(* Why a replica that was told to stop exits (ShutdownEnds), as far as it  *)
(* is a matter of safety: it only moves onward, takes nobody in, and once  *)
(* the pool is being closed its connections only come back.                *)
(***************************************************************************)
Onward == [drain |-> {"drain", "release", "off"}, release |-> {"release", "close", "off"},
           close |-> {"close", "off"}]

StopsForGood ==
  \A r \in Replicas : pc[r] \in Stopping =>
    /\ pc'[r] \in Onward[pc[r]]
    /\ At(r)' \subseteq At(r)
    /\ pc[r] = "close" => Holding(r)' \subseteq Holding(r)

LEMMA StopsForGoodStep == LifeInv /\ [Next]_vars => [StopsForGood]_vars
<1> SUFFICES ASSUME LifeInv, Next, NEW r \in Replicas, pc[r] \in Stopping
             PROVE  /\ pc'[r] \in Onward[pc[r]]
                    /\ At(r)' \subseteq At(r)
                    /\ pc[r] = "close" => Holding(r)' \subseteq Holding(r)
  BY DEF StopsForGood
<1> DEFINE Goal == /\ pc'[r] \in Onward[pc[r]]
                   /\ At(r)' \subseteq At(r)
                   /\ pc[r] = "close" => Holding(r)' \subseteq Holding(r)
<1>1. pc[r] \in Onward[pc[r]] /\ "off" \in Onward[pc[r]]
  BY DEF Stopping, Onward
<1>2. /\ \A q \in Requests : request[q] \in Request
      /\ pc \in [Replicas -> {"off"} \cup Starting \cup Serving \cup Stopping]
  BY DEF LifeInv, Types
<1>3. ASSUME pc'[r] \in Onward[pc[r]], request' = request PROVE Goal
  BY <1>3 DEF At, Holding
<1>4. ASSUME NEW s \in Replicas, Ends(s) PROVE Goal
  <2>1. pc'[r] = IF r = s THEN "off" ELSE pc[r]
    BY <1>2, <1>4 DEF Ends, Goes
  <2>2. \A q \in Requests : request'[q] = request[q] \/ request'[q].at = Nobody
    BY <1>4, NoRequestTyped DEF Ends
  <2>3. At(r)' \subseteq At(r) /\ Holding(r)' \subseteq Holding(r)
    BY <2>2 DEF At, Holding
  <2> QED  BY <1>1, <2>1, <2>3
<1>5. ASSUME NEW s \in Replicas, NEW step, Goes(s, step), request' = request,
             r = s => step \in Onward[pc[r]]
      PROVE  Goal
  BY <1>1, <1>2, <1>3, <1>5 DEF Goes
<1>6. ASSUME NEW s \in Replicas,
             Boot(s) \/ TakeLock(s) \/ UpToDate(s) \/ MarkDirty(s) \/ RunScript(s) \/ MarkClean(s)
             \/ Ping(s) \/ Count(s) \/ Seed(s) \/ Handle(s) \/ Signal(s) \/ ServerFails(s)
      PROVE  Goal
  <2>1. pc[s] \notin Stopping /\ request' = request /\ \E step : Goes(s, step)
    BY <1>6 DEF Boot, TakeLock, UpToDate, MarkDirty, RunScript, MarkClean, Ping, Count, Seed,
       Handle, Signal, ServerFails, Stopping
  <2> QED  BY <1>5, <2>1
<1>7. ASSUME NEW s \in Replicas, Drained(s) \/ Deadline(s) \/ Release(s) PROVE Goal
  <2>1. /\ request' = request
        /\ \/ pc[s] = "drain" /\ Goes(s, "release")
           \/ pc[s] = "release" /\ Goes(s, "close")
    BY <1>7 DEF Drained, Deadline, Release
  <2> QED  BY <1>5, <2>1 DEF Onward
<1>8. ASSUME NEW q \in Requests, Work(q) PROVE Goal
  <2>1. pc' = pc
    BY <1>8 DEF Work, Ask, Acquire, Refuse, QueryEnds, Finish, Steps
  <2>2. \A p \in Requests : request'[p].at = request[p].at \/ request'[p].at = Nobody
    BY <1>2, <1>8, NoRequestTyped
       DEF Work, Ask, Acquire, Refuse, QueryEnds, Finish, Steps, LifeInv, Types, Request
  <2>3. At(r)' \subseteq At(r)
    BY <2>2 DEF At
  <2>4. ASSUME pc[r] = "close", NEW p \in Requests, p \in Holding(r)', p \notin Holding(r)
        PROVE  FALSE
    <3>1. request[p].at = r /\ request[p].step # "query" /\ request'[p].step = "query"
      BY <2>3, <2>4 DEF Holding, At
    <3>2. p = q /\ Acquire(q)
      BY <1>2, <1>8, <3>1, NoRequestTyped
         DEF Work, Ask, Acquire, Refuse, QueryEnds, Finish, Steps, LifeInv, Types, Request
    <3> QED  BY <2>4, <3>1, <3>2 DEF Acquire
  <2>5. pc[r] = "close" => Holding(r)' \subseteq Holding(r)
    BY <2>4 DEF Holding, At
  <2> QED  BY <1>1, <2>1, <2>3, <2>5
<1>9. ASSUME NEW q \in Requests, NEW s \in Replicas, Accept(q, s) PROVE Goal
  <2>1. s # r /\ pc' = pc
    BY <1>9 DEF Accept, Serving, Stopping
  <2>2. \A p \in Requests : request'[p] = request[p] \/ request'[p].at = s
    BY <1>2, <1>9 DEF Accept, NoRequest, LifeInv, Types
  <2>3. At(r)' \subseteq At(r) /\ Holding(r)' \subseteq Holding(r)
    BY <2>1, <2>2 DEF At, Holding
  <2> QED  BY <1>1, <2>1, <2>3
<1>10. ASSUME NEW s \in Replicas,
              MigrateFails(s) \/ StoreFails(s) \/ Closed(s) \/ Dies(s)
       PROVE  Goal
  BY <1>4, <1>10 DEF MigrateFails, StoreFails, Closed, Dies
<1> HIDE DEF Goal
<1>11. Goal
  BY <1>6, <1>7, <1>8, <1>9, <1>10 DEF Next, Start, Stop
<1> QED  BY <1>11 DEF Goal

\* A replica that was told to stop goes on stopping, whatever its clients do.
THEOREM LifeStopsForGood == Spec => [][StopsForGood]_vars
BY StopsForGoodStep, LifeInvariant, PTL DEF Spec
=============================================================================
