---------------------------- MODULE ScrapeProofs ----------------------------
(***************************************************************************)
(* Proof that a target is never scraped twice at a time and that a removed *)
(* pool does not scrape (OldLoopsAreSilent), for any jobs, targets, pools  *)
(* and loops.  The argument: a pool whose context is alive is its job's    *)
(* current pool; a pool being stopped or reloaded is still on the list of  *)
(* the ApplyConfig or Stop that holds mtxScrape, so no reload of the       *)
(* manager makes another pool for its job meanwhile; the loops of a pool   *)
(* are those it has and those it waits for; and a loop made by reload does *)
(* not run before the loop it replaces has stopped.                        *)
(***************************************************************************)
EXTENDS ScrapePools, FiniteSetTheorems, FunctionTheorems, TLAPS

Made == 1 .. sbudget.pools
LoopMaps == UNION {[ts -> LoopIDs] : ts \in SUBSET ScrapeTargets}
TsetMaps == UNION {[js -> SUBSET ScrapeTargets] : js \in SUBSET Jobs}
ConfigValues == JobConfigs \cup {NoConfig}
PoolRecords ==
  [job : Jobs, config : ConfigValues, loops : LoopMaps, op : {"", "sync", "reload", "stop"},
   wait : SUBSET LoopIDs, ctx : BOOLEAN]
LoopRecords ==
  [pool : PoolIDs \cup {0}, target : ScrapeTargets,
   pc : {"none", "created", "tick", "scrape", "stopped"},
   cancelled : BOOLEAN, forced : BOOLEAN, after : LoopIDs \cup {0}, then : BOOLEAN]
ManagerRecords ==
  [configs : [Jobs -> {<<>>} \cup {<<c>> : c \in JobConfigs}], tsets : TsetMaps,
   trigger : BOOLEAN, mtx : {"", "apply", "stop"}, todo : SUBSET PoolIDs, grace : BOOLEAN,
   stopped : BOOLEAN, current : BOOLEAN]

\* The types of the variables, and that every pool in use has been made.
ScrapeType ==
  /\ mgr \in ManagerRecords
  /\ poolOf \in [Jobs -> PoolIDs \cup {0}]
  /\ pool \in [PoolIDs -> PoolRecords]
  /\ loop \in [LoopIDs -> LoopRecords]
  /\ syncs \subseteq [pool : PoolIDs, targets : SUBSET ScrapeTargets, pc : {"start", "wait"}]
  /\ sbudget \in [pools : 0 .. MaxPools, tsets : Nat, configs : Nat]
MadeInv ==
  /\ mgr.todo \subseteq Made
  /\ \A j \in Jobs : poolOf[j] \in Made \cup {0}
  /\ \A l \in LoopIDs : loop[l].pool \in Made \cup {0}
  /\ \A s \in syncs : s.pool \in Made
  /\ \A p \in PoolIDs : p \notin Made => pool[p] = NoPool

\* A job's pool is a pool of that job, and a pool with a live context is its
\* job's pool.
CurrentInv ==
  /\ \A j \in Jobs : poolOf[j] # 0 => pool[poolOf[j]].job = j
  /\ \A p \in Made : pool[p].ctx => poolOf[pool[p].job] = p

\* The pools that ApplyConfig or Stop has yet to visit or to leave, under
\* mtxScrape, are their jobs' pools.  A pool that is stopped or reloaded is one
\* of them.
ListInv ==
  /\ mgr.mtx = "" => mgr.todo = {}
  /\ \A p \in mgr.todo : poolOf[pool[p].job] = p
  /\ \A p \in PoolIDs : pool[p].op \in {"stop", "reload"} => p \in mgr.todo

\* A Sync that waits holds its pool's mtx, and no pool has two Syncs.
SyncInv ==
  /\ \A s \in syncs : s.pc = "wait" => pool[s.pool].op = "sync"
  /\ \A s, r \in syncs : s.pool = r.pool => s = r

\* The loops of a pool are those it has, one for each of its targets, and those
\* it waits for while its mtx is held.
FreeInv == \A l \in LoopIDs : loop[l].pc = "none" <=> loop[l].pool = 0
OwnedInv ==
  \A p \in PoolIDs, l \in LoopIDs : loop[l].pool = p <=> l \in LoopsOf(p) \/ l \in pool[p].wait
TargetInv ==
  \A p \in PoolIDs : \A t \in DOMAIN pool[p].loops : loop[pool[p].loops[t]].target = t
IdleInv == \A p \in PoolIDs : pool[p].op = "" => pool[p].wait = {}
DisjointInv == \A p \in PoolIDs : LoopsOf(p) \cap pool[p].wait = {}
OwnInv == FreeInv /\ OwnedInv /\ TargetInv /\ IdleInv /\ DisjointInv

\* The loops a pool waits for are of different targets.  A sync waits for loops
\* of targets that are gone, a stop for all loops, and a reload for loops that
\* the new loop of the same target waits for as well.
DistinctInv ==
  \A p \in PoolIDs : \A l, m \in pool[p].wait : loop[l].target = loop[m].target => l = m
StopInv ==
  \A p \in PoolIDs : pool[p].op = "stop" => ~pool[p].ctx /\ DOMAIN pool[p].loops = {}
GoneInv ==
  \A p \in PoolIDs : pool[p].op = "sync" =>
    \A l \in pool[p].wait : loop[l].target \notin DOMAIN pool[p].loops
ReloadInv ==
  \A p \in PoolIDs : pool[p].op = "reload" =>
    \A m \in pool[p].wait, n \in LoopsOf(p) : loop[m].target = loop[n].target =>
      loop[m].pc = "stopped" \/ (loop[n].pc = "created" /\ loop[n].after = m)
WaitInv == DistinctInv /\ StopInv /\ GoneInv /\ ReloadInv

\* The loops of a pool whose context is done are cancelled, and scrape only
\* while the stop of the pool waits for them.
DoneInv ==
  \A l \in LoopIDs : loop[l].pool # 0 /\ ~pool[loop[l].pool].ctx =>
    /\ loop[l].cancelled
    /\ loop[l].pc = "scrape" => pool[loop[l].pool].op = "stop"

ScrapeInv ==
  ScrapeType /\ MadeInv /\ CurrentInv /\ ListInv /\ SyncInv /\ OwnInv /\ WaitInv /\ DoneInv

-----------------------------------------------------------------------------
\* Facts about the maps and the choice of new ids.

\* A pool's map of loops.
LEMMA LoopMapIs ==
  ASSUME NEW f \in LoopMaps
  PROVE  /\ DOMAIN f \subseteq ScrapeTargets
         /\ \A t \in DOMAIN f : f[t] \in LoopIDs
BY DEF LoopMaps

\* A function from targets to loops is such a map.
LEMMA IsLoopMap ==
  ASSUME NEW ts \in SUBSET ScrapeTargets, NEW f \in [ts -> LoopIDs]
  PROVE  f \in LoopMaps /\ DOMAIN f = ts
BY DEF LoopMaps

\* The map of a pool without loops.
LEMMA NoLoopMap == <<>> \in LoopMaps /\ DOMAIN <<>> = {}
<1>1. <<>> \in [{} -> LoopIDs] /\ DOMAIN <<>> = {}
  OBVIOUS
<1> QED
  BY <1>1, IsLoopMap, Zenon

\* The maps of target sets.
LEMMA TsetMapIs ==
  ASSUME NEW f \in TsetMaps
  PROVE  /\ DOMAIN f \subseteq Jobs
         /\ \A j \in DOMAIN f : f[j] \in SUBSET ScrapeTargets
BY DEF TsetMaps

\* A finite set that is not larger than another one can be mapped into it one
\* to one.
LEMMA SmallerSetFits ==
  ASSUME NEW S, NEW T, IsFiniteSet(S), IsFiniteSet(T), Cardinality(S) <= Cardinality(T)
  PROVE  \E f \in [S -> T] : \A x, y \in S : f[x] = f[y] => x = y
<1>1. PICK b : b \in Bijection(1 .. Cardinality(S), S)
  BY FS_CardinalityType, Zenon DEF ExistsBijection
<1>2. PICK c : c \in Bijection(1 .. Cardinality(T), T)
  BY FS_CardinalityType, Zenon DEF ExistsBijection
<1>3. Cardinality(S) \in Nat /\ Cardinality(T) \in Nat
  BY FS_CardinalityType
<1> DEFINE g == [x \in S |-> CHOOSE i \in 1 .. Cardinality(S) : b[i] = x]
<1>4. \A x \in S : \E i \in 1 .. Cardinality(S) : b[i] = x
  BY <1>1, Zenon DEF Bijection, Surjection
<1>5. \A x \in S : g[x] \in 1 .. Cardinality(S) /\ b[g[x]] = x
  BY <1>4, Zenon
<1>6. \A i, j \in 1 .. Cardinality(T) : c[i] = c[j] => i = j
  BY <1>2, Zenon DEF Bijection, Injection, IsInjective
<1>7. c \in [1 .. Cardinality(T) -> T]
  BY <1>2, Zenon DEF Bijection, Injection
<1>8. \A x \in S : g[x] \in 1 .. Cardinality(T)
  BY <1>3, <1>5
<1> HIDE DEF g
<1> DEFINE h == [x \in S |-> c[g[x]]]
<1>9. h \in [S -> T]
  BY <1>7, <1>8
<1>10. \A x, y \in S : h[x] = h[y] => x = y
  <2> SUFFICES ASSUME NEW x \in S, NEW y \in S, h[x] = h[y] PROVE x = y
    OBVIOUS
  <2>1. c[g[x]] = c[g[y]]
    OBVIOUS
  <2>2. g[x] = g[y]
    BY <1>6, <1>8, <2>1, Zenon
  <2> QED
    BY <1>5, <2>2, Zenon
<1> QED
  BY <1>9, <1>10, Zenon

\* newScrapePool and reload: the new loops of a sync or a reload get ids of
\* their own that no loop has.
LEMMA NewLoopsAreNew ==
  ASSUME NEW ts \in SUBSET ScrapeTargets, Cardinality(ts) <= Cardinality(FreeLoops)
  PROVE  /\ NewLoops(ts) \in [ts -> FreeLoops]
         /\ \A t, u \in ts : NewLoops(ts)[t] = NewLoops(ts)[u] => t = u
<1>1. IsFiniteSet(ts)
  BY FS_Subset, ScrapeAssumption, Zenon DEF ScrapeAssumption
<1>2. IsFiniteSet(LoopIDs)
  <2>1. MaxLoops \in Int
    BY ScrapeAssumption DEF ScrapeAssumption
  <2> QED
    BY <2>1, FS_Interval DEF LoopIDs
<1>3. IsFiniteSet(FreeLoops)
  <2>1. FreeLoops \in SUBSET LoopIDs
    BY DEF FreeLoops
  <2> QED
    BY <1>2, <2>1, FS_Subset, Zenon
<1>4. \E f \in [ts -> FreeLoops] : \A t, u \in ts : f[t] = f[u] => t = u
  BY <1>1, <1>3, SmallerSetFits, Zenon
<1> QED
  BY <1>4, Zenon DEF NewLoops

\* What the invariant says of the loops that a pool has and waits for.
LEMMA PoolLoops ==
  ASSUME ScrapeInv
  PROVE  /\ \A p \in PoolIDs : \A t \in DOMAIN pool[p].loops : pool[p].loops[t] \in LoopIDs
         /\ \A p \in PoolIDs : DOMAIN pool[p].loops \subseteq ScrapeTargets
         /\ \A p \in PoolIDs : pool[p].wait \in SUBSET LoopIDs
         /\ \A p \in PoolIDs : LoopsOf(p) \in SUBSET LoopIDs
<1>1. \A p \in PoolIDs : pool[p].loops \in LoopMaps /\ pool[p].wait \in SUBSET LoopIDs
  BY Zenon DEF ScrapeInv, ScrapeType, PoolRecords
<1>2. \A p \in PoolIDs : /\ \A t \in DOMAIN pool[p].loops : pool[p].loops[t] \in LoopIDs
                         /\ DOMAIN pool[p].loops \subseteq ScrapeTargets
  BY <1>1, LoopMapIs, Zenon
<1> QED
  BY <1>1, <1>2, Zenon DEF LoopsOf

\* The pools that have been made are among the possible ones.
LEMMA MadeArePools == ASSUME ScrapeInv PROVE Made \subseteq PoolIDs /\ sbudget.pools \in Nat
<1>1. sbudget.pools \in 0 .. MaxPools
  BY Zenon DEF ScrapeInv, ScrapeType
<1> QED
  BY <1>1, ScrapeAssumption DEF ScrapeAssumption, Made, PoolIDs

\* Loops of one pool's map are of different targets.
LEMMA OneLoopPerTarget ==
  ASSUME ScrapeInv, NEW p \in PoolIDs, NEW l \in LoopsOf(p), NEW m \in LoopsOf(p),
         loop[l].target = loop[m].target
  PROVE  l = m
<1>1. PICK t \in DOMAIN pool[p].loops : l = pool[p].loops[t]
  BY Zenon DEF LoopsOf
<1>2. PICK u \in DOMAIN pool[p].loops : m = pool[p].loops[u]
  BY Zenon DEF LoopsOf
<1>3. loop[l].target = t /\ loop[m].target = u
  BY <1>1, <1>2, Zenon DEF ScrapeInv, OwnInv, TargetInv
<1> QED
  BY <1>1, <1>2, <1>3, Zenon

-----------------------------------------------------------------------------
\* Initially there are no pools and no loops.
LEMMA ScrapeInitially == ScrapeInit => ScrapeInv
<1> SUFFICES ASSUME ScrapeInit PROVE ScrapeInv
  OBVIOUS
<1>1. /\ poolOf = [j \in Jobs |-> 0] /\ pool = [p \in PoolIDs |-> NoPool]
      /\ syncs = {} /\ loop = [l \in LoopIDs |-> NoLoop]
      /\ sbudget = [pools |-> 0, tsets |-> 0, configs |-> 0]
  BY Zenon DEF ScrapeInit
<1>2. NoPool \in PoolRecords /\ NoPool.ctx = FALSE /\ NoPool.op = "" /\ NoPool.wait = {}
      /\ NoPool.loops = <<>>
  <2>1. (CHOOSE j \in Jobs : TRUE) \in Jobs
    BY ScrapeAssumption, Zenon DEF ScrapeAssumption
  <2>2. NoConfig \in ConfigValues
    BY DEF ConfigValues
  <2> QED
    BY <2>1, <2>2, NoLoopMap DEF PoolRecords, NoPool
<1>3. NoLoop \in LoopRecords /\ NoLoop.pool = 0 /\ NoLoop.pc = "none" /\ NoLoop.after = 0
  <2>1. (CHOOSE t \in ScrapeTargets : TRUE) \in ScrapeTargets
    BY ScrapeAssumption, Zenon DEF ScrapeAssumption
  <2> QED
    BY <2>1 DEF LoopRecords, NoLoop
<1>4. \A p \in PoolIDs : pool[p] = NoPool
  BY <1>1, Zenon
<1>5. \A l \in LoopIDs : loop[l] = NoLoop
  BY <1>1, Zenon
<1>6. mgr \in ManagerRecords /\ mgr.todo = {} /\ mgr.mtx = ""
  <2>1. <<>> \in TsetMaps
    <3>1. <<>> \in [{} -> SUBSET ScrapeTargets] /\ {} \in SUBSET Jobs
      OBVIOUS
    <3> QED
      BY <3>1, Zenon DEF TsetMaps
  <2>2. [j \in Jobs |-> <<>>] \in [Jobs -> {<<>>} \cup {<<c>> : c \in JobConfigs}]
    OBVIOUS
  <2> QED
    BY <2>1, <2>2, Zenon DEF ManagerRecords, ScrapeInit
<1>7. sbudget \in [pools : 0 .. MaxPools, tsets : Nat, configs : Nat] /\ Made = {}
  BY <1>1, ScrapeAssumption DEF Made, ScrapeAssumption
<1>8. ScrapeType
  BY <1>1, <1>2, <1>3, <1>6, <1>7, Zenon DEF ScrapeType
<1>9. MadeInv
  BY <1>1, <1>3, <1>5, <1>4, <1>6, <1>7, Zenon DEF MadeInv
<1>10. CurrentInv
  BY <1>1, <1>7, Zenon DEF CurrentInv
<1>11. ListInv
  BY <1>2, <1>4, <1>6, Zenon DEF ListInv
<1>12. SyncInv
  BY <1>1, Zenon DEF SyncInv
<1>13. OwnInv
  <2>1. \A p \in PoolIDs : LoopsOf(p) = {} /\ DOMAIN pool[p].loops = {}
    BY <1>2, <1>4, NoLoopMap, Zenon DEF LoopsOf
  <2>2. \A p \in PoolIDs : p # 0
    BY DEF PoolIDs
  <2>3. FreeInv /\ TargetInv /\ IdleInv
    BY <1>2, <1>3, <1>4, <1>5, <2>1, Zenon DEF FreeInv, TargetInv, IdleInv
  <2>4. OwnedInv /\ DisjointInv
    BY <1>2, <1>3, <1>4, <1>5, <2>1, <2>2, Zenon DEF OwnedInv, DisjointInv
  <2> QED
    BY <2>3, <2>4 DEF OwnInv
<1>14. WaitInv
  BY <1>2, <1>4, Zenon DEF WaitInv, DistinctInv, StopInv, GoneInv, ReloadInv
<1>15. DoneInv
  BY <1>3, <1>5, Zenon DEF DoneInv
<1> QED
  BY <1>8, <1>9, <1>10, <1>11, <1>12, <1>13, <1>14, <1>15 DEF ScrapeInv

-----------------------------------------------------------------------------
\* Steps of the manager that leave the pools alone.

\* Such a step preserves the invariant if its list of pools is in order.
LEMMA ManagerFrame ==
  ASSUME ScrapeInv, UNCHANGED <<poolOf, pool, syncs, loop>>,
         sbudget' \in [pools : 0 .. MaxPools, tsets : Nat, configs : Nat],
         sbudget'.pools = sbudget.pools,
         mgr' \in ManagerRecords, mgr'.todo \subseteq Made, ListInv'
  PROVE  ScrapeInv'
<1>1. Made' = Made
  BY Zenon DEF Made
<1>2. ScrapeType'
  BY Zenon DEF ScrapeInv, ScrapeType
<1>3. MadeInv'
  BY <1>1, Zenon DEF ScrapeInv, MadeInv
<1>4. CurrentInv' /\ SyncInv'
  BY <1>1, Zenon DEF ScrapeInv, CurrentInv, SyncInv
<1>5. pool' = pool /\ loop' = loop
  OBVIOUS
<1>6. FreeInv' /\ TargetInv' /\ IdleInv'
  BY <1>5, Zenon DEF ScrapeInv, OwnInv, FreeInv, TargetInv, IdleInv
<1>7. \A p : LoopsOf(p)' = LoopsOf(p)
  BY <1>5, Zenon DEF LoopsOf
<1>8. OwnedInv' /\ DisjointInv'
  BY <1>5, <1>7, Zenon DEF ScrapeInv, OwnInv, OwnedInv, DisjointInv
<1>9. DistinctInv' /\ StopInv'
  BY <1>5, Zenon DEF ScrapeInv, WaitInv, DistinctInv, StopInv
<1>10. GoneInv'
  BY <1>5, Zenon DEF ScrapeInv, WaitInv, GoneInv
<1>11. ReloadInv'
  <2>1. ReloadInv
    BY Zenon DEF ScrapeInv, WaitInv
  <2> QED
    BY <1>5, <1>7, <2>1, SMT DEF ReloadInv
<1>12. DoneInv'
  BY <1>5, Zenon DEF ScrapeInv, DoneInv
<1> QED
  BY <1>2, <1>3, <1>4, <1>6, <1>8, <1>9, <1>10, <1>11, <1>12 DEF ScrapeInv, OwnInv, WaitInv

\* Run: new target sets.
LEMMA UpdateTsetsKeeps == ScrapeInv /\ UpdateTsets => ScrapeInv'
<1> SUFFICES ASSUME ScrapeInv, UpdateTsets PROVE ScrapeInv'
  OBVIOUS
<1>1. PICK ts \in TsetMaps : mgr' = [mgr EXCEPT !.tsets = ts, !.trigger = TRUE, !.current = TRUE]
  BY Zenon DEF UpdateTsets, TsetMaps
<1>2. mgr' \in ManagerRecords /\ mgr'.todo = mgr.todo /\ mgr'.mtx = mgr.mtx
  BY <1>1, Zenon DEF ScrapeInv, ScrapeType, ManagerRecords
<1>3. /\ sbudget' \in [pools : 0 .. MaxPools, tsets : Nat, configs : Nat]
      /\ sbudget'.pools = sbudget.pools
  <2>1. sbudget \in [pools : 0 .. MaxPools, tsets : Nat, configs : Nat]
    BY Zenon DEF ScrapeInv, ScrapeType
  <2>2. sbudget' = [sbudget EXCEPT !.tsets = @ + 1]
    BY Zenon DEF UpdateTsets
  <2> QED
    BY <2>1, <2>2
<1>4. UNCHANGED <<poolOf, pool, syncs, loop>>
  BY Zenon DEF UpdateTsets
<1>5. ListInv' /\ mgr'.todo \subseteq Made
  BY <1>2, <1>4, Zenon DEF ScrapeInv, ListInv, MadeInv
<1> QED
  BY <1>2, <1>3, <1>4, <1>5, ManagerFrame, Zenon

\* ApplyConfig and Stop start with the pools of all jobs.
LEMMA ListIsMade ==
  ASSUME ScrapeInv, mgr.mtx = "", UNCHANGED <<poolOf, pool>>,
         mgr'.todo = {poolOf[j] : j \in {j \in Jobs : poolOf[j] # 0}}, mgr'.mtx # ""
  PROVE  ListInv' /\ mgr'.todo \subseteq Made
<1>1. \A p \in mgr'.todo : p \in Made /\ poolOf[pool[p].job] = p
  BY Zenon DEF ScrapeInv, MadeInv, CurrentInv
<1>2. \A p \in PoolIDs : pool[p].op \notin {"stop", "reload"}
  BY Zenon DEF ScrapeInv, ListInv
<1> QED
  BY <1>1, <1>2, Zenon DEF ListInv

\* ApplyConfig takes mtxScrape.
LEMMA ApplyConfigKeeps == ScrapeInv /\ ApplyScrapeConfig => ScrapeInv'
<1> SUFFICES ASSUME ScrapeInv, ApplyScrapeConfig PROVE ScrapeInv'
  OBVIOUS
<1> DEFINE ps == {poolOf[j] : j \in {j \in Jobs : poolOf[j] # 0}}
<1>1. PICK cs \in [Jobs -> {<<>>} \cup {<<c>> : c \in JobConfigs}] :
        mgr' = [mgr EXCEPT !.configs = cs, !.mtx = "apply", !.current = FALSE, !.todo = ps]
  BY Zenon DEF ApplyScrapeConfig
<1>2. UNCHANGED <<poolOf, pool, syncs, loop>> /\ mgr.mtx = ""
  BY Zenon DEF ApplyScrapeConfig
<1>3. ps \in SUBSET PoolIDs
  BY DEF ScrapeInv, ScrapeType
<1> HIDE DEF ps
<1>4. mgr' \in ManagerRecords /\ mgr'.todo = ps /\ mgr'.mtx = "apply"
  BY <1>1, <1>3, Zenon DEF ScrapeInv, ScrapeType, ManagerRecords
<1>5. /\ sbudget' \in [pools : 0 .. MaxPools, tsets : Nat, configs : Nat]
      /\ sbudget'.pools = sbudget.pools
  <2>1. sbudget \in [pools : 0 .. MaxPools, tsets : Nat, configs : Nat]
    BY Zenon DEF ScrapeInv, ScrapeType
  <2>2. sbudget' = [sbudget EXCEPT !.configs = @ + 1]
    BY Zenon DEF ApplyScrapeConfig
  <2> QED
    BY <2>1, <2>2
<1>6. ListInv' /\ mgr'.todo \subseteq Made
  BY <1>2, <1>4, ListIsMade, Zenon DEF ps
<1> QED
  BY <1>2, <1>4, <1>5, <1>6, ManagerFrame, Zenon

\* Stop takes mtxScrape.
LEMMA StopManagerKeeps == ScrapeInv /\ StopManager => ScrapeInv'
<1> SUFFICES ASSUME ScrapeInv, StopManager PROVE ScrapeInv'
  OBVIOUS
<1> DEFINE ps == {poolOf[j] : j \in {j \in Jobs : poolOf[j] # 0}}
<1>1. UNCHANGED <<poolOf, pool, syncs, loop, sbudget>> /\ mgr.mtx = ""
  BY Zenon DEF StopManager
<1>2. ps \in SUBSET PoolIDs
  BY DEF ScrapeInv, ScrapeType
<1>3. mgr' = [mgr EXCEPT !.mtx = "stop", !.stopped = TRUE, !.todo = ps]
  BY Zenon DEF StopManager
<1> HIDE DEF ps
<1>4. mgr' \in ManagerRecords /\ mgr'.todo = ps /\ mgr'.mtx = "stop"
  BY <1>3, <1>2, Zenon DEF ScrapeInv, ScrapeType, ManagerRecords
<1>5. /\ sbudget' \in [pools : 0 .. MaxPools, tsets : Nat, configs : Nat]
      /\ sbudget'.pools = sbudget.pools
  BY <1>1, Zenon DEF ScrapeInv, ScrapeType
<1>6. ListInv' /\ mgr'.todo \subseteq Made
  BY <1>1, <1>4, ListIsMade, Zenon DEF ps
<1> QED
  BY <1>1, <1>4, <1>5, <1>6, ManagerFrame, Zenon

\* A pool that needs no visit leaves the list.
LEMMA ApplySkipsKeeps == ScrapeInv /\ ApplySkips => ScrapeInv'
<1> SUFFICES ASSUME ScrapeInv, ApplySkips PROVE ScrapeInv'
  OBVIOUS
<1>1. PICK p \in mgr.todo : mgr' = [mgr EXCEPT !.todo = @ \ {p}]
  BY Zenon DEF ApplySkips
<1>2. UNCHANGED <<poolOf, pool, syncs, loop, sbudget>> /\ mgr.mtx = "apply" /\ NoneVisited
  BY Zenon DEF ApplySkips
<1>3. mgr' \in ManagerRecords /\ mgr'.todo = mgr.todo \ {p} /\ mgr'.mtx = "apply"
  BY <1>1, <1>2, Zenon DEF ScrapeInv, ScrapeType, ManagerRecords
<1>4. /\ sbudget' \in [pools : 0 .. MaxPools, tsets : Nat, configs : Nat]
      /\ sbudget'.pools = sbudget.pools
  BY <1>2, Zenon DEF ScrapeInv, ScrapeType
<1>5. ListInv' /\ mgr'.todo \subseteq Made
  BY <1>2, <1>3, Zenon DEF ScrapeInv, ListInv, MadeInv, NoneVisited
<1> QED
  BY <1>2, <1>3, <1>4, <1>5, ManagerFrame, Zenon

\* ApplyConfig and Stop release mtxScrape when no pool is left to visit.
LEMMA ManagerEndsKeep == ScrapeInv /\ (ApplyScrapeEnds \/ StopManagerEnds) => ScrapeInv'
<1> SUFFICES ASSUME ScrapeInv, ApplyScrapeEnds \/ StopManagerEnds PROVE ScrapeInv'
  OBVIOUS
<1>1. \/ mgr' = [mgr EXCEPT !.mtx = ""]
      \/ mgr' = [mgr EXCEPT !.mtx = "", !.grace = TRUE]
  BY Zenon DEF ApplyScrapeEnds, StopManagerEnds
<1>2. UNCHANGED <<poolOf, pool, syncs, loop, sbudget>> /\ mgr.todo = {}
  BY Zenon DEF ApplyScrapeEnds, StopManagerEnds
<1>3. mgr' \in ManagerRecords /\ mgr'.todo = {}
  BY <1>1, <1>2, ZenonT(60) DEF ScrapeInv, ScrapeType, ManagerRecords
<1>4. /\ sbudget' \in [pools : 0 .. MaxPools, tsets : Nat, configs : Nat]
      /\ sbudget'.pools = sbudget.pools
  BY <1>2, Zenon DEF ScrapeInv, ScrapeType
<1>5. ListInv' /\ mgr'.todo \subseteq Made
  BY <1>2, <1>3, Zenon DEF ScrapeInv, ListInv
<1> QED
  BY <1>2, <1>3, <1>4, <1>5, ManagerFrame, Zenon

-----------------------------------------------------------------------------
\* Steps of the loops.

\* The program counter of a loop l moves: the loop keeps its place, a loop made
\* by reload starts only when the loop it replaces has stopped, and a cancelled
\* loop does not begin to scrape.
LEMMA LoopFrame ==
  ASSUME ScrapeInv, UNCHANGED <<mgr, poolOf, pool, syncs, sbudget>>, NEW l \in LoopIDs,
         loop' \in [LoopIDs -> LoopRecords],
         \A m \in LoopIDs : m # l => loop'[m] = loop[m],
         loop'[l].pool = loop[l].pool, loop'[l].target = loop[l].target,
         loop'[l].cancelled = loop[l].cancelled,
         loop[l].pc \notin {"none", "stopped"}, loop'[l].pc # "none",
         loop[l].pc = "created" => Stopped({loop[l].after} \ {0}),
         loop'[l].pc = "scrape" => ~loop[l].cancelled
  PROVE  ScrapeInv'
<1>1. Made' = Made /\ 0 \notin LoopIDs
  BY DEF Made, LoopIDs
<1>2. \A m \in LoopIDs : /\ loop'[m].pool = loop[m].pool
                         /\ loop'[m].target = loop[m].target
                         /\ loop'[m].cancelled = loop[m].cancelled
                         /\ loop'[m].pc = "none" <=> loop[m].pc = "none"
                         /\ loop[m].pc = "stopped" => loop'[m].pc = "stopped"
  BY Zenon
<1>3. ScrapeType'
  BY Zenon DEF ScrapeInv, ScrapeType
<1>4. MadeInv'
  BY <1>1, <1>2, Zenon DEF ScrapeInv, MadeInv
<1>5. CurrentInv' /\ ListInv' /\ SyncInv'
  BY <1>1, Zenon DEF ScrapeInv, CurrentInv, ListInv, SyncInv
<1>6. \A p \in PoolIDs : \A t \in DOMAIN pool[p].loops : pool[p].loops[t] \in LoopIDs
  BY PoolLoops, Zenon
<1>7. \A p \in PoolIDs : pool[p].wait \in SUBSET LoopIDs
  BY PoolLoops, Zenon
<1>8. FreeInv' /\ IdleInv' /\ StopInv'
  BY <1>2, Zenon DEF ScrapeInv, OwnInv, WaitInv, FreeInv, IdleInv, StopInv
<1>9. \A p : LoopsOf(p)' = LoopsOf(p)
  BY Zenon DEF LoopsOf
<1>10. OwnedInv' /\ TargetInv'
  BY <1>2, <1>6, <1>9 DEF ScrapeInv, OwnInv, OwnedInv, TargetInv
<1>11. DisjointInv'
  BY <1>9, Zenon DEF ScrapeInv, OwnInv, DisjointInv
<1>12. DistinctInv' /\ GoneInv'
  BY <1>2, <1>7 DEF ScrapeInv, WaitInv, DistinctInv, GoneInv
<1>13. ReloadInv'
  <2> SUFFICES ASSUME NEW p \in PoolIDs, pool[p].op = "reload", NEW m \in pool[p].wait,
                      NEW n \in LoopsOf(p), loop'[m].target = loop'[n].target
               PROVE  loop'[m].pc = "stopped" \/ (loop'[n].pc = "created" /\ loop'[n].after = m)
    BY <1>9, Zenon DEF ReloadInv
  <2>1. m \in LoopIDs /\ n \in LoopIDs
    BY <1>6, <1>7, Zenon DEF LoopsOf
  <2>2. loop[m].pc = "stopped" \/ (loop[n].pc = "created" /\ loop[n].after = m)
    <3>1. ReloadInv
      BY Zenon DEF ScrapeInv, WaitInv
    <3>2. loop[m].target = loop[n].target
      BY <1>2, <2>1, Zenon
    <3> QED
      BY <3>1, <3>2, SMT DEF ReloadInv
  <2>3. CASE loop[m].pc = "stopped"
    BY <1>2, <2>1, <2>3, Zenon
  <2>4. CASE n = l /\ loop[n].pc = "created" /\ loop[n].after = m
    <3>1. loop[m].pc = "stopped"
      BY <1>1, <2>1, <2>4, Zenon DEF Stopped
    <3> QED
      BY <1>2, <2>1, <3>1, Zenon
  <2>5. CASE n # l /\ loop[n].pc = "created" /\ loop[n].after = m
    BY <2>1, <2>5, Zenon
  <2> QED
    BY <2>2, <2>3, <2>4, <2>5, Zenon
<1>14. DoneInv'
  <2> SUFFICES ASSUME NEW m \in LoopIDs, loop[m].pool # 0, ~pool[loop[m].pool].ctx
               PROVE  /\ loop'[m].cancelled
                      /\ loop'[m].pc = "scrape" => pool[loop[m].pool].op = "stop"
    BY <1>2, Zenon DEF DoneInv
  <2>1. loop[m].cancelled /\ (loop[m].pc = "scrape" => pool[loop[m].pool].op = "stop")
    BY Zenon DEF ScrapeInv, DoneInv
  <2> QED
    BY <1>2, <2>1, Zenon
<1> QED
  BY <1>3, <1>4, <1>5, <1>8, <1>10, <1>14, <1>12, <1>13, <1>11 DEF ScrapeInv, OwnInv, WaitInv

\* run, and the goroutine that starts a loop made by reload.
LEMMA LoopStepKeeps == ASSUME ScrapeInv, NEW l \in LoopIDs, LoopStep(l) PROVE ScrapeInv'
<1>1. loop \in [LoopIDs -> LoopRecords]
  BY Zenon DEF ScrapeInv, ScrapeType
<1>2. CASE LoopForced(l)
  <2>1. loop' = [loop EXCEPT ![l].pc = "tick", ![l].forced = loop[l].then]
    BY <1>2, Zenon DEF LoopForced
  <2>2. /\ UNCHANGED <<mgr, poolOf, pool, syncs, sbudget>>
        /\ loop[l].pc = "created" /\ Stopped({loop[l].after} \ {0})
    BY <1>2, Zenon DEF LoopForced
  <2>3. /\ loop' \in [LoopIDs -> LoopRecords]
        /\ \A m \in LoopIDs : m # l => loop'[m] = loop[m]
        /\ loop'[l].pool = loop[l].pool /\ loop'[l].target = loop[l].target
        /\ loop'[l].cancelled = loop[l].cancelled /\ loop'[l].pc = "tick"
    BY <1>1, <2>1, ZenonT(60) DEF LoopRecords
  <2> QED
    BY <2>2, <2>3, LoopFrame, Zenon
<1>3. CASE LoopScrapes(l)
  <2>1. loop' = [loop EXCEPT ![l].pc = "scrape"]
    BY <1>3, Zenon DEF LoopScrapes
  <2>2. /\ UNCHANGED <<mgr, poolOf, pool, syncs, sbudget>>
        /\ loop[l].pc = "tick" /\ ~loop[l].cancelled
    BY <1>3, Zenon DEF LoopScrapes
  <2>3. /\ loop' \in [LoopIDs -> LoopRecords]
        /\ \A m \in LoopIDs : m # l => loop'[m] = loop[m]
        /\ loop'[l].pool = loop[l].pool /\ loop'[l].target = loop[l].target
        /\ loop'[l].cancelled = loop[l].cancelled /\ loop'[l].pc = "scrape"
    BY <1>1, <2>1 DEF LoopRecords
  <2> QED
    BY <2>2, <2>3, LoopFrame, Zenon
<1>4. CASE LoopScraped(l)
  <2>1. loop' = [loop EXCEPT ![l].pc = "tick"]
    BY <1>4, Zenon DEF LoopScraped
  <2>2. UNCHANGED <<mgr, poolOf, pool, syncs, sbudget>> /\ loop[l].pc = "scrape"
    BY <1>4, Zenon DEF LoopScraped
  <2>3. /\ loop' \in [LoopIDs -> LoopRecords]
        /\ \A m \in LoopIDs : m # l => loop'[m] = loop[m]
        /\ loop'[l].pool = loop[l].pool /\ loop'[l].target = loop[l].target
        /\ loop'[l].cancelled = loop[l].cancelled /\ loop'[l].pc = "tick"
    BY <1>1, <2>1 DEF LoopRecords
  <2> QED
    BY <2>2, <2>3, LoopFrame, Zenon
<1>5. CASE LoopStops(l)
  <2>1. loop' = [loop EXCEPT ![l].pc = "stopped"]
    BY <1>5, Zenon DEF LoopStops
  <2>2. UNCHANGED <<mgr, poolOf, pool, syncs, sbudget>> /\ loop[l].pc = "tick"
    BY <1>5, Zenon DEF LoopStops
  <2>3. /\ loop' \in [LoopIDs -> LoopRecords]
        /\ \A m \in LoopIDs : m # l => loop'[m] = loop[m]
        /\ loop'[l].pool = loop[l].pool /\ loop'[l].target = loop[l].target
        /\ loop'[l].cancelled = loop[l].cancelled /\ loop'[l].pc = "stopped"
    BY <1>1, <2>1 DEF LoopRecords
  <2> QED
    BY <2>2, <2>3, LoopFrame, Zenon
<1> QED
  BY <1>2, <1>3, <1>4, <1>5, Zenon DEF LoopStep

-----------------------------------------------------------------------------
\* stop: every loop of the pool is cancelled, and the pool waits for them all.
LEMMA StopPoolKeeps ==
  ASSUME ScrapeInv, NEW p \in mgr.todo, StopPool(p), UNCHANGED <<mgr, poolOf, syncs, sbudget>>
  PROVE  ScrapeInv'
<1>1. p \in PoolIDs /\ Made' = Made
  BY Zenon DEF ScrapeInv, ScrapeType, ManagerRecords, Made
<1>2. pool[p].op = "" /\ pool[p].wait = {}
  BY <1>1, Zenon DEF StopPool, ScrapeInv, OwnInv, IdleInv
<1>3. LoopsOf(p) \in SUBSET LoopIDs /\ (\A q \in PoolIDs : pool[q].wait \in SUBSET LoopIDs)
  BY <1>1, PoolLoops, Zenon
<1>4. /\ pool' \in [PoolIDs -> PoolRecords]
      /\ \A q \in PoolIDs : q # p => pool'[q] = pool[q]
      /\ pool'[p].job = pool[p].job /\ pool'[p].op = "stop" /\ pool'[p].wait = LoopsOf(p)
      /\ pool'[p].loops = <<>> /\ pool'[p].ctx = FALSE
  <2>1. pool' = [pool EXCEPT ![p].op = "stop", ![p].wait = LoopsOf(p), ![p].loops = <<>>,
                             ![p].ctx = FALSE]
    BY Zenon DEF StopPool
  <2>2. pool \in [PoolIDs -> PoolRecords]
    BY Zenon DEF ScrapeInv, ScrapeType
  <2>3. <<>> \in LoopMaps
    BY NoLoopMap
  <2> DEFINE r == [pool[p] EXCEPT !.op = "stop", !.wait = LoopsOf(p), !.loops = <<>>, !.ctx = FALSE]
  <2>4. /\ r \in PoolRecords /\ r.job = pool[p].job /\ r.op = "stop" /\ r.wait = LoopsOf(p)
        /\ r.loops = <<>> /\ r.ctx = FALSE
    BY <1>1, <1>3, <2>2, <2>3, Zenon DEF PoolRecords
  <2>5. pool' = [pool EXCEPT ![p] = r]
    BY <1>1, <2>1, <2>2, Zenon
  <2> HIDE DEF r
  <2> QED
    BY <1>1, <2>2, <2>4, <2>5, Zenon
<1>5. /\ loop' \in [LoopIDs -> LoopRecords]
      /\ \A l \in LoopIDs : /\ loop'[l].pool = loop[l].pool
                            /\ loop'[l].target = loop[l].target
                            /\ loop'[l].pc = loop[l].pc
                            /\ loop'[l].after = loop[l].after
                            /\ loop'[l].cancelled <=> loop[l].cancelled \/ loop[l].pool = p
  <2>1. loop' = [l \in LoopIDs |-> [loop[l] EXCEPT !.cancelled = @ \/ loop[l].pool = p]]
    BY Zenon DEF StopPool
  <2>2. loop \in [LoopIDs -> LoopRecords]
    BY Zenon DEF ScrapeInv, ScrapeType
  <2> QED
    BY <2>1, <2>2, ZenonT(60) DEF LoopRecords
<1>6. /\ \A q \in PoolIDs : q # p => LoopsOf(q)' = LoopsOf(q)
      /\ LoopsOf(p)' = {} /\ DOMAIN pool'[p].loops = {}
  BY <1>1, <1>4, NoLoopMap, Zenon DEF LoopsOf
<1>7. \A q \in PoolIDs : pool'[q].job = pool[q].job /\ (pool'[q].ctx => pool[q].ctx)
  BY <1>4, Zenon
<1>8. ScrapeType'
  BY <1>4, <1>5, Zenon DEF ScrapeInv, ScrapeType
<1>9. MadeInv'
  <2>1. p \in Made
    BY Zenon DEF ScrapeInv, MadeInv
  <2> QED
    BY <1>1, <1>4, <1>5, <2>1, Zenon DEF ScrapeInv, MadeInv
<1>10. CurrentInv'
  <2>1. \A j \in Jobs : poolOf[j] \in PoolIDs \cup {0}
    BY Zenon DEF ScrapeInv, ScrapeType
  <2>2. Made \subseteq PoolIDs
    BY MadeArePools, Zenon
  <2> QED
    BY <1>1, <1>7, <2>1, <2>2, Zenon DEF ScrapeInv, CurrentInv
<1>11. ListInv'
  <2>1. mgr.todo \in SUBSET PoolIDs
    BY Zenon DEF ScrapeInv, ScrapeType, ManagerRecords
  <2> QED
    BY <1>4, <1>7, <2>1, Zenon DEF ScrapeInv, ListInv
<1>12. SyncInv'
  <2>1. \A s \in syncs : s.pool \in PoolIDs
    BY Zenon DEF ScrapeInv, ScrapeType
  <2> QED
    BY <1>2, <1>4, <2>1, Zenon DEF ScrapeInv, SyncInv
<1>13. FreeInv' /\ IdleInv' /\ StopInv'
  BY <1>4, <1>5, <1>6, ZenonT(60) DEF ScrapeInv, OwnInv, WaitInv, FreeInv, IdleInv, StopInv
<1>14. OwnedInv'
  <2> SUFFICES ASSUME NEW q \in PoolIDs, NEW l \in LoopIDs
               PROVE  loop'[l].pool = q <=> l \in LoopsOf(q)' \/ l \in pool'[q].wait
    BY Zenon DEF OwnedInv
  <2>1. loop[l].pool = q <=> l \in LoopsOf(q) \/ l \in pool[q].wait
    BY Zenon DEF ScrapeInv, OwnInv, OwnedInv
  <2> QED
    BY <1>2, <1>4, <1>5, <1>6, <2>1, ZenonT(60)
<1>15. TargetInv' /\ DisjointInv'
  <2> SUFFICES ASSUME NEW q \in PoolIDs
               PROVE  /\ \A t \in DOMAIN pool'[q].loops : loop'[pool'[q].loops[t]].target = t
                      /\ LoopsOf(q)' \cap pool'[q].wait = {}
    BY Zenon DEF TargetInv, DisjointInv
  <2>1. CASE q = p
    BY <1>6, <2>1, Zenon
  <2>2. CASE q # p
    <3>1. \A t \in DOMAIN pool[q].loops : pool[q].loops[t] \in LoopIDs
      BY PoolLoops, Zenon
    <3>2. pool'[q] = pool[q] /\ LoopsOf(q)' = LoopsOf(q)
      BY <1>4, <1>6, <2>2, Zenon
    <3>3. \A t \in DOMAIN pool[q].loops : loop[pool[q].loops[t]].target = t
      BY Zenon DEF ScrapeInv, OwnInv, TargetInv
    <3>4. LoopsOf(q) \cap pool[q].wait = {}
      BY Zenon DEF ScrapeInv, OwnInv, DisjointInv
    <3>5. \A t \in DOMAIN pool[q].loops : loop'[pool[q].loops[t]].target = t
      BY <1>5, <3>1, <3>3, Zenon
    <3> QED
      BY <3>2, <3>4, <3>5, Zenon
  <2> QED
    BY <2>1, <2>2
<1>16. DistinctInv'
  <2> SUFFICES ASSUME NEW q \in PoolIDs, NEW l \in pool'[q].wait, NEW m \in pool'[q].wait,
                      loop'[l].target = loop'[m].target
               PROVE  l = m
    BY Zenon DEF DistinctInv
  <2>1. CASE q = p
    <3>1. l \in LoopsOf(p) /\ m \in LoopsOf(p) /\ l \in LoopIDs /\ m \in LoopIDs
      BY <1>3, <1>4, <2>1, Zenon
    <3>2. loop[l].target = loop[m].target
      BY <1>5, <3>1, Zenon
    <3> QED
      BY <1>1, <3>1, <3>2, OneLoopPerTarget, Zenon
  <2>2. CASE q # p
    <3>1. l \in pool[q].wait /\ m \in pool[q].wait /\ l \in LoopIDs /\ m \in LoopIDs
      BY <1>3, <1>4, <2>2, Zenon
    <3>2. loop[l].target = loop[m].target
      BY <1>5, <3>1, Zenon
    <3> QED
      BY <3>1, <3>2, Zenon DEF ScrapeInv, WaitInv, DistinctInv
  <2> QED
    BY <2>1, <2>2
<1>17. GoneInv'
  BY <1>3, <1>4, <1>5, Zenon DEF ScrapeInv, WaitInv, GoneInv
<1>18. ReloadInv'
  <2> SUFFICES ASSUME NEW q \in PoolIDs, pool'[q].op = "reload", NEW m \in pool'[q].wait,
                      NEW n \in LoopsOf(q)', loop'[m].target = loop'[n].target
               PROVE  loop'[m].pc = "stopped" \/ (loop'[n].pc = "created" /\ loop'[n].after = m)
    BY Zenon DEF ReloadInv
  <2>1. q # p /\ pool[q].op = "reload" /\ m \in pool[q].wait /\ n \in LoopsOf(q)
    BY <1>4, <1>6, Zenon
  <2>2. m \in LoopIDs /\ n \in LoopIDs
    BY <1>3, <2>1, PoolLoops, Zenon
  <2>3. ReloadInv
    BY Zenon DEF ScrapeInv, WaitInv
  <2>4. loop[m].pc = "stopped" \/ (loop[n].pc = "created" /\ loop[n].after = m)
    <3>1. loop[m].target = loop[n].target
      BY <1>5, <2>2, Zenon
    <3> QED
      BY <2>1, <2>3, <3>1, SMT DEF ReloadInv
  <2> QED
    BY <1>5, <2>2, <2>4, Zenon
<1>19. DoneInv'
  <2> SUFFICES ASSUME NEW l \in LoopIDs, loop'[l].pool # 0, ~pool'[loop'[l].pool].ctx
               PROVE  /\ loop'[l].cancelled
                      /\ loop'[l].pc = "scrape" => pool'[loop'[l].pool].op = "stop"
    BY Zenon DEF DoneInv
  <2>1. loop[l].pool \in PoolIDs /\ loop'[l].pool = loop[l].pool
    BY <1>5, Zenon DEF ScrapeInv, ScrapeType, LoopRecords
  <2>2. CASE loop[l].pool = p
    BY <1>4, <1>5, <2>1, <2>2, Zenon
  <2>3. CASE loop[l].pool # p
    <3>1. ~pool[loop[l].pool].ctx /\ loop[l].pool # 0
      BY <1>4, <2>1, <2>3, Zenon
    <3>2. loop[l].cancelled /\ (loop[l].pc = "scrape" => pool[loop[l].pool].op = "stop")
      BY <3>1, Zenon DEF ScrapeInv, DoneInv
    <3> QED
      BY <1>4, <1>5, <2>1, <2>3, <3>2, Zenon
  <2> QED
    BY <2>2, <2>3
<1> QED
  BY <1>8, <1>9, <1>10, <1>11, <1>12, <1>13, <1>14, <1>15, <1>16, <1>17, <1>18, <1>19
     DEF ScrapeInv, OwnInv, WaitInv

-----------------------------------------------------------------------------
\* The loops a pool waits for have stopped: they are forgotten and the pool's
\* mtx is released.
Forgotten(p) ==
  /\ pool' \in [PoolIDs -> PoolRecords] /\ loop' \in [LoopIDs -> LoopRecords]
  /\ \A q \in PoolIDs : /\ q # p => pool'[q] = pool[q]
                        /\ pool'[q].job = pool[q].job /\ pool'[q].ctx = pool[q].ctx
  /\ pool'[p].op = ""
  /\ \A l \in LoopIDs : loop'[l].pool \in {loop[l].pool, 0}
  /\ OwnInv' /\ WaitInv' /\ DoneInv'
\* This preserves what the invariant says of the loops.
LEMMA ForgetFrame ==
  ASSUME ScrapeInv, NEW p \in PoolIDs
  PROVE  /\ pool' = [pool EXCEPT ![p].op = "", ![p].wait = {}]
         /\ loop' = Forget(pool[p].wait)
         => Forgotten(p)
<1>1. SUFFICES ASSUME pool' = [pool EXCEPT ![p].op = "", ![p].wait = {}],
                      loop' = Forget(pool[p].wait)
               PROVE  Forgotten(p)
  BY Zenon
<1>2. /\ pool' \in [PoolIDs -> PoolRecords]
      /\ \A q \in PoolIDs : /\ q # p => pool'[q] = pool[q]
                            /\ pool'[q].job = pool[q].job /\ pool'[q].ctx = pool[q].ctx
                            /\ pool'[q].loops = pool[q].loops
      /\ pool'[p].op = "" /\ pool'[p].wait = {}
  <2>1. pool \in [PoolIDs -> PoolRecords]
    BY Zenon DEF ScrapeInv, ScrapeType
  <2> QED
    BY <1>1, <2>1, Zenon DEF PoolRecords
<1>3. \A q \in PoolIDs : LoopsOf(q)' = LoopsOf(q)
  <2> TAKE q \in PoolIDs
  <2>1. pool'[q].loops = pool[q].loops
    BY <1>2, Zenon
  <2> QED
    BY <2>1, Zenon DEF LoopsOf
<1>4. /\ \A q \in PoolIDs : \A t \in DOMAIN pool[q].loops : pool[q].loops[t] \in LoopIDs
      /\ \A q \in PoolIDs : pool[q].wait \in SUBSET LoopIDs /\ LoopsOf(q) \in SUBSET LoopIDs
  BY PoolLoops, Zenon
<1>5. NoLoop \in LoopRecords /\ NoLoop.pool = 0 /\ NoLoop.pc = "none"
  <2>1. (CHOOSE t \in ScrapeTargets : TRUE) \in ScrapeTargets
    BY ScrapeAssumption, Zenon DEF ScrapeAssumption
  <2> QED
    BY <2>1 DEF LoopRecords, NoLoop
<1>6. loop' \in [LoopIDs -> LoopRecords]
  <2>1. loop \in [LoopIDs -> LoopRecords]
    BY Zenon DEF ScrapeInv, ScrapeType
  <2>2. \A l \in LoopIDs : [loop[l] EXCEPT !.after = 0] \in LoopRecords
    BY <2>1, Zenon DEF LoopRecords
  <2> HIDE DEF NoLoop
  <2> QED
    BY <1>1, <1>5, <2>1, <2>2, Zenon DEF Forget
<1>7. \A l \in LoopIDs : l \in pool[p].wait => loop'[l].pool = 0 /\ loop'[l].pc = "none"
  BY <1>1, <1>5, Zenon DEF Forget
<1>8. \A l \in LoopIDs : l \notin pool[p].wait =>
        /\ loop'[l].pool = loop[l].pool /\ loop'[l].target = loop[l].target
        /\ loop'[l].pc = loop[l].pc /\ loop'[l].cancelled = loop[l].cancelled
        /\ loop[l].after \notin pool[p].wait => loop'[l].after = loop[l].after
  <2>1. loop \in [LoopIDs -> LoopRecords]
    BY Zenon DEF ScrapeInv, ScrapeType
  <2>2. \A l \in LoopIDs : l \notin pool[p].wait =>
          \/ loop'[l] = loop[l]
          \/ loop'[l] = [loop[l] EXCEPT !.after = 0] /\ loop[l].after \in pool[p].wait
    BY <1>1, Zenon DEF Forget
  <2>3. \A l \in LoopIDs : LET r == [loop[l] EXCEPT !.after = 0] IN
          /\ r.pool = loop[l].pool /\ r.target = loop[l].target
          /\ r.pc = loop[l].pc /\ r.cancelled = loop[l].cancelled
    BY <2>1, Zenon DEF LoopRecords
  <2> QED
    BY <2>2, <2>3, Zenon
<1>9. \A q \in PoolIDs : \A l \in LoopIDs :
        loop[l].pool = q <=> l \in LoopsOf(q) \/ l \in pool[q].wait
  BY Zenon DEF ScrapeInv, OwnInv, OwnedInv
<1>10. LoopsOf(p) \cap pool[p].wait = {}
  BY Zenon DEF ScrapeInv, OwnInv, DisjointInv
<1>11. \A l \in LoopIDs : l \in pool[p].wait => loop[l].pool = p
  BY <1>9, Zenon
\* No loop that another pool has or waits for is forgotten.
<1>12. \A q \in PoolIDs : \A l \in LoopIDs :
         l \in LoopsOf(q) \/ (l \in pool[q].wait /\ q # p) => l \notin pool[p].wait
  BY <1>9, <1>10, <1>11, Zenon
<1>13. FreeInv' /\ IdleInv'
  <2>1. \A l \in LoopIDs : loop[l].pc = "none" <=> loop[l].pool = 0
    BY Zenon DEF ScrapeInv, OwnInv, FreeInv
  <2>2. \A l \in LoopIDs : loop'[l].pc = "none" <=> loop'[l].pool = 0
    <3> TAKE l \in LoopIDs
    <3>1. CASE l \in pool[p].wait
      BY <1>7, <3>1, Zenon
    <3>2. CASE l \notin pool[p].wait
      BY <1>8, <2>1, <3>2, Zenon
    <3> QED
      BY <3>1, <3>2
  <2>3. \A q \in PoolIDs : pool'[q].op = "" => pool'[q].wait = {}
    BY <1>2, Zenon DEF ScrapeInv, OwnInv, IdleInv
  <2> QED
    BY <2>2, <2>3, Zenon DEF FreeInv, IdleInv
<1>14. OwnedInv'
  <2> SUFFICES ASSUME NEW q \in PoolIDs, NEW l \in LoopIDs
               PROVE  loop'[l].pool = q <=> l \in LoopsOf(q)' \/ l \in pool'[q].wait
    BY Zenon DEF OwnedInv
  <2>1. LoopsOf(q)' = LoopsOf(q)
    BY <1>3, Zenon
  <2>2. q # 0
    BY DEF PoolIDs
  <2>3. CASE l \in pool[p].wait
    <3>1. loop'[l].pool # q /\ l \notin LoopsOf(q) /\ l \notin pool'[q].wait
      BY <1>2, <1>7, <1>12, <2>2, <2>3, Zenon
    <3> QED
      BY <2>1, <3>1, Zenon
  <2>4. CASE l \notin pool[p].wait
    <3>1. loop'[l].pool = loop[l].pool
      BY <1>8, <2>4, Zenon
    <3>2. l \in pool'[q].wait <=> l \in pool[q].wait
      BY <1>2, <2>4, Zenon
    <3>3. loop[l].pool = q <=> l \in LoopsOf(q) \/ l \in pool[q].wait
      BY <1>9, Zenon
    <3>4. l \in LoopsOf(q)' <=> l \in LoopsOf(q)
      BY <2>1, Zenon
    <3> QED
      BY <3>1, <3>2, <3>3, <3>4, Zenon
  <2> QED
    BY <2>3, <2>4
<1>15. TargetInv'
  <2> SUFFICES ASSUME NEW q \in PoolIDs, NEW t \in DOMAIN pool[q].loops
               PROVE  loop'[pool[q].loops[t]].target = t
    BY <1>2, Zenon DEF TargetInv
  <2>1. pool[q].loops[t] \in LoopIDs /\ pool[q].loops[t] \in LoopsOf(q)
    BY <1>4, Zenon DEF LoopsOf
  <2>2. loop[pool[q].loops[t]].target = t
    BY Zenon DEF ScrapeInv, OwnInv, TargetInv
  <2> QED
    BY <1>8, <1>12, <2>1, <2>2, Zenon
<1>16. DisjointInv'
  BY <1>2, <1>3, Zenon DEF ScrapeInv, OwnInv, DisjointInv
<1>17. DistinctInv'
  <2> SUFFICES ASSUME NEW q \in PoolIDs, NEW l \in pool'[q].wait, NEW m \in pool'[q].wait,
                      loop'[l].target = loop'[m].target
               PROVE  l = m
    BY Zenon DEF DistinctInv
  <2>1. q # p /\ l \in pool[q].wait /\ m \in pool[q].wait
    BY <1>2, Zenon
  <2>2. l \in LoopIDs /\ m \in LoopIDs
    BY <1>4, <2>1, Zenon
  <2>3. loop[l].target = loop[m].target
    BY <1>8, <1>12, <2>1, <2>2, Zenon
  <2> QED
    BY <2>1, <2>3, Zenon DEF ScrapeInv, WaitInv, DistinctInv
<1>18. StopInv'
  BY <1>2, Zenon DEF ScrapeInv, WaitInv, StopInv
<1>19. GoneInv'
  <2> SUFFICES ASSUME NEW q \in PoolIDs, pool'[q].op = "sync", NEW l \in pool'[q].wait
               PROVE  loop'[l].target \notin DOMAIN pool'[q].loops
    BY Zenon DEF GoneInv
  <2>1. q # p /\ pool'[q] = pool[q] /\ l \in pool[q].wait
    BY <1>2, Zenon
  <2>2. l \in LoopIDs
    BY <1>4, <2>1, Zenon
  <2>3. loop'[l].target = loop[l].target
    BY <1>8, <1>12, <2>1, <2>2, Zenon
  <2> QED
    BY <2>1, <2>3, Zenon DEF ScrapeInv, WaitInv, GoneInv
<1>20. ReloadInv'
  <2> SUFFICES ASSUME NEW q \in PoolIDs, pool'[q].op = "reload", NEW m \in pool'[q].wait,
                      NEW n \in LoopsOf(q)', loop'[m].target = loop'[n].target
               PROVE  loop'[m].pc = "stopped" \/ (loop'[n].pc = "created" /\ loop'[n].after = m)
    BY Zenon DEF ReloadInv
  <2>1. q # p /\ pool[q].op = "reload" /\ m \in pool[q].wait /\ n \in LoopsOf(q)
    BY <1>2, <1>3, Zenon
  <2>2. m \in LoopIDs /\ n \in LoopIDs
    BY <1>4, <2>1, Zenon
  <2>3. m \notin pool[p].wait /\ n \notin pool[p].wait
    BY <1>12, <2>1, <2>2, Zenon
  <2>4. ReloadInv
    BY Zenon DEF ScrapeInv, WaitInv
  <2>5. loop[m].pc = "stopped" \/ (loop[n].pc = "created" /\ loop[n].after = m)
    <3>1. loop[m].target = loop[n].target
      BY <1>8, <2>2, <2>3, Zenon
    <3> QED
      BY <2>1, <2>4, <3>1, SMT DEF ReloadInv
  <2> QED
    BY <1>8, <2>2, <2>3, <2>5, Zenon
<1>21. DoneInv'
  <2> SUFFICES ASSUME NEW l \in LoopIDs, loop'[l].pool # 0, ~pool'[loop'[l].pool].ctx
               PROVE  /\ loop'[l].cancelled
                      /\ loop'[l].pc = "scrape" => pool'[loop'[l].pool].op = "stop"
    BY Zenon DEF DoneInv
  <2>1. l \notin pool[p].wait
    BY <1>7, Zenon
  <2>2. loop[l].pool \in PoolIDs /\ loop'[l].pool = loop[l].pool /\ loop[l].pool # 0
    BY <1>8, <2>1, Zenon DEF ScrapeInv, ScrapeType, LoopRecords
  <2>3. loop[l].cancelled /\ (loop[l].pc = "scrape" => pool[loop[l].pool].op = "stop")
    BY <1>2, <2>2, Zenon DEF ScrapeInv, DoneInv
  <2>4. CASE loop[l].pool # p
    BY <1>2, <1>8, <2>1, <2>2, <2>3, <2>4, Zenon
  <2>5. CASE loop[l].pool = p
    \* A stop waits for all loops of its pool.
    <3>1. l \in LoopsOf(p)
      BY <1>9, <2>1, <2>5, Zenon
    <3>2. pool[p].op # "stop"
      BY <3>1, Zenon DEF ScrapeInv, WaitInv, StopInv, LoopsOf
    <3> QED
      BY <1>8, <2>1, <2>3, <2>5, <3>2, Zenon
  <2> QED
    BY <2>4, <2>5
<1>22. \A l \in LoopIDs : loop'[l].pool \in {loop[l].pool, 0}
  BY <1>7, <1>8, Zenon
<1> QED
  BY <1>2, <1>6, <1>13, <1>14, <1>15, <1>16, <1>17, <1>18, <1>19, <1>20, <1>21, <1>22, ZenonT(60)
     DEF Forgotten, OwnInv, WaitInv

\* Sync returns.
LEMMA SyncEndsKeeps == ScrapeInv /\ SyncEnds => ScrapeInv'
<1> SUFFICES ASSUME ScrapeInv, SyncEnds PROVE ScrapeInv'
  OBVIOUS
<1>1. PICK s \in syncs :
        /\ s.pc = "wait"
        /\ pool' = [pool EXCEPT ![s.pool].op = "", ![s.pool].wait = {}]
        /\ loop' = Forget(pool[s.pool].wait)
        /\ syncs' = syncs \ {s}
        /\ UNCHANGED <<mgr, poolOf, sbudget>>
  BY Zenon DEF SyncEnds
<1>2. s.pool \in PoolIDs /\ s.pool \in Made
  BY Zenon DEF ScrapeInv, ScrapeType, MadeInv
<1>3. Forgotten(s.pool)
  BY <1>1, <1>2, ForgetFrame, Zenon
<1>4. mgr' = mgr /\ poolOf' = poolOf /\ sbudget' = sbudget /\ syncs' = syncs \ {s}
  BY <1>1, Zenon
<1>5. Made' = Made /\ Made \subseteq PoolIDs
  BY <1>4, MadeArePools, Zenon DEF Made
<1>6. pool[s.pool].op = "sync"
  BY <1>1, Zenon DEF ScrapeInv, SyncInv
<1>7. ScrapeType'
  BY <1>3, <1>4, Zenon DEF ScrapeInv, ScrapeType, Forgotten
<1>8. MadeInv'
  BY <1>2, <1>3, <1>4, <1>5, Zenon DEF ScrapeInv, MadeInv, Forgotten
<1>9. CurrentInv'
  <2>1. \A j \in Jobs : poolOf[j] \in PoolIDs \cup {0}
    BY Zenon DEF ScrapeInv, ScrapeType
  <2> QED
    BY <1>3, <1>4, <1>5, <2>1, Zenon DEF ScrapeInv, CurrentInv, Forgotten
<1>10. ListInv'
  <2>1. mgr.todo \in SUBSET PoolIDs
    BY Zenon DEF ScrapeInv, ScrapeType, ManagerRecords
  <2>2. \A q \in PoolIDs : pool'[q].op \in {"stop", "reload"} => pool[q].op = pool'[q].op
    BY <1>3, Zenon DEF Forgotten
  <2> QED
    BY <1>3, <1>4, <2>1, <2>2, Zenon DEF ScrapeInv, ListInv, Forgotten
<1>11. SyncInv'
  <2>1. \A r \in syncs : r.pool \in PoolIDs
    BY Zenon DEF ScrapeInv, ScrapeType
  <2>2. \A r \in syncs' : r \in syncs /\ r.pool # s.pool
    BY <1>4, Zenon DEF ScrapeInv, SyncInv
  <2> QED
    BY <1>3, <2>1, <2>2, ZenonT(60) DEF ScrapeInv, SyncInv, Forgotten
<1> QED
  BY <1>3, <1>7, <1>8, <1>9, <1>10, <1>11, Zenon DEF ScrapeInv, Forgotten

\* stop or reload of a pool returns, and ApplyConfig removes a stopped pool.
LEMMA OpEndsKeeps == ScrapeInv /\ OpEnds => ScrapeInv'
<1> SUFFICES ASSUME ScrapeInv, OpEnds PROVE ScrapeInv'
  OBVIOUS
<1>1. PICK p \in PoolIDs :
        /\ pool[p].op \in {"stop", "reload"}
        /\ pool' = [pool EXCEPT ![p].op = "", ![p].wait = {}]
        /\ loop' = Forget(pool[p].wait)
        /\ mgr' = [mgr EXCEPT !.todo = @ \ {p}]
        /\ poolOf' = IF mgr.mtx = "apply" /\ pool[p].op = "stop"
                     THEN [poolOf EXCEPT ![pool[p].job] = 0] ELSE poolOf
        /\ UNCHANGED <<syncs, sbudget>>
  BY Zenon DEF OpEnds
<1>2. Forgotten(p)
  BY <1>1, ForgetFrame, Zenon
<1>3. syncs' = syncs /\ sbudget' = sbudget
  BY <1>1, Zenon
<1>4. mgr' \in ManagerRecords /\ mgr'.todo = mgr.todo \ {p} /\ mgr'.mtx = mgr.mtx
  BY <1>1, Zenon DEF ScrapeInv, ScrapeType, ManagerRecords
<1>5. /\ p \in mgr.todo /\ poolOf[pool[p].job] = p /\ mgr.todo \in SUBSET PoolIDs
      /\ \A q \in PoolIDs : pool[q].job \in Jobs
  BY <1>1, Zenon DEF ScrapeInv, ScrapeType, ManagerRecords, PoolRecords, ListInv
<1>6. /\ poolOf' \in [Jobs -> PoolIDs \cup {0}]
      /\ \A j \in Jobs : poolOf'[j] = poolOf[j] \/ (/\ j = pool[p].job /\ poolOf'[j] = 0
                                                    /\ pool[p].op = "stop")
  <2>1. poolOf \in [Jobs -> PoolIDs \cup {0}]
    BY Zenon DEF ScrapeInv, ScrapeType
  <2>2. \/ poolOf' = poolOf
        \/ poolOf' = [poolOf EXCEPT ![pool[p].job] = 0] /\ pool[p].op = "stop"
    BY <1>1, Zenon
  <2> QED
    BY <2>1, <2>2, Zenon
<1>7. Made' = Made /\ Made \subseteq PoolIDs
  BY <1>3, MadeArePools, Zenon DEF Made
<1>8. ScrapeType'
  BY <1>2, <1>3, <1>4, <1>6, Zenon DEF ScrapeInv, ScrapeType, Forgotten
<1>9. MadeInv'
  <2>1. p \in Made
    BY <1>5, Zenon DEF ScrapeInv, MadeInv
  <2>2. \A j \in Jobs : poolOf'[j] \in Made \cup {0}
    BY <1>6, Zenon DEF ScrapeInv, MadeInv
  <2>3. \A l \in LoopIDs : loop'[l].pool \in Made \cup {0}
    BY <1>2, Zenon DEF ScrapeInv, MadeInv, Forgotten
  <2>4. \A q \in PoolIDs : q \notin Made => pool'[q] = NoPool
    BY <1>2, <2>1, Zenon DEF ScrapeInv, MadeInv, Forgotten
  <2> QED
    BY <1>3, <1>4, <1>7, <2>2, <2>3, <2>4, Zenon DEF ScrapeInv, MadeInv
<1>10. CurrentInv'
  <2>1. \A j \in Jobs : poolOf'[j] # 0 => pool'[poolOf'[j]].job = j
    <3> SUFFICES ASSUME NEW j \in Jobs, poolOf'[j] # 0 PROVE pool'[poolOf'[j]].job = j
      BY Zenon
    <3>1. poolOf'[j] = poolOf[j] /\ poolOf[j] \in PoolIDs
      BY <1>6, Zenon DEF ScrapeInv, ScrapeType
    <3>2. pool[poolOf[j]].job = j
      BY <3>1, Zenon DEF ScrapeInv, CurrentInv
    <3> QED
      BY <1>2, <3>1, <3>2, Zenon DEF Forgotten
  <2>2. \A q \in Made : pool'[q].ctx => poolOf'[pool'[q].job] = q
    <3> SUFFICES ASSUME NEW q \in Made, pool'[q].ctx PROVE poolOf'[pool'[q].job] = q
      BY Zenon
    <3>1. q \in PoolIDs /\ pool[q].ctx /\ pool'[q].job = pool[q].job
      BY <1>2, <1>7, Zenon DEF Forgotten
    <3>2. poolOf[pool[q].job] = q
      BY <3>1, Zenon DEF ScrapeInv, CurrentInv
    <3>3. pool[q].job = pool[p].job => pool[p].op # "stop"
      BY <1>1, <1>5, <3>1, <3>2, Zenon DEF ScrapeInv, WaitInv, StopInv
    <3> QED
      BY <1>5, <1>6, <3>1, <3>2, <3>3, Zenon
  <2> QED
    BY <1>7, <2>1, <2>2, Zenon DEF CurrentInv
<1>11. ListInv'
  <2>1. \A q \in mgr'.todo : poolOf'[pool'[q].job] = q
    <3> SUFFICES ASSUME NEW q \in mgr'.todo PROVE poolOf'[pool'[q].job] = q
      BY Zenon
    <3>1. q \in mgr.todo /\ q # p /\ q \in PoolIDs
      BY <1>4, <1>5, Zenon
    <3>2. poolOf[pool[q].job] = q
      BY <3>1, Zenon DEF ScrapeInv, ListInv
    <3>3. pool'[q].job = pool[q].job
      BY <1>2, <3>1, Zenon DEF Forgotten
    <3> QED
      BY <1>5, <1>6, <3>1, <3>2, <3>3, Zenon
  <2>2. \A q \in PoolIDs : pool'[q].op \in {"stop", "reload"} => q \in mgr'.todo
    BY <1>2, <1>4, Zenon DEF ScrapeInv, ListInv, Forgotten
  <2> QED
    BY <1>4, <2>1, <2>2, Zenon DEF ScrapeInv, ListInv
<1>12. SyncInv'
  <2>1. \A r \in syncs : r.pool \in PoolIDs /\ (r.pc = "wait" => r.pool # p)
    BY <1>1, Zenon DEF ScrapeInv, ScrapeType, SyncInv
  <2> QED
    BY <1>2, <1>3, <2>1, Zenon DEF ScrapeInv, SyncInv, Forgotten
<1> QED
  BY <1>2, <1>8, <1>9, <1>10, <1>11, <1>12, Zenon DEF ScrapeInv, Forgotten

-----------------------------------------------------------------------------
\* sync and reload: the pool p gets new loops, with the free ids R; it keeps
\* some of its loops and waits for others.  The new loops are cancelled already
\* when the pool's context is done.
Grown(p, R) ==
  /\ pool' \in [PoolIDs -> PoolRecords] /\ loop' \in [LoopIDs -> LoopRecords]
  /\ \A q \in PoolIDs : q # p => pool'[q] = pool[q]
  /\ pool'[p].job = pool[p].job /\ pool'[p].ctx = pool[p].ctx
  /\ pool'[p].op \in {"sync", "reload"}
  /\ R \in SUBSET FreeLoops
  /\ \A l \in LoopIDs : l \notin R =>
       /\ loop'[l].pool = loop[l].pool /\ loop'[l].target = loop[l].target
       /\ loop'[l].pc = loop[l].pc /\ loop'[l].after = loop[l].after
       /\ loop[l].cancelled => loop'[l].cancelled
  /\ \A l \in R : /\ loop'[l].pool = p /\ loop'[l].pc \in {"tick", "created"}
                  /\ loop'[l].cancelled <=> ~pool[p].ctx
  /\ pool'[p].wait \subseteq LoopsOf(p)
  /\ LoopsOf(p)' \cap pool'[p].wait = {}
  /\ \A l \in LoopIDs : l \in R \/ l \in LoopsOf(p) <=> l \in LoopsOf(p)' \/ l \in pool'[p].wait
  /\ \A t \in DOMAIN pool'[p].loops : loop'[pool'[p].loops[t]].target = t
  /\ pool'[p].op = "sync" => \A l \in pool'[p].wait : loop'[l].target \notin DOMAIN pool'[p].loops
  /\ pool'[p].op = "reload" =>
       \A m \in pool'[p].wait, n \in LoopsOf(p)' : loop'[m].target = loop'[n].target =>
         loop'[n].pc = "created" /\ loop'[n].after = m

\* This preserves what the invariant says of the loops.
LEMMA GrownFrame ==
  ASSUME ScrapeInv, NEW p \in PoolIDs, NEW R
  PROVE  pool[p].op = "" /\ Grown(p, R) => OwnInv' /\ WaitInv' /\ DoneInv'
<1>1. SUFFICES ASSUME pool[p].op = "", Grown(p, R) PROVE OwnInv' /\ WaitInv' /\ DoneInv'
  BY Zenon
<1>2. /\ \A q \in PoolIDs : q # p => pool'[q] = pool[q]
      /\ pool'[p].ctx = pool[p].ctx /\ pool'[p].op \in {"sync", "reload"}
      /\ \A t \in DOMAIN pool'[p].loops : loop'[pool'[p].loops[t]].target = t
  BY <1>1, Zenon DEF Grown
<1>3. /\ \A l \in LoopIDs : l \notin R =>
           /\ loop'[l].pool = loop[l].pool /\ loop'[l].target = loop[l].target
           /\ loop'[l].pc = loop[l].pc /\ loop'[l].after = loop[l].after
           /\ loop[l].cancelled => loop'[l].cancelled
      /\ \A l \in R : /\ loop'[l].pool = p /\ loop'[l].pc \in {"tick", "created"}
                      /\ loop'[l].cancelled <=> ~pool[p].ctx
  BY <1>1, Zenon DEF Grown
<1>4. /\ pool'[p].wait \subseteq LoopsOf(p) /\ LoopsOf(p)' \cap pool'[p].wait = {}
      /\ \A l \in LoopIDs :
           l \in R \/ l \in LoopsOf(p) <=> l \in LoopsOf(p)' \/ l \in pool'[p].wait
  BY <1>1, Zenon DEF Grown
<1>5. /\ \A q \in PoolIDs : \A t \in DOMAIN pool[q].loops : pool[q].loops[t] \in LoopIDs
      /\ \A q \in PoolIDs : pool[q].wait \in SUBSET LoopIDs /\ LoopsOf(q) \in SUBSET LoopIDs
  BY PoolLoops, Zenon
<1>6. \A q \in PoolIDs : q # 0
  BY DEF PoolIDs
<1>7. \A l \in LoopIDs : l \in R => loop[l].pool = 0
  BY <1>1, Zenon DEF Grown, FreeLoops, ScrapeInv, OwnInv, FreeInv
<1>8. \A q \in PoolIDs : \A l \in LoopIDs :
        loop[l].pool = q <=> l \in LoopsOf(q) \/ l \in pool[q].wait
  BY Zenon DEF ScrapeInv, OwnInv, OwnedInv
<1>9. \A q \in PoolIDs, l \in LoopIDs : l \in LoopsOf(q) \/ l \in pool[q].wait => l \notin R
  <2> TAKE q \in PoolIDs, l \in LoopIDs
  <2>1. loop[l].pool = q <=> l \in LoopsOf(q) \/ l \in pool[q].wait
    BY <1>8, Zenon
  <2> QED
    BY <1>6, <1>7, <2>1, Zenon
<1>10. pool[p].wait = {}
  BY <1>1, Zenon DEF ScrapeInv, OwnInv, IdleInv
<1>11. \A q \in PoolIDs : q # p => LoopsOf(q)' = LoopsOf(q)
  BY <1>2, Zenon DEF LoopsOf
<1>12. FreeInv'
  <2> SUFFICES ASSUME NEW l \in LoopIDs PROVE loop'[l].pc = "none" <=> loop'[l].pool = 0
    BY Zenon DEF FreeInv
  <2>1. CASE l \in R
    BY <1>3, <1>6, <2>1, Zenon
  <2>2. CASE l \notin R
    <3>1. loop[l].pc = "none" <=> loop[l].pool = 0
      BY Zenon DEF ScrapeInv, OwnInv, FreeInv
    <3> QED
      BY <1>3, <2>2, <3>1, Zenon
  <2> QED
    BY <2>1, <2>2
<1>13. OwnedInv'
  <2> SUFFICES ASSUME NEW q \in PoolIDs, NEW l \in LoopIDs
               PROVE  loop'[l].pool = q <=> l \in LoopsOf(q)' \/ l \in pool'[q].wait
    BY Zenon DEF OwnedInv
  <2>1. loop[l].pool = q <=> l \in LoopsOf(q) \/ l \in pool[q].wait
    BY <1>8, Zenon
  <2>2. loop'[l].pool = q <=> loop[l].pool = q \/ (l \in R /\ q = p)
    BY <1>3, <1>6, <1>7, ZenonT(60)
  <2>3. CASE q = p
    <3>1. l \in R \/ l \in LoopsOf(p) <=> l \in LoopsOf(p)' \/ l \in pool'[p].wait
      BY <1>4, Zenon
    <3>2. loop[l].pool = p <=> l \in LoopsOf(p)
      BY <1>10, <2>1, <2>3, Zenon
    <3>3. loop'[l].pool = p <=> l \in R \/ l \in LoopsOf(p)
      BY <2>2, <2>3, <3>2, Zenon
    <3> QED
      BY <2>3, <3>1, <3>3, Zenon
  <2>4. CASE q # p
    <3>1. LoopsOf(q)' = LoopsOf(q) /\ pool'[q].wait = pool[q].wait
      BY <1>2, <1>11, <2>4, Zenon
    <3> QED
      BY <2>1, <2>2, <2>4, <3>1, Zenon
  <2> QED
    BY <2>3, <2>4
<1>14. TargetInv'
  <2> SUFFICES ASSUME NEW q \in PoolIDs, NEW t \in DOMAIN pool'[q].loops
               PROVE  loop'[pool'[q].loops[t]].target = t
    BY Zenon DEF TargetInv
  <2>1. CASE q = p
    BY <1>2, <2>1, Zenon
  <2>2. CASE q # p
    <3>1. pool'[q] = pool[q] /\ t \in DOMAIN pool[q].loops
      BY <1>2, <2>2, Zenon
    <3>2. pool[q].loops[t] \in LoopIDs /\ pool[q].loops[t] \in LoopsOf(q)
      BY <1>5, <3>1, Zenon DEF LoopsOf
    <3>3. loop[pool[q].loops[t]].target = t
      BY <3>1, Zenon DEF ScrapeInv, OwnInv, TargetInv
    <3>4. loop'[pool[q].loops[t]].target = t
      BY <1>3, <1>9, <3>2, <3>3, Zenon
    <3> QED
      BY <3>1, <3>4, Zenon
  <2> QED
    BY <2>1, <2>2
<1>15. IdleInv' /\ StopInv'
  <2> SUFFICES ASSUME NEW q \in PoolIDs
               PROVE  /\ pool'[q].op = "" => pool'[q].wait = {}
                      /\ pool'[q].op = "stop" => ~pool'[q].ctx /\ DOMAIN pool'[q].loops = {}
    BY Zenon DEF IdleInv, StopInv
  <2>1. CASE q = p
    BY <1>2, <2>1, Zenon
  <2>2. CASE q # p
    <3>1. pool'[q] = pool[q]
      BY <1>2, <2>2, Zenon
    <3> QED
      BY <3>1, Zenon DEF ScrapeInv, OwnInv, WaitInv, IdleInv, StopInv
  <2> QED
    BY <2>1, <2>2
<1>16. DisjointInv'
  <2> SUFFICES ASSUME NEW q \in PoolIDs PROVE LoopsOf(q)' \cap pool'[q].wait = {}
    BY Zenon DEF DisjointInv
  <2>1. CASE q = p
    BY <1>4, <2>1, Zenon
  <2>2. CASE q # p
    <3>1. LoopsOf(q)' = LoopsOf(q) /\ pool'[q].wait = pool[q].wait
      BY <1>2, <1>11, <2>2, Zenon
    <3> QED
      BY <3>1, Zenon DEF ScrapeInv, OwnInv, DisjointInv
  <2> QED
    BY <2>1, <2>2
<1>17. DistinctInv'
  <2> SUFFICES ASSUME NEW q \in PoolIDs, NEW l \in pool'[q].wait, NEW m \in pool'[q].wait,
                      loop'[l].target = loop'[m].target
               PROVE  l = m
    BY Zenon DEF DistinctInv
  <2>1. CASE q = p
    <3>1. l \in LoopsOf(p) /\ m \in LoopsOf(p)
      BY <1>4, <2>1, Zenon
    <3>2. l \in LoopIDs /\ m \in LoopIDs /\ l \notin R /\ m \notin R
      BY <1>5, <1>9, <3>1, Zenon
    <3>3. loop[l].target = loop[m].target
      BY <1>3, <3>2, Zenon
    <3> QED
      BY <3>1, <3>3, OneLoopPerTarget, Zenon
  <2>2. CASE q # p
    <3>1. l \in pool[q].wait /\ m \in pool[q].wait
      BY <1>2, <2>2, Zenon
    <3>2. l \in LoopIDs /\ m \in LoopIDs /\ l \notin R /\ m \notin R
      BY <1>5, <1>9, <3>1, Zenon
    <3>3. loop[l].target = loop[m].target
      BY <1>3, <3>2, Zenon
    <3> QED
      BY <3>1, <3>3, Zenon DEF ScrapeInv, WaitInv, DistinctInv
  <2> QED
    BY <2>1, <2>2
<1>18. GoneInv'
  <2> SUFFICES ASSUME NEW q \in PoolIDs, pool'[q].op = "sync", NEW l \in pool'[q].wait
               PROVE  loop'[l].target \notin DOMAIN pool'[q].loops
    BY Zenon DEF GoneInv
  <2>1. CASE q = p
    BY <1>1, <2>1, Zenon DEF Grown
  <2>2. CASE q # p
    <3>1. pool'[q] = pool[q] /\ l \in pool[q].wait
      BY <1>2, <2>2, Zenon
    <3>2. l \in LoopIDs /\ l \notin R
      BY <1>5, <1>9, <3>1, Zenon
    <3>3. loop'[l].target = loop[l].target
      BY <1>3, <3>2, Zenon
    <3> QED
      BY <3>1, <3>3, Zenon DEF ScrapeInv, WaitInv, GoneInv
  <2> QED
    BY <2>1, <2>2
<1>19. ReloadInv'
  <2> SUFFICES ASSUME NEW q \in PoolIDs, pool'[q].op = "reload", NEW m \in pool'[q].wait,
                      NEW n \in LoopsOf(q)', loop'[m].target = loop'[n].target
               PROVE  loop'[m].pc = "stopped" \/ (loop'[n].pc = "created" /\ loop'[n].after = m)
    BY Zenon DEF ReloadInv
  <2>1. CASE q = p
    <3>1. \A i \in pool'[p].wait, k \in LoopsOf(p)' : loop'[i].target = loop'[k].target =>
            loop'[k].pc = "created" /\ loop'[k].after = i
      BY <1>1, <2>1, Zenon DEF Grown
    <3> QED
      BY <2>1, <3>1, Zenon
  <2>2. CASE q # p
    <3>1. pool[q].op = "reload" /\ m \in pool[q].wait /\ n \in LoopsOf(q)
      BY <1>2, <1>11, <2>2, Zenon
    <3>2. m \in LoopIDs /\ n \in LoopIDs /\ m \notin R /\ n \notin R
      BY <1>5, <1>9, <3>1, Zenon
    <3>3. ReloadInv
      BY Zenon DEF ScrapeInv, WaitInv
    <3>4. loop[m].pc = "stopped" \/ (loop[n].pc = "created" /\ loop[n].after = m)
      <4>1. loop[m].target = loop[n].target
        BY <1>3, <3>2, Zenon
      <4> QED
        BY <3>1, <3>3, <4>1, SMT DEF ReloadInv
    <3> QED
      BY <1>3, <3>2, <3>4, Zenon
  <2> QED
    BY <2>1, <2>2
<1>20. DoneInv'
  <2> SUFFICES ASSUME NEW l \in LoopIDs, loop'[l].pool # 0, ~pool'[loop'[l].pool].ctx
               PROVE  /\ loop'[l].cancelled
                      /\ loop'[l].pc = "scrape" => pool'[loop'[l].pool].op = "stop"
    BY Zenon DEF DoneInv
  <2>1. CASE l \in R
    BY <1>2, <1>3, <2>1, Zenon
  <2>2. CASE l \notin R
    <3>1. loop[l].pool \in PoolIDs /\ loop'[l].pool = loop[l].pool /\ loop[l].pool # 0
      BY <1>3, <2>2, Zenon DEF ScrapeInv, ScrapeType, LoopRecords
    <3>2. ~pool[loop[l].pool].ctx
      BY <1>2, <3>1, Zenon
    <3>3. loop[l].cancelled /\ (loop[l].pc = "scrape" => pool[loop[l].pool].op = "stop")
      BY <3>1, <3>2, Zenon DEF ScrapeInv, DoneInv
    <3>4. loop[l].pc = "scrape" => loop[l].pool # p
      BY <1>1, <3>3, Zenon
    <3> QED
      BY <1>2, <1>3, <2>2, <3>1, <3>3, <3>4, ZenonT(60)
  <2> QED
    BY <2>1, <2>2
<1> QED
  BY <1>12, <1>13, <1>14, <1>15, <1>16, <1>17, <1>18, <1>19, <1>20 DEF OwnInv, WaitInv

\* The pools that there are, and their jobs, stay the same.
LEMMA GrownPools ==
  ASSUME ScrapeInv, NEW p \in Made, NEW R
  PROVE  /\ Grown(p, R) /\ mgr' = mgr /\ poolOf' = poolOf /\ sbudget' = sbudget
         /\ \A r \in syncs' : r.pool \in Made
         => MadeInv' /\ CurrentInv'
<1>1. SUFFICES ASSUME Grown(p, R), mgr' = mgr, poolOf' = poolOf, sbudget' = sbudget,
                      \A r \in syncs' : r.pool \in Made
               PROVE  MadeInv' /\ CurrentInv'
  BY Zenon
<1>2. Made' = Made /\ Made \subseteq PoolIDs
  BY <1>1, MadeArePools, Zenon DEF Made
<1>3. /\ \A q \in PoolIDs : q # p => pool'[q] = pool[q]
      /\ pool'[p].job = pool[p].job /\ pool'[p].ctx = pool[p].ctx
  BY <1>1, Zenon DEF Grown
<1>4. MadeInv'
  <2>1. \A l \in LoopIDs : loop'[l].pool \in Made \cup {0}
    <3> TAKE l \in LoopIDs
    <3>1. loop'[l].pool = p \/ loop'[l].pool = loop[l].pool
      BY <1>1, Zenon DEF Grown
    <3> QED
      BY <3>1, Zenon DEF ScrapeInv, MadeInv
  <2>2. \A q \in PoolIDs : q \notin Made => pool'[q] = NoPool
    BY <1>3, Zenon DEF ScrapeInv, MadeInv
  <2>3. (\A j \in Jobs : poolOf'[j] \in Made \cup {0}) /\ mgr'.todo \subseteq Made
    BY <1>1, Zenon DEF ScrapeInv, MadeInv
  <2> QED
    BY <1>1, <1>2, <2>1, <2>2, <2>3, Zenon DEF MadeInv
<1>5. CurrentInv'
  <2>1. \A q \in PoolIDs : pool'[q].job = pool[q].job /\ pool'[q].ctx = pool[q].ctx
    BY <1>3, Zenon
  <2>2. \A j \in Jobs : poolOf[j] \in PoolIDs \cup {0}
    BY Zenon DEF ScrapeInv, ScrapeType
  <2> QED
    BY <1>1, <1>2, <2>1, <2>2, Zenon DEF ScrapeInv, CurrentInv
<1> QED
  BY <1>4, <1>5

\* So does the list of pools to visit, on which a pool that is reloaded is.
LEMMA GrownList ==
  ASSUME ScrapeInv, NEW p \in PoolIDs, NEW R
  PROVE  /\ Grown(p, R) /\ mgr' = mgr /\ poolOf' = poolOf
         /\ pool'[p].op \in {"stop", "reload"} => p \in mgr.todo
         => ListInv'
<1>1. SUFFICES ASSUME Grown(p, R), mgr' = mgr, poolOf' = poolOf,
                      pool'[p].op \in {"stop", "reload"} => p \in mgr.todo
               PROVE  ListInv'
  BY Zenon
<1>2. \A q \in PoolIDs : pool'[q].job = pool[q].job /\ (q # p => pool'[q].op = pool[q].op)
  BY <1>1, Zenon DEF Grown
<1>3. mgr.todo \in SUBSET PoolIDs
  BY Zenon DEF ScrapeInv, ScrapeType, ManagerRecords
<1> QED
  BY <1>1, <1>2, <1>3, Zenon DEF ScrapeInv, ListInv

\* Sync: a target that is new gets a loop, and a loop whose target is gone is
\* stopped.
LEMMA SyncStartsKeeps == ScrapeInv /\ SyncStarts => ScrapeInv'
<1> SUFFICES ASSUME ScrapeInv, SyncStarts PROVE ScrapeInv'
  OBVIOUS
<1>1. PICK s \in syncs :
        LET p     == s.pool
            fresh == s.targets \ DOMAIN pool[p].loops
            gone  == {pool[p].loops[t] : t \in DOMAIN pool[p].loops \ s.targets}
            err   == Exceeds(p, Cardinality(s.targets))
            f     == NewLoops(fresh)
        IN /\ s.pc = "start" /\ pool[p].op = "" /\ Cardinality(fresh) <= Cardinality(FreeLoops)
           /\ pool' = [pool EXCEPT ![p].op = "sync", ![p].wait = gone,
                ![p].loops = [t \in s.targets |-> IF t \in fresh THEN f[t] ELSE @[t]]]
           /\ loop' = [l \in LoopIDs |->
                IF l \in Range(f)
                THEN [NoLoop EXCEPT !.pool = p, !.target = CHOOSE t \in fresh : f[t] = l,
                                    !.pc = "tick", !.cancelled = ~pool[p].ctx, !.forced = err]
                ELSE IF l \in gone THEN [loop[l] EXCEPT !.cancelled = TRUE]
                ELSE IF l \in LoopsOf(p) THEN [loop[l] EXCEPT !.forced = err]
                ELSE loop[l]]
           /\ syncs' = (syncs \ {s}) \cup {[s EXCEPT !.pc = "wait"]}
           /\ UNCHANGED <<mgr, poolOf, sbudget>>
  BY Zenon DEF SyncStarts
<1> DEFINE p     == s.pool
           fresh == s.targets \ DOMAIN pool[p].loops
           gone  == {pool[p].loops[t] : t \in DOMAIN pool[p].loops \ s.targets}
           err   == Exceeds(p, Cardinality(s.targets))
           f     == NewLoops(fresh)
           g     == [t \in s.targets |-> IF t \in fresh THEN f[t] ELSE pool[p].loops[t]]
<1>2. /\ p \in PoolIDs /\ p \in Made /\ s.targets \in SUBSET ScrapeTargets
      /\ s \in [pool : PoolIDs, targets : SUBSET ScrapeTargets, pc : {"start", "wait"}]
  BY Zenon DEF ScrapeInv, ScrapeType, MadeInv
<1>3. pool[p].op = "" /\ pool[p].wait = {}
  BY <1>1, <1>2, Zenon DEF ScrapeInv, OwnInv, IdleInv
<1>4. /\ f \in [fresh -> FreeLoops]
      /\ \A t, u \in fresh : f[t] = f[u] => t = u
  <2>1. Cardinality(fresh) <= Cardinality(FreeLoops)
    BY <1>1, Zenon
  <2>2. fresh \in SUBSET ScrapeTargets
    BY <1>2, Zenon
  <2> HIDE DEF fresh
  <2> QED
    BY <2>1, <2>2, NewLoopsAreNew, Zenon
<1>5. /\ \A q \in PoolIDs : \A t \in DOMAIN pool[q].loops : pool[q].loops[t] \in LoopIDs
      /\ \A q \in PoolIDs : LoopsOf(q) \in SUBSET LoopIDs
      /\ DOMAIN pool[p].loops \subseteq ScrapeTargets
  BY <1>2, PoolLoops, Zenon
<1>6. /\ \A t \in s.targets : t \in fresh => g[t] = f[t]
      /\ \A t \in s.targets : t \notin fresh => t \in DOMAIN pool[p].loops /\ g[t] = pool[p].loops[t]
      /\ DOMAIN g = s.targets /\ fresh \subseteq s.targets
      /\ \A t \in DOMAIN pool[p].loops : t \notin fresh
  OBVIOUS
<1>7. gone \subseteq LoopsOf(p)
  BY Zenon DEF LoopsOf
<1>8. \A l \in LoopIDs : l \in FreeLoops <=> loop[l].pool = 0
  BY Zenon DEF FreeLoops, ScrapeInv, OwnInv, FreeInv
<1>9. \A l \in LoopsOf(p) : loop[l].pool = p /\ l \in LoopIDs /\ p # 0
  <2>1. p # 0
    BY <1>2 DEF PoolIDs
  <2> QED
    BY <1>2, <1>5, <2>1, Zenon DEF ScrapeInv, OwnInv, OwnedInv
<1>10. /\ Range(f) \in SUBSET FreeLoops /\ \A t \in fresh : f[t] \in Range(f)
      /\ \A l \in Range(f) : \E t \in fresh : f[t] = l
  BY <1>4, Zenon DEF Range
<1>11. \A l \in LoopsOf(p) : l \notin Range(f)
  BY <1>8, <1>9, <1>10, Zenon
<1>12. g \in LoopMaps /\ gone \in SUBSET LoopIDs
  <2>1. \A t \in s.targets : g[t] \in LoopIDs
    BY <1>2, <1>4, <1>5, <1>6, Zenon DEF FreeLoops
  <2>2. g \in [s.targets -> LoopIDs]
    BY <2>1, Zenon
  <2>3. g \in LoopMaps
    BY <1>2, <2>2, IsLoopMap, Zenon
  <2> QED
    BY <1>2, <1>5, <1>7, <2>3, Zenon
<1>13. /\ pool' \in [PoolIDs -> PoolRecords]
       /\ \A q \in PoolIDs : q # p => pool'[q] = pool[q]
       /\ pool'[p].job = pool[p].job /\ pool'[p].ctx = pool[p].ctx
       /\ pool'[p].op = "sync" /\ pool'[p].wait = gone /\ pool'[p].loops = g
  <2>1. pool' = [pool EXCEPT ![p].op = "sync", ![p].wait = gone, ![p].loops = g]
    BY <1>1, Zenon
  <2>2. pool \in [PoolIDs -> PoolRecords]
    BY Zenon DEF ScrapeInv, ScrapeType
  <2>3. p \in PoolIDs
    BY <1>2
  <2> HIDE DEF gone, g, p
  <2> QED
    BY <1>12, <2>1, <2>2, <2>3, ZenonT(60) DEF PoolRecords
<1>14. /\ loop' \in [LoopIDs -> LoopRecords]
       /\ \A l \in LoopIDs : l \notin Range(f) =>
            /\ loop'[l].pool = loop[l].pool /\ loop'[l].target = loop[l].target
            /\ loop'[l].pc = loop[l].pc /\ loop'[l].after = loop[l].after
            /\ loop[l].cancelled => loop'[l].cancelled
       /\ \A l \in Range(f) : /\ loop'[l].pool = p /\ loop'[l].pc = "tick"
                              /\ loop'[l].cancelled <=> ~pool[p].ctx
       /\ \A t \in fresh : loop'[f[t]].target = t
  <2> DEFINE new(l) == [NoLoop EXCEPT !.pool = p, !.target = CHOOSE t \in fresh : f[t] = l,
                          !.pc = "tick", !.cancelled = ~pool[p].ctx, !.forced = err]
             old(l) == IF l \in gone THEN [loop[l] EXCEPT !.cancelled = TRUE]
                       ELSE IF l \in LoopsOf(p) THEN [loop[l] EXCEPT !.forced = err]
                       ELSE loop[l]
  <2>1. loop' = [l \in LoopIDs |-> IF l \in Range(f) THEN new(l) ELSE old(l)]
    BY <1>1, Zenon
  <2>2. loop \in [LoopIDs -> LoopRecords] /\ err \in BOOLEAN /\ pool[p].ctx \in BOOLEAN
    BY <1>2, Zenon DEF ScrapeInv, ScrapeType, PoolRecords, Exceeds
  <2>3. \A t \in fresh : (CHOOSE u \in fresh : f[u] = f[t]) = t
    BY <1>4, Zenon
  <2>4. \A l \in Range(f) : (CHOOSE u \in fresh : f[u] = l) \in ScrapeTargets
    BY <1>2, <1>10, <2>3, Zenon
  <2> HIDE DEF f, fresh, gone, err, p, g
  <2>5. \A l \in Range(f) : /\ new(l) \in LoopRecords /\ new(l).pool = p /\ new(l).pc = "tick"
                            /\ new(l).cancelled = ~pool[p].ctx
                            /\ new(l).target = CHOOSE t \in fresh : f[t] = l
    BY <1>2, <2>2, <2>4, Zenon DEF NoLoop, LoopRecords
  <2>6. \A l \in LoopIDs : /\ old(l) \in LoopRecords /\ old(l).pool = loop[l].pool
                           /\ old(l).target = loop[l].target /\ old(l).pc = loop[l].pc
                           /\ old(l).after = loop[l].after
                           /\ loop[l].cancelled => old(l).cancelled
    BY <2>2, ZenonT(60) DEF LoopRecords
  <2> HIDE DEF new, old
  <2>7. Range(f) \subseteq LoopIDs
    BY <1>10, Zenon DEF FreeLoops
  <2>8. loop' \in [LoopIDs -> LoopRecords]
    BY <2>1, <2>5, <2>6, Zenon
  <2>9. \A l \in LoopIDs : /\ l \in Range(f) => loop'[l] = new(l)
                           /\ l \notin Range(f) => loop'[l] = old(l)
    BY <2>1, Zenon
  <2>10. \A t \in fresh : loop'[f[t]].target = t
    <3> TAKE t \in fresh
    <3>1. f[t] \in Range(f) /\ f[t] \in LoopIDs
      BY <1>10, <2>7, Zenon
    <3>2. loop'[f[t]] = new(f[t])
      BY <2>9, <3>1, Zenon
    <3>3. new(f[t]).target = CHOOSE u \in fresh : f[u] = f[t]
      BY <2>5, <3>1, Zenon
    <3> QED
      BY <2>3, <3>2, <3>3, Zenon
  <2>11. ASSUME NEW l \in LoopIDs, l \notin Range(f)
         PROVE  /\ loop'[l].pool = loop[l].pool /\ loop'[l].target = loop[l].target
                /\ loop'[l].pc = loop[l].pc /\ loop'[l].after = loop[l].after
                /\ loop[l].cancelled => loop'[l].cancelled
    <3>1. loop'[l] = old(l)
      BY <2>9, <2>11, Zenon
    <3> QED
      BY <2>6, <3>1, Zenon
  <2>12. ASSUME NEW l \in Range(f)
         PROVE  /\ loop'[l].pool = p /\ loop'[l].pc = "tick"
                /\ loop'[l].cancelled <=> ~pool[p].ctx
    <3>1. loop'[l] = new(l)
      BY <2>7, <2>9, <2>12, Zenon
    <3> QED
      BY <2>5, <3>1, Zenon
  <2> QED
    BY <2>8, <2>10, <2>11, <2>12, Zenon
<1> HIDE DEF f, fresh, gone, err, p, g
<1>15. \A l \in Range(f) : /\ loop'[l].pool = p /\ loop'[l].pc = "tick"
                           /\ loop'[l].cancelled <=> ~pool[p].ctx
  BY <1>14, Zenon
<1> DEFINE ls == pool[p].loops
<1>16. /\ \A l \in gone : \E t \in DOMAIN ls : l = ls[t] /\ t \notin s.targets
       /\ \A t \in DOMAIN ls : t \notin s.targets => ls[t] \in gone
  BY Zenon DEF gone
<1>17. /\ \A l \in LoopsOf(p) : \E t \in DOMAIN ls : l = ls[t]
       /\ \A t \in DOMAIN ls : ls[t] \in LoopsOf(p)
       /\ \A t \in DOMAIN ls : loop[ls[t]].target = t
  BY <1>2, Zenon DEF LoopsOf, ScrapeInv, OwnInv, TargetInv
<1>18. /\ \A l \in LoopsOf(p)' : \E t \in s.targets : l = g[t]
       /\ \A t \in s.targets : g[t] \in LoopsOf(p)'
  <2>1. DOMAIN pool'[p].loops = s.targets /\ pool'[p].loops = g
    BY <1>6, <1>13, Zenon
  <2> QED
    BY <2>1, Zenon DEF LoopsOf
<1> HIDE DEF ls
<1>19. \A t \in s.targets : loop'[g[t]].target = t
  <2> TAKE t \in s.targets
  <2>1. CASE t \in fresh
    BY <1>6, <1>14, <2>1, Zenon
  <2>2. CASE t \notin fresh
    <3>1. t \in DOMAIN ls /\ g[t] = ls[t]
      BY <1>6, <2>2, Zenon DEF ls
    <3>2. g[t] \in LoopsOf(p) /\ loop[g[t]].target = t
      BY <1>17, <3>1, Zenon
    <3> QED
      BY <1>9, <1>11, <1>14, <3>2, Zenon
  <2> QED
    BY <2>1, <2>2
<1>20. \A l \in gone : l \in LoopIDs /\ loop'[l].target \notin s.targets
  <2> TAKE l \in gone
  <2>1. PICK t \in DOMAIN ls : l = ls[t] /\ t \notin s.targets
    BY <1>16, Zenon
  <2>2. loop[l].target = t
    BY <1>17, <2>1, Zenon
  <2>3. l \in LoopIDs /\ l \notin Range(f)
    BY <1>7, <1>9, <1>11, Zenon
  <2>4. loop'[l].target = loop[l].target
    BY <1>14, <2>3, Zenon
  <2> QED
    BY <2>1, <2>2, <2>3, <2>4, Zenon
<1>21. LoopsOf(p)' \cap gone = {}
  <2> SUFFICES ASSUME NEW l \in LoopsOf(p)', l \in gone PROVE FALSE
    BY Zenon
  <2>1. PICK t \in s.targets : l = g[t]
    BY <1>18, Zenon
  <2>2. loop'[l].target = t
    BY <1>19, <2>1, Zenon
  <2> QED
    BY <1>20, <2>2, Zenon
<1>22. \A l \in LoopIDs : l \in Range(f) \/ l \in LoopsOf(p) <=> l \in LoopsOf(p)' \/ l \in gone
  <2> TAKE l \in LoopIDs
  <2>1. l \in Range(f) => l \in LoopsOf(p)'
    <3> SUFFICES ASSUME l \in Range(f) PROVE l \in LoopsOf(p)'
      BY Zenon
    <3>1. PICK t \in fresh : f[t] = l
      BY <1>10, Zenon
    <3>2. t \in s.targets /\ g[t] = l
      BY <1>6, <3>1, Zenon
    <3> QED
      BY <1>18, <3>2, Zenon
  <2>2. l \in LoopsOf(p) => l \in LoopsOf(p)' \/ l \in gone
    <3> SUFFICES ASSUME l \in LoopsOf(p), l \notin gone PROVE l \in LoopsOf(p)'
      BY Zenon
    <3>1. PICK t \in DOMAIN ls : l = ls[t]
      BY <1>17, Zenon
    <3>2. t \in s.targets
      BY <1>16, <3>1, Zenon
    <3>3. g[t] = l
      BY <1>6, <3>1, <3>2, Zenon DEF ls
    <3> QED
      BY <1>18, <3>2, <3>3, Zenon
  <2>3. l \in LoopsOf(p)' => l \in Range(f) \/ l \in LoopsOf(p)
    <3> SUFFICES ASSUME l \in LoopsOf(p)' PROVE l \in Range(f) \/ l \in LoopsOf(p)
      BY Zenon
    <3>1. PICK t \in s.targets : l = g[t]
      BY <1>18, Zenon
    <3> QED
      BY <1>6, <1>10, <1>17, <3>1, Zenon DEF ls
  <2>4. l \in gone => l \in LoopsOf(p)
    BY <1>7, Zenon
  <2> QED
    BY <2>1, <2>2, <2>3, <2>4, Zenon
<1>23. Grown(p, Range(f))
  <2>1. \A t \in DOMAIN pool'[p].loops : loop'[pool'[p].loops[t]].target = t
    BY <1>6, <1>13, <1>19, Zenon
  <2>2. \A l \in pool'[p].wait : loop'[l].target \notin DOMAIN pool'[p].loops
    BY <1>6, <1>13, <1>20, Zenon
  <2>3. /\ pool'[p].wait \subseteq LoopsOf(p) /\ LoopsOf(p)' \cap pool'[p].wait = {}
        /\ \A l \in LoopIDs :
             l \in Range(f) \/ l \in LoopsOf(p) <=> l \in LoopsOf(p)' \/ l \in pool'[p].wait
    BY <1>7, <1>13, <1>21, <1>22, Zenon
  <2>4. pool'[p].op \in {"sync", "reload"} /\ pool'[p].op # "reload"
    BY <1>13
  <2>5. \A l \in Range(f) : /\ loop'[l].pool = p /\ loop'[l].pc \in {"tick", "created"}
                            /\ loop'[l].cancelled <=> ~pool[p].ctx
    <3> TAKE l \in Range(f)
    <3>1. loop'[l].pool = p /\ loop'[l].pc = "tick" /\ (loop'[l].cancelled <=> ~pool[p].ctx)
      BY <1>15, Zenon
    <3> QED
      BY <3>1, Zenon
  <2> QED
    BY <1>10, <1>13, <1>14, <2>1, <2>2, <2>3, <2>4, <2>5, Zenon DEF Grown
<1>24. OwnInv' /\ WaitInv' /\ DoneInv'
  BY <1>2, <1>3, <1>23, GrownFrame, Zenon
<1>25. mgr' = mgr /\ poolOf' = poolOf /\ sbudget' = sbudget
  BY <1>1, Zenon
<1>26. MadeInv' /\ CurrentInv'
  <2>1. \A r \in syncs' : r.pool \in Made
    <3>1. \A r \in syncs' : r \in syncs \/ r.pool = p
      BY <1>1, <1>2, Zenon DEF p
    <3> QED
      BY <1>2, <3>1, Zenon DEF ScrapeInv, MadeInv
  <2> QED
    BY <1>2, <1>23, <1>25, <2>1, GrownPools, Zenon
<1>27. ListInv'
  <2>1. pool'[p].op # "reload" /\ pool'[p].op # "stop"
    BY <1>13
  <2> QED
    BY <1>2, <1>23, <1>25, <2>1, GrownList, Zenon
<1>28. syncs' = (syncs \ {s}) \cup {[s EXCEPT !.pc = "wait"]}
  BY <1>1, Zenon
<1>29. ScrapeType'
  <2>1. [s EXCEPT !.pc = "wait"] \in [pool : PoolIDs, targets : SUBSET ScrapeTargets,
                                      pc : {"start", "wait"}]
    BY <1>2, Zenon
  <2>2. syncs' \subseteq [pool : PoolIDs, targets : SUBSET ScrapeTargets, pc : {"start", "wait"}]
    BY <1>28, <2>1, Zenon DEF ScrapeInv, ScrapeType
  <2> QED
    BY <1>13, <1>14, <1>25, <2>2, Zenon DEF ScrapeInv, ScrapeType
<1>30. SyncInv'
  <2>1. [s EXCEPT !.pc = "wait"].pool = p
    BY <1>2, Zenon DEF p
  <2>2. \A r \in syncs' : r = [s EXCEPT !.pc = "wait"] \/ (r \in syncs /\ r.pool # p)
    <3>1. \A r \in syncs : r # s => r.pool # p
      BY Zenon DEF ScrapeInv, SyncInv, p
    <3> QED
      BY <1>28, <3>1, Zenon
  <2>3. \A r \in syncs : r.pool \in PoolIDs
    BY Zenon DEF ScrapeInv, ScrapeType
  <2>4. \A r \in syncs' : r.pc = "wait" => pool'[r.pool].op = "sync"
    <3> TAKE r \in syncs'
    <3>1. CASE r = [s EXCEPT !.pc = "wait"]
      BY <1>13, <2>1, <3>1, Zenon
    <3>2. CASE r \in syncs /\ r.pool # p
      BY <1>13, <2>3, <3>2, Zenon DEF ScrapeInv, SyncInv
    <3> QED
      BY <2>2, <3>1, <3>2, Zenon
  <2>5. \A r, q \in syncs' : r.pool = q.pool => r = q
    BY <2>1, <2>2, Zenon DEF ScrapeInv, SyncInv
  <2> QED
    BY <2>4, <2>5, Zenon DEF SyncInv
<1> QED
  BY <1>24, <1>26, <1>27, <1>29, <1>30, Zenon DEF ScrapeInv

\* reload: every target gets a new loop, which starts when the old one has
\* stopped.
LEMMA ApplyReloadsKeeps == ScrapeInv /\ ApplyReloads => ScrapeInv'
<1> SUFFICES ASSUME ScrapeInv, ApplyReloads PROVE ScrapeInv'
  OBVIOUS
<1>1. PICK p \in mgr.todo :
        LET c   == mgr.configs[pool[p].job]
            ts  == DOMAIN pool[p].loops
            f   == NewLoops(ts)
        IN /\ c # <<>> /\ pool[p].op = "" /\ Cardinality(ts) <= Cardinality(FreeLoops)
           /\ pool' = [pool EXCEPT ![p].op = "reload", ![p].config = c[1],
                                   ![p].wait = LoopsOf(p), ![p].loops = f]
           /\ loop' = [l \in LoopIDs |->
                IF l \in Range(f)
                THEN ReloadLoop(p, CHOOSE t \in ts : f[t] = l,
                                c[1].limit # 0 /\ Cardinality(ts) > c[1].limit)
                ELSE [loop[l] EXCEPT !.cancelled = @ \/ l \in LoopsOf(p)]]
  BY Zenon DEF ApplyReloads
<1> DEFINE c   == mgr.configs[pool[p].job]
           ls  == pool[p].loops
           ts  == DOMAIN ls
           err == c[1].limit # 0 /\ Cardinality(ts) > c[1].limit
           f   == NewLoops(ts)
<1>2. p \in PoolIDs /\ p \in Made /\ p # 0
  <2>1. p \in PoolIDs /\ p \in Made
    BY Zenon DEF ScrapeInv, ScrapeType, ManagerRecords, MadeInv
  <2> QED
    BY <2>1 DEF PoolIDs
<1>3. pool[p].op = "" /\ pool[p].wait = {}
  BY <1>1, <1>2, Zenon DEF ScrapeInv, OwnInv, IdleInv
<1>4. c[1] \in ConfigValues
  <2>1. mgr.configs \in [Jobs -> {<<>>} \cup {<<k>> : k \in JobConfigs}] /\ pool[p].job \in Jobs
    BY <1>2, Zenon DEF ScrapeInv, ScrapeType, ManagerRecords, PoolRecords
  <2>2. c \in {<<k>> : k \in JobConfigs}
    BY <1>1, <2>1, Zenon
  <2>3. PICK k \in JobConfigs : c = <<k>>
    BY <2>2, Zenon
  <2>4. <<k>>[1] = k
    OBVIOUS
  <2> HIDE DEF c
  <2> QED
    BY <2>3, <2>4, Zenon DEF ConfigValues
<1>5. f \in [ts -> FreeLoops] /\ \A t, u \in ts : f[t] = f[u] => t = u
  <2>1. Cardinality(ts) <= Cardinality(FreeLoops)
    BY <1>1, Zenon
  <2>2. ts \in SUBSET ScrapeTargets
    BY <1>2, PoolLoops, Zenon
  <2> HIDE DEF ts
  <2> QED
    BY <2>1, <2>2, NewLoopsAreNew, Zenon
<1>6. /\ \A t \in ts : ls[t] \in LoopIDs /\ loop[ls[t]].target = t /\ ls[t] \in LoopsOf(p)
      /\ ts \in SUBSET ScrapeTargets /\ LoopsOf(p) \in SUBSET LoopIDs
      /\ \A l \in LoopsOf(p) : \E t \in ts : l = ls[t]
  BY <1>2, PoolLoops, Zenon DEF LoopsOf, ScrapeInv, OwnInv, TargetInv
<1>7. \A l \in LoopsOf(p) : loop[l].pool = p /\ l \in LoopIDs
  BY <1>2, <1>6, Zenon DEF ScrapeInv, OwnInv, OwnedInv
<1>8. /\ Range(f) \in SUBSET FreeLoops /\ \A t \in ts : f[t] \in Range(f)
      /\ \A l \in Range(f) : \E t \in ts : f[t] = l
  BY <1>5, Zenon DEF Range
<1>9. \A l \in LoopsOf(p) : l \notin Range(f)
  <2>1. \A l \in LoopIDs : l \in FreeLoops => loop[l].pool = 0
    BY Zenon DEF FreeLoops, ScrapeInv, OwnInv, FreeInv
  <2> QED
    BY <1>2, <1>7, <1>8, <2>1, Zenon
<1>10. f \in LoopMaps
  <2>1. f \in [ts -> LoopIDs]
    BY <1>5, Zenon DEF FreeLoops
  <2> HIDE DEF f, ts
  <2> QED
    BY <1>6, <2>1, IsLoopMap, Zenon
<1>11. /\ pool' \in [PoolIDs -> PoolRecords]
       /\ \A q \in PoolIDs : q # p => pool'[q] = pool[q]
       /\ pool'[p].job = pool[p].job /\ pool'[p].ctx = pool[p].ctx
       /\ pool'[p].op = "reload" /\ pool'[p].wait = LoopsOf(p) /\ pool'[p].loops = f
  <2>1. pool' = [pool EXCEPT ![p].op = "reload", ![p].config = c[1],
                             ![p].wait = LoopsOf(p), ![p].loops = f]
    BY <1>1, Zenon
  <2>2. pool \in [PoolIDs -> PoolRecords]
    BY Zenon DEF ScrapeInv, ScrapeType
  <2>3. p \in PoolIDs /\ LoopsOf(p) \in SUBSET LoopIDs
    BY <1>2, <1>6
  <2> HIDE DEF c, f
  <2> DEFINE r == [pool[p] EXCEPT !.op = "reload", !.config = c[1], !.wait = LoopsOf(p),
                                  !.loops = f]
  <2>4. pool' = [pool EXCEPT ![p] = r]
    BY <2>1, <2>2, <2>3, Zenon
  <2>5. /\ r \in PoolRecords /\ r.job = pool[p].job /\ r.ctx = pool[p].ctx
        /\ r.op = "reload" /\ r.wait = LoopsOf(p) /\ r.loops = f
    BY <1>4, <1>10, <2>2, <2>3, Zenon DEF PoolRecords
  <2> HIDE DEF r
  <2> QED
    BY <2>2, <2>3, <2>4, <2>5, Zenon
<1>12. /\ loop' \in [LoopIDs -> LoopRecords]
       /\ \A l \in LoopIDs : l \notin Range(f) =>
            /\ loop'[l].pool = loop[l].pool /\ loop'[l].target = loop[l].target
            /\ loop'[l].pc = loop[l].pc /\ loop'[l].after = loop[l].after
            /\ loop[l].cancelled => loop'[l].cancelled
       /\ \A l \in Range(f) : /\ loop'[l].pool = p /\ loop'[l].pc = "created"
                              /\ loop'[l].cancelled <=> ~pool[p].ctx
       /\ \A t \in ts : loop'[f[t]].target = t /\ loop'[f[t]].after = ls[t]
  <2> DEFINE tgt(l) == CHOOSE t \in ts : f[t] = l
             new(l) == [NoLoop EXCEPT !.pool = p, !.target = tgt(l), !.pc = "created",
                          !.after = ls[tgt(l)], !.then = err, !.cancelled = ~pool[p].ctx]
             old(l) == [loop[l] EXCEPT !.cancelled = @ \/ l \in LoopsOf(p)]
  <2>1. loop' = [l \in LoopIDs |-> IF l \in Range(f) THEN new(l) ELSE old(l)]
    BY <1>1, Zenon DEF ReloadLoop
  <2>2. loop \in [LoopIDs -> LoopRecords] /\ err \in BOOLEAN /\ pool[p].ctx \in BOOLEAN
    BY <1>2, Zenon DEF ScrapeInv, ScrapeType, PoolRecords
  <2>3. \A t \in ts : tgt(f[t]) = t
    BY <1>5, Zenon
  <2>4. \A l \in Range(f) : tgt(l) \in ScrapeTargets /\ ls[tgt(l)] \in LoopIDs
    <3>1. \A l \in Range(f) : tgt(l) \in ts
      BY <1>8, Zenon
    <3> HIDE DEF tgt
    <3> QED
      BY <1>6, <3>1, Zenon
  <2> HIDE DEF f, ts, c, err, ls, tgt
  <2>5. \A l \in Range(f) : /\ new(l) \in LoopRecords /\ new(l).pool = p
                            /\ new(l).pc = "created" /\ new(l).cancelled = ~pool[p].ctx
                            /\ new(l).target = tgt(l) /\ new(l).after = ls[tgt(l)]
    BY <1>2, <2>2, <2>4, Zenon DEF NoLoop, LoopRecords
  <2>6. \A l \in LoopIDs : /\ old(l) \in LoopRecords /\ old(l).pool = loop[l].pool
                           /\ old(l).target = loop[l].target /\ old(l).pc = loop[l].pc
                           /\ old(l).after = loop[l].after
                           /\ loop[l].cancelled => old(l).cancelled
    BY <2>2, ZenonT(60) DEF LoopRecords
  <2> HIDE DEF new, old
  <2>7. Range(f) \subseteq LoopIDs
    BY <1>8, Zenon DEF FreeLoops
  <2>8. loop' \in [LoopIDs -> LoopRecords]
    BY <2>1, <2>5, <2>6, Zenon
  <2>9. \A l \in LoopIDs : /\ l \in Range(f) => loop'[l] = new(l)
                           /\ l \notin Range(f) => loop'[l] = old(l)
    BY <2>1, Zenon
  <2>10. \A t \in ts : loop'[f[t]].target = t /\ loop'[f[t]].after = ls[t]
    <3> TAKE t \in ts
    <3>1. f[t] \in Range(f) /\ f[t] \in LoopIDs
      BY <1>8, <2>7, Zenon
    <3>2. loop'[f[t]] = new(f[t])
      BY <2>9, <3>1, Zenon
    <3>3. new(f[t]).target = tgt(f[t]) /\ new(f[t]).after = ls[tgt(f[t])]
      BY <2>5, <3>1, Zenon
    <3> QED
      BY <2>3, <3>2, <3>3, Zenon
  <2>11. ASSUME NEW l \in LoopIDs, l \notin Range(f)
         PROVE  /\ loop'[l].pool = loop[l].pool /\ loop'[l].target = loop[l].target
                /\ loop'[l].pc = loop[l].pc /\ loop'[l].after = loop[l].after
                /\ loop[l].cancelled => loop'[l].cancelled
    <3>1. loop'[l] = old(l)
      BY <2>9, <2>11, Zenon
    <3> QED
      BY <2>6, <3>1, Zenon
  <2>12. ASSUME NEW l \in Range(f)
         PROVE  /\ loop'[l].pool = p /\ loop'[l].pc = "created"
                /\ loop'[l].cancelled <=> ~pool[p].ctx
    <3>1. loop'[l] = new(l)
      BY <2>7, <2>9, <2>12, Zenon
    <3> QED
      BY <2>5, <3>1, Zenon
  <2> QED
    BY <2>8, <2>10, <2>11, <2>12, Zenon
<1>13. DOMAIN f = ts /\ pool'[p].loops = f
  BY <1>5, <1>11, Zenon
<1> HIDE DEF f, ts, c, err, ls
<1>14. LoopsOf(p)' = Range(f)
  BY <1>13, Zenon DEF LoopsOf, Range
<1>15. Grown(p, Range(f))
  <2>1. \A t \in DOMAIN pool'[p].loops : loop'[pool'[p].loops[t]].target = t
    BY <1>12, <1>13, Zenon
  <2>2. pool'[p].op \in {"sync", "reload"} /\ pool'[p].op # "sync"
    BY <1>11
  <2>3. /\ pool'[p].wait \subseteq LoopsOf(p) /\ LoopsOf(p)' \cap pool'[p].wait = {}
        /\ \A l \in LoopIDs :
             l \in Range(f) \/ l \in LoopsOf(p) <=> l \in LoopsOf(p)' \/ l \in pool'[p].wait
    BY <1>9, <1>11, <1>14, Zenon
  <2>4. \A m \in pool'[p].wait, n \in LoopsOf(p)' : loop'[m].target = loop'[n].target =>
          loop'[n].pc = "created" /\ loop'[n].after = m
    <3> SUFFICES ASSUME NEW m \in LoopsOf(p), NEW n \in Range(f),
                        loop'[m].target = loop'[n].target
                 PROVE  loop'[n].pc = "created" /\ loop'[n].after = m
      BY <1>11, <1>14, Zenon
    <3>1. PICK t \in ts : m = ls[t]
      BY <1>6, Zenon
    <3>2. PICK u \in ts : n = f[u]
      BY <1>8, Zenon
    <3>3. loop'[m].target = t
      <4>1. m \in LoopIDs /\ m \notin Range(f) /\ loop[m].target = t
        BY <1>6, <1>7, <1>9, <3>1, Zenon
      <4> QED
        BY <1>12, <4>1, Zenon
    <3>4. loop'[n].target = u /\ loop'[n].after = ls[u]
      BY <1>12, <3>2, Zenon
    <3>5. loop'[n].pc = "created"
      BY <1>12, Zenon
    <3> QED
      BY <3>1, <3>3, <3>4, <3>5, Zenon
  <2>5. \A l \in Range(f) : /\ loop'[l].pool = p /\ loop'[l].pc \in {"tick", "created"}
                            /\ loop'[l].cancelled <=> ~pool[p].ctx
    <3> TAKE l \in Range(f)
    <3>1. loop'[l].pool = p /\ loop'[l].pc = "created" /\ (loop'[l].cancelled <=> ~pool[p].ctx)
      BY <1>12, Zenon
    <3> QED
      BY <3>1, Zenon
  <2> QED
    BY <1>8, <1>11, <1>12, <2>1, <2>2, <2>3, <2>4, <2>5, Zenon DEF Grown
<1>16. OwnInv' /\ WaitInv' /\ DoneInv'
  BY <1>2, <1>3, <1>15, GrownFrame, Zenon
<1>17. mgr' = mgr /\ poolOf' = poolOf /\ sbudget' = sbudget /\ syncs' = syncs
  BY Zenon DEF ApplyReloads
<1>18. MadeInv' /\ CurrentInv'
  <2>1. \A r \in syncs' : r.pool \in Made
    BY <1>17, Zenon DEF ScrapeInv, MadeInv
  <2> QED
    BY <1>2, <1>15, <1>17, <2>1, GrownPools, Zenon
<1>19. ListInv'
  BY <1>2, <1>15, <1>17, GrownList, Zenon
<1>20. ScrapeType'
  BY <1>11, <1>12, <1>17, Zenon DEF ScrapeInv, ScrapeType
<1>21. SyncInv'
  <2>1. \A r \in syncs : r.pool \in PoolIDs /\ (r.pc = "wait" => r.pool # p)
    BY <1>3, Zenon DEF ScrapeInv, ScrapeType, SyncInv
  <2> QED
    BY <1>11, <1>17, <2>1, Zenon DEF ScrapeInv, SyncInv
<1> QED
  BY <1>16, <1>18, <1>19, <1>20, <1>21, Zenon DEF ScrapeInv

-----------------------------------------------------------------------------
\* reload of the manager: each job that needs a pool gets one that has never
\* been used, and every pool that a job has gets a Sync.
LEMMA ReloadKeeps == ScrapeInv /\ Reload => ScrapeInv'
<1> SUFFICES ASSUME ScrapeInv, Reload PROVE ScrapeInv'
  OBVIOUS
<1> DEFINE usable == {j \in DOMAIN mgr.tsets : mgr.configs[j] # <<>>}
           new    == {j \in usable : poolOf[j] = 0 /\ ~mgr.configs[j][1].bad}
           n      == Cardinality(new)
           ids    == sbudget.pools + 1 .. sbudget.pools + n
           job(f, p) == CHOOSE j \in new : f[j] = p
           rec(j) == [NoPool EXCEPT !.job = j, !.config = mgr.configs[j][1], !.ctx = TRUE]
<1>1. PICK f \in [new -> ids] :
        /\ \A i, j \in new : f[i] = f[j] => i = j
        /\ poolOf' = [j \in Jobs |-> IF j \in new THEN f[j] ELSE poolOf[j]]
        /\ pool' = [p \in PoolIDs |-> IF p \in ids THEN rec(job(f, p)) ELSE pool[p]]
  BY Zenon DEF Reload
<1>2. /\ mgr.trigger /\ mgr.mtx = "" /\ sbudget.pools + n <= MaxPools
      /\ mgr' = [mgr EXCEPT !.trigger = FALSE]
      /\ syncs' = {[pool |-> poolOf'[j], targets |-> mgr.tsets[j], pc |-> "start"] :
                   j \in {j \in DOMAIN mgr.tsets : poolOf'[j] # 0}}
      /\ sbudget' = [sbudget EXCEPT !.pools = @ + n]
      /\ loop' = loop
  BY Zenon DEF Reload
<1>3. DOMAIN mgr.tsets \subseteq Jobs /\ \A j \in DOMAIN mgr.tsets : mgr.tsets[j] \in SUBSET ScrapeTargets
  <2>1. mgr.tsets \in TsetMaps
    BY Zenon DEF ScrapeInv, ScrapeType, ManagerRecords
  <2> QED
    BY <2>1, TsetMapIs, Zenon
<1>4. new \in SUBSET Jobs /\ \A j \in new : poolOf[j] = 0
  BY <1>3, Zenon
<1>5. IsFiniteSet(new) /\ n \in Nat
  <2>1. IsFiniteSet(new)
    BY <1>4, FS_Subset, ScrapeAssumption, Zenon DEF ScrapeAssumption
  <2> QED
    BY <2>1, FS_CardinalityType, Zenon
<1>6. \A j \in new : mgr.configs[j][1] \in ConfigValues
  <2> TAKE j \in new
  <2>1. mgr.configs \in [Jobs -> {<<>>} \cup {<<k>> : k \in JobConfigs}]
    BY Zenon DEF ScrapeInv, ScrapeType, ManagerRecords
  <2>2. PICK k \in JobConfigs : mgr.configs[j] = <<k>>
    BY <1>4, <2>1, Zenon
  <2>3. <<k>>[1] = k
    OBVIOUS
  <2> QED
    BY <2>2, <2>3, Zenon DEF ConfigValues
<1> HIDE DEF usable, new, n, ids, rec, job
<1>7. sbudget \in [pools : 0 .. MaxPools, tsets : Nat, configs : Nat]
  BY Zenon DEF ScrapeInv, ScrapeType
<1>8. /\ sbudget' \in [pools : 0 .. MaxPools, tsets : Nat, configs : Nat]
      /\ sbudget'.pools = sbudget.pools + n /\ sbudget.pools + n <= MaxPools
      /\ sbudget.pools \in Nat
  <2>1. sbudget' = [sbudget EXCEPT !.pools = @ + n] /\ sbudget.pools + n <= MaxPools
    BY <1>2, Zenon
  <2> QED
    BY <1>5, <1>7, <2>1, ScrapeAssumption DEF ScrapeAssumption
<1>9. /\ Made' = Made \cup ids /\ Made \cap ids = {} /\ ids \in SUBSET PoolIDs
      /\ Made \subseteq PoolIDs /\ 0 \notin PoolIDs
  BY <1>5, <1>8, ScrapeAssumption DEF ScrapeAssumption, Made, ids, PoolIDs
<1>10. \A p \in ids : \E j \in new : f[j] = p
  <2>1. IsFiniteSet(ids) /\ Cardinality(ids) = Cardinality(new)
    <3>1. sbudget.pools + 1 \in Int /\ sbudget.pools + n \in Int
      BY <1>5, <1>8
    <3>2. /\ IsFiniteSet(ids)
          /\ Cardinality(ids) = IF sbudget.pools + 1 > sbudget.pools + n THEN 0
                                ELSE ((sbudget.pools + n) - (sbudget.pools + 1)) + 1
      BY <3>1, FS_Interval, Zenon DEF ids
    <3>3. Cardinality(ids) = n
      BY <1>5, <1>8, <3>2
    <3> QED
      BY <3>2, <3>3 DEF n
  <2>2. f \in Injection(new, ids)
    BY <1>1, Zenon DEF Injection, IsInjective
  <2>3. f \in Surjection(new, ids)
    BY <2>1, <2>2, FS_Injection, Zenon
  <2> QED
    BY <2>3, Zenon DEF Surjection
<1>11. \A p \in ids : job(f, p) \in new /\ f[job(f, p)] = p
  BY <1>10, Zenon DEF job
<1>12. \A j \in new : f[j] \in ids /\ job(f, f[j]) = j
  BY <1>1, <1>11, Zenon
<1>13. \A j \in new : /\ rec(j) \in PoolRecords /\ rec(j).job = j /\ rec(j).op = ""
                      /\ rec(j).wait = {} /\ rec(j).loops = <<>>
  <2> TAKE j \in new
  <2>1. NoPool \in PoolRecords /\ NoPool.op = "" /\ NoPool.wait = {} /\ NoPool.loops = <<>>
    <3>1. (CHOOSE i \in Jobs : TRUE) \in Jobs
      BY ScrapeAssumption, Zenon DEF ScrapeAssumption
    <3>2. NoConfig \in ConfigValues
      BY Zenon DEF ConfigValues
    <3> QED
      BY <3>1, <3>2, NoLoopMap, Zenon DEF PoolRecords, NoPool
  <2>2. j \in Jobs /\ mgr.configs[j][1] \in ConfigValues
    BY <1>4, <1>6, Zenon
  <2> HIDE DEF NoPool
  <2> QED
    BY <2>1, <2>2, Zenon DEF rec, PoolRecords
<1>14. /\ pool' \in [PoolIDs -> PoolRecords]
       /\ \A p \in PoolIDs : p \notin ids => pool'[p] = pool[p]
       /\ \A p \in ids : pool'[p] = rec(job(f, p))
  <2>1. pool \in [PoolIDs -> PoolRecords]
    BY Zenon DEF ScrapeInv, ScrapeType
  <2>2. pool' = [p \in PoolIDs |-> IF p \in ids THEN rec(job(f, p)) ELSE pool[p]]
    BY <1>1, Zenon
  <2> QED
    BY <1>9, <1>11, <1>13, <2>1, <2>2, Zenon
<1>15. /\ poolOf' \in [Jobs -> PoolIDs \cup {0}]
       /\ \A j \in Jobs : j \in new => poolOf'[j] = f[j]
       /\ \A j \in Jobs : j \notin new => poolOf'[j] = poolOf[j]
  <2>1. poolOf \in [Jobs -> PoolIDs \cup {0}]
    BY Zenon DEF ScrapeInv, ScrapeType
  <2>2. poolOf' = [j \in Jobs |-> IF j \in new THEN f[j] ELSE poolOf[j]]
    BY <1>1, Zenon
  <2> QED
    BY <1>9, <1>12, <2>1, <2>2, Zenon
<1>16. mgr' \in ManagerRecords /\ mgr'.todo = mgr.todo /\ mgr'.mtx = mgr.mtx /\ mgr.todo = {}
  BY <1>2, Zenon DEF ScrapeInv, ScrapeType, ManagerRecords, ListInv
<1>17. \A s \in syncs' : \E j \in Jobs :
         /\ s = [pool |-> poolOf'[j], targets |-> mgr.tsets[j], pc |-> "start"]
         /\ poolOf'[j] # 0 /\ mgr.tsets[j] \in SUBSET ScrapeTargets
  BY <1>2, <1>3, Zenon
<1>18. \A s \in syncs' : \E j \in Jobs :
         /\ s \in [pool : PoolIDs, targets : SUBSET ScrapeTargets, pc : {"start", "wait"}]
         /\ s = [pool |-> poolOf'[j], targets |-> mgr.tsets[j], pc |-> "start"]
         /\ s.pool = poolOf'[j] /\ poolOf'[j] # 0 /\ s.pc = "start"
  <2> TAKE s \in syncs'
  <2>1. PICK j \in Jobs : /\ s = [pool |-> poolOf'[j], targets |-> mgr.tsets[j], pc |-> "start"]
                          /\ poolOf'[j] # 0 /\ mgr.tsets[j] \in SUBSET ScrapeTargets
    BY <1>17, Zenon
  <2>2. poolOf'[j] \in PoolIDs
    BY <1>15, <2>1, Zenon
  <2>3. /\ s \in [pool : PoolIDs, targets : SUBSET ScrapeTargets, pc : {"start", "wait"}]
        /\ s.pool = poolOf'[j] /\ s.pc = "start"
    BY <2>1, <2>2, Zenon
  <2> QED
    BY <2>1, <2>3, Zenon
<1>19. ScrapeType'
  <2>1. syncs' \subseteq [pool : PoolIDs, targets : SUBSET ScrapeTargets, pc : {"start", "wait"}]
    BY <1>18, Zenon
  <2>2. loop' \in [LoopIDs -> LoopRecords]
    BY <1>2, Zenon DEF ScrapeInv, ScrapeType
  <2> QED
    BY <1>8, <1>14, <1>15, <1>16, <2>1, <2>2, Zenon DEF ScrapeType
<1>20. \A j \in Jobs : poolOf'[j] \in Made' \cup {0}
  <2> TAKE j \in Jobs
  <2>1. CASE j \in new
    BY <1>9, <1>12, <1>15, <2>1, Zenon
  <2>2. CASE j \notin new
    BY <1>9, <1>15, <2>2, Zenon DEF ScrapeInv, MadeInv
  <2> QED
    BY <2>1, <2>2, Zenon
<1>21. \A l \in LoopIDs : loop'[l] = loop[l] /\ loop[l].pool \in Made \cup {0}
  BY <1>2, Zenon DEF ScrapeInv, MadeInv
<1>22. MadeInv'
  <2>1. \A s \in syncs' : s.pool \in Made'
    BY <1>18, <1>20, Zenon
  <2>2. \A p \in PoolIDs : p \notin Made' => pool'[p] = NoPool
    BY <1>9, <1>14, Zenon DEF ScrapeInv, MadeInv
  <2>3. \A l \in LoopIDs : loop'[l].pool \in Made' \cup {0}
    BY <1>9, <1>21, Zenon
  <2>4. mgr'.todo \subseteq Made'
    BY <1>16, Zenon
  <2> QED
    BY <1>20, <2>1, <2>2, <2>3, <2>4, Zenon DEF MadeInv
<1>23. CurrentInv'
  <2>1. ASSUME NEW j \in Jobs, poolOf'[j] # 0 PROVE pool'[poolOf'[j]].job = j
    <3>1. CASE j \in new
      <4>1. poolOf'[j] = f[j] /\ f[j] \in ids /\ pool'[f[j]] = rec(j)
        BY <1>12, <1>14, <1>15, <3>1, Zenon
      <4> QED
        BY <1>13, <3>1, <4>1, Zenon
    <3>2. CASE j \notin new
      <4>1. poolOf'[j] = poolOf[j] /\ poolOf[j] \in Made
        BY <1>15, <2>1, <3>2, Zenon DEF ScrapeInv, MadeInv
      <4>2. pool'[poolOf[j]] = pool[poolOf[j]]
        BY <1>9, <1>14, <4>1, Zenon
      <4>3. poolOf[j] # 0
        BY <2>1, <4>1, Zenon
      <4> QED
        BY <4>1, <4>2, <4>3, Zenon DEF ScrapeInv, CurrentInv
    <3> QED
      BY <3>1, <3>2
  <2>2. ASSUME NEW p \in Made', pool'[p].ctx PROVE poolOf'[pool'[p].job] = p
    <3>1. CASE p \in ids
      <4>1. pool'[p].job = job(f, p) /\ job(f, p) \in new /\ f[job(f, p)] = p
        BY <1>11, <1>13, <1>14, <3>1, Zenon
      <4> QED
        BY <1>4, <1>15, <4>1, Zenon
    <3>2. CASE p \notin ids
      <4>1. p \in Made /\ pool'[p] = pool[p]
        BY <1>9, <1>14, <3>2, Zenon
      <4>2. poolOf[pool[p].job] = p /\ p \in PoolIDs
        BY <1>9, <2>2, <4>1, Zenon DEF ScrapeInv, CurrentInv
      <4>3. pool[p].job \in Jobs /\ pool[p].job \notin new
        BY <1>4, <1>9, <4>2, Zenon DEF ScrapeInv, ScrapeType, PoolRecords
      <4> QED
        BY <1>15, <4>1, <4>2, <4>3, Zenon
    <3> QED
      BY <3>1, <3>2
  <2> QED
    BY <2>1, <2>2, Zenon DEF CurrentInv
<1>24. \A p \in PoolIDs : \/ pool'[p] = pool[p] /\ LoopsOf(p)' = LoopsOf(p)
                          \/ /\ p \in ids /\ pool'[p].op = "" /\ pool'[p].wait = {}
                             /\ DOMAIN pool'[p].loops = {} /\ LoopsOf(p)' = {}
  <2> TAKE p \in PoolIDs
  <2>1. CASE p \in ids
    <3>1. job(f, p) \in new /\ pool'[p] = rec(job(f, p))
      BY <1>11, <1>14, <2>1, Zenon
    <3>2. pool'[p].op = "" /\ pool'[p].wait = {} /\ pool'[p].loops = <<>>
      BY <1>13, <3>1, Zenon
    <3>3. DOMAIN pool'[p].loops = {}
      BY <3>2, NoLoopMap, Zenon
    <3> QED
      BY <2>1, <3>2, <3>3, Zenon DEF LoopsOf
  <2>2. CASE p \notin ids
    <3>1. pool'[p] = pool[p]
      BY <1>14, <2>2, Zenon
    <3> QED
      BY <3>1, Zenon DEF LoopsOf
  <2> QED
    BY <2>1, <2>2, Zenon
<1>25. ListInv'
  <2>1. \A p \in PoolIDs : pool'[p].op \notin {"stop", "reload"}
    <3> TAKE p \in PoolIDs
    <3>1. pool[p].op \notin {"stop", "reload"}
      BY <1>16, Zenon DEF ScrapeInv, ListInv
    <3> QED
      BY <1>24, <3>1, Zenon
  <2> QED
    BY <1>16, <2>1, Zenon DEF ListInv
<1>26. SyncInv'
  <2>1. \A s \in syncs' : s.pc # "wait"
    BY <1>18, Zenon
  <2>2. ASSUME NEW s \in syncs', NEW r \in syncs', s.pool = r.pool PROVE s = r
    <3>1. PICK i \in Jobs : /\ s = [pool |-> poolOf'[i], targets |-> mgr.tsets[i], pc |-> "start"]
                            /\ s.pool = poolOf'[i] /\ poolOf'[i] # 0
      BY <1>18, Zenon
    <3>2. PICK j \in Jobs : /\ r = [pool |-> poolOf'[j], targets |-> mgr.tsets[j], pc |-> "start"]
                            /\ r.pool = poolOf'[j] /\ poolOf'[j] # 0
      BY <1>18, Zenon
    <3>3. i = j
      BY <1>23, <2>2, <3>1, <3>2, Zenon DEF CurrentInv
    <3> QED
      BY <3>1, <3>2, <3>3, Zenon
  <2> QED
    BY <2>1, <2>2, Zenon DEF SyncInv
<1>27. \A l \in LoopIDs : \A p \in ids : loop[l].pool # p
  BY <1>9, <1>21, Zenon
<1>28. FreeInv' /\ IdleInv' /\ StopInv'
  <2>1. FreeInv'
    BY <1>2, Zenon DEF ScrapeInv, OwnInv, FreeInv
  <2>2. IdleInv'
    BY <1>24, Zenon DEF ScrapeInv, OwnInv, IdleInv
  <2>3. StopInv'
    BY <1>24, Zenon DEF ScrapeInv, WaitInv, StopInv
  <2> QED
    BY <2>1, <2>2, <2>3
<1>29. OwnedInv'
  <2> SUFFICES ASSUME NEW q \in PoolIDs, NEW l \in LoopIDs
               PROVE  loop[l].pool = q <=> l \in LoopsOf(q)' \/ l \in pool'[q].wait
    BY <1>2, Zenon DEF OwnedInv
  <2>1. loop[l].pool = q <=> l \in LoopsOf(q) \/ l \in pool[q].wait
    BY Zenon DEF ScrapeInv, OwnInv, OwnedInv
  <2>2. CASE pool'[q] = pool[q] /\ LoopsOf(q)' = LoopsOf(q)
    BY <2>1, <2>2, Zenon
  <2>3. CASE q \in ids /\ pool'[q].wait = {} /\ LoopsOf(q)' = {}
    BY <1>27, <2>3, Zenon
  <2> QED
    BY <1>24, <2>2, <2>3, Zenon
<1>30. TargetInv' /\ DisjointInv'
  <2>1. TargetInv'
    <3> SUFFICES ASSUME NEW q \in PoolIDs, NEW t \in DOMAIN pool'[q].loops
                 PROVE  loop'[pool'[q].loops[t]].target = t
      BY Zenon DEF TargetInv
    <3>1. pool'[q] = pool[q]
      BY <1>24, Zenon
    <3> QED
      BY <1>2, <3>1, Zenon DEF ScrapeInv, OwnInv, TargetInv
  <2>2. DisjointInv'
    <3> SUFFICES ASSUME NEW q \in PoolIDs PROVE LoopsOf(q)' \cap pool'[q].wait = {}
      BY Zenon DEF DisjointInv
    <3>1. CASE pool'[q] = pool[q] /\ LoopsOf(q)' = LoopsOf(q)
      BY <3>1, Zenon DEF ScrapeInv, OwnInv, DisjointInv
    <3>2. CASE LoopsOf(q)' = {}
      BY <3>2, Zenon
    <3> QED
      BY <1>24, <3>1, <3>2, Zenon
  <2> QED
    BY <2>1, <2>2
<1>31. \A q \in PoolIDs : pool'[q].wait # {} => pool'[q] = pool[q] /\ LoopsOf(q)' = LoopsOf(q)
  BY <1>24, Zenon
<1>32. DistinctInv'
  BY <1>2, <1>31, Zenon DEF ScrapeInv, WaitInv, DistinctInv
<1>33. GoneInv'
  BY <1>2, <1>31, Zenon DEF ScrapeInv, WaitInv, GoneInv
<1>34. ReloadInv'
  <2> SUFFICES ASSUME NEW q \in PoolIDs, pool'[q].op = "reload", NEW m \in pool'[q].wait,
                      NEW k \in LoopsOf(q)', loop'[m].target = loop'[k].target
               PROVE  loop'[m].pc = "stopped" \/ (loop'[k].pc = "created" /\ loop'[k].after = m)
    BY Zenon DEF ReloadInv
  <2>1. pool[q].op = "reload" /\ m \in pool[q].wait /\ k \in LoopsOf(q)
    BY <1>31, Zenon
  <2>2. ReloadInv
    BY Zenon DEF ScrapeInv, WaitInv
  <2>3. loop' = loop
    BY <1>2, Zenon
  <2> QED
    BY <2>1, <2>2, <2>3, SMT DEF ReloadInv
<1>35. DoneInv'
  <2>1. \A l \in LoopIDs : loop[l].pool # 0 => pool'[loop[l].pool] = pool[loop[l].pool]
    BY <1>9, <1>14, <1>21, Zenon
  <2> QED
    BY <1>2, <2>1, Zenon DEF ScrapeInv, DoneInv
<1> QED
  BY <1>19, <1>22, <1>23, <1>25, <1>26, <1>28, <1>29, <1>30, <1>32, <1>33, <1>34, <1>35
     DEF ScrapeInv, OwnInv, WaitInv

-----------------------------------------------------------------------------
\* Every step of the manager, the pools and the loops preserves the invariant.
LEMMA ScrapeInvariant == ScrapeSpec => []ScrapeInv
<1>1. ScrapeInv /\ [ScrapeNext]_scrapeVars => ScrapeInv'
  <2> SUFFICES ASSUME ScrapeInv, [ScrapeNext]_scrapeVars PROVE ScrapeInv'
    OBVIOUS
  <2>1. CASE UpdateTsets \/ ApplyScrapeConfig \/ StopManager
    BY <2>1, UpdateTsetsKeeps, ApplyConfigKeeps, StopManagerKeeps, Zenon
  <2>2. CASE ScrapeWork
    BY <2>2, ReloadKeeps, SyncStartsKeeps, SyncEndsKeeps, OpEndsKeeps, Zenon DEF ScrapeWork
  <2>3. CASE ApplySkips \/ ApplyReloads \/ ApplyScrapeEnds \/ StopManagerEnds
    BY <2>3, ApplySkipsKeeps, ApplyReloadsKeeps, ManagerEndsKeep, Zenon
  <2>4. CASE ApplyStops \/ StopsPool
    <3>1. \E p \in mgr.todo : StopPool(p)
      BY <2>4, Zenon DEF ApplyStops, StopsPool
    <3>2. UNCHANGED <<mgr, poolOf, syncs, sbudget>>
      BY <2>4, Zenon DEF ApplyStops, StopsPool
    <3> QED
      BY <3>1, <3>2, StopPoolKeeps, Zenon
  <2>5. CASE \E l \in LoopIDs : LoopStep(l)
    BY <2>5, LoopStepKeeps, Zenon
  <2>6. CASE UNCHANGED scrapeVars
    <3>1. UNCHANGED <<poolOf, pool, syncs, loop>> /\ mgr' = mgr /\ sbudget' = sbudget
      BY <2>6, Zenon DEF scrapeVars
    <3>2. /\ sbudget' \in [pools : 0 .. MaxPools, tsets : Nat, configs : Nat]
          /\ sbudget'.pools = sbudget.pools /\ mgr' \in ManagerRecords
      BY <3>1, Zenon DEF ScrapeInv, ScrapeType
    <3>3. ListInv' /\ mgr'.todo \subseteq Made
      BY <3>1, Zenon DEF ScrapeInv, ListInv, MadeInv
    <3> QED
      BY <3>1, <3>2, <3>3, ManagerFrame, Zenon
  <2> QED
    BY <2>1, <2>2, <2>3, <2>4, <2>5, <2>6, Zenon DEF ScrapeNext, StopWork
<1> QED
  BY <1>1, ScrapeInitially, PTL DEF ScrapeSpec

\* Of the loops ever made for a target of a job at most one scrapes at a time,
\* and a loop that scrapes belongs to its job's current pool, whatever ApplyConfig,
\* Sync, reload and stop do meanwhile.
THEOREM LoopsTakeTurns == ScrapeSpec => []OldLoopsAreSilent
<1>1. ScrapeInv => OldLoopsAreSilent
  <2> SUFFICES ASSUME ScrapeInv PROVE OldLoopsAreSilent
    OBVIOUS
  <2>1. \A p \in PoolIDs : p # 0
    BY DEF PoolIDs
  <2>2. ASSUME NEW l \in LoopIDs, loop[l].pc = "scrape"
        PROVE  /\ loop[l].pool \in PoolIDs /\ poolOf[pool[loop[l].pool].job] = loop[l].pool
               /\ l \in LoopsOf(loop[l].pool) \/ l \in pool[loop[l].pool].wait
    <3>1. loop[l].pool # 0 /\ loop[l].pool \in Made /\ loop[l].pool \in PoolIDs
      <4>1. loop[l].pool # 0
        BY <2>2, Zenon DEF ScrapeInv, OwnInv, FreeInv
      <4>2. loop[l].pool \in Made
        BY <4>1, Zenon DEF ScrapeInv, MadeInv
      <4> QED
        BY <4>1, <4>2, MadeArePools, Zenon
    <3>2. pool[loop[l].pool].ctx => poolOf[pool[loop[l].pool].job] = loop[l].pool
      BY <3>1, Zenon DEF ScrapeInv, CurrentInv
    <3>3. ASSUME ~pool[loop[l].pool].ctx
          PROVE  poolOf[pool[loop[l].pool].job] = loop[l].pool
      <4>1. pool[loop[l].pool].op = "stop"
        BY <2>2, <3>1, <3>3, Zenon DEF ScrapeInv, DoneInv
      <4> QED
        BY <3>1, <4>1, Zenon DEF ScrapeInv, ListInv
    <3>4. l \in LoopsOf(loop[l].pool) \/ l \in pool[loop[l].pool].wait
      BY <3>1, Zenon DEF ScrapeInv, OwnInv, OwnedInv
    <3>5. poolOf[pool[loop[l].pool].job] = loop[l].pool
      BY <3>2, <3>3, Zenon
    <3> QED
      BY <3>1, <3>4, <3>5
  <2>3. OneScrapeAtATime
    <3> SUFFICES ASSUME NEW l \in LoopIDs, NEW m \in LoopIDs,
                        loop[l].pc = "scrape", loop[m].pc = "scrape",
                        loop[l].target = loop[m].target,
                        pool[loop[l].pool].job = pool[loop[m].pool].job
                 PROVE  l = m
      BY Zenon DEF OneScrapeAtATime
    <3> DEFINE p == loop[l].pool
    <3>1. /\ p \in PoolIDs /\ loop[m].pool = p
          /\ l \in LoopsOf(p) \/ l \in pool[p].wait
          /\ m \in LoopsOf(p) \/ m \in pool[p].wait
      BY <2>2, Zenon
    <3> HIDE DEF p
    <3>2. CASE l \in LoopsOf(p) /\ m \in LoopsOf(p)
      BY <3>1, <3>2, OneLoopPerTarget, Zenon
    <3>3. CASE l \in pool[p].wait /\ m \in pool[p].wait
      BY <3>1, <3>3, Zenon DEF ScrapeInv, WaitInv, DistinctInv
    <3>4. ASSUME NEW i \in LoopsOf(p), NEW k \in pool[p].wait,
                 loop[i].target = loop[k].target
          PROVE  loop[i].pc # "scrape" \/ loop[k].pc # "scrape"
      <4>1. loop[k].target \in DOMAIN pool[p].loops
        <5>1. PICK t \in DOMAIN pool[p].loops : i = pool[p].loops[t]
          BY Zenon DEF LoopsOf
        <5> QED
          BY <3>1, <3>4, <5>1, Zenon DEF ScrapeInv, OwnInv, TargetInv
      <4>2. pool[p].op = "reload"
        <5>1. pool[p].op \in {"", "sync", "reload", "stop"}
          BY <3>1, Zenon DEF ScrapeInv, ScrapeType, PoolRecords
        <5>2. pool[p].op # "" /\ pool[p].op # "sync" /\ pool[p].op # "stop"
          BY <3>1, <4>1, Zenon
             DEF ScrapeInv, OwnInv, IdleInv, WaitInv, GoneInv, StopInv
        <5> QED
          BY <5>1, <5>2, Zenon
      <4>3. ReloadInv
        BY Zenon DEF ScrapeInv, WaitInv
      <4>4. loop[k].pc = "stopped" \/ loop[i].pc = "created"
        BY <3>1, <3>4, <4>2, <4>3, SMT DEF ReloadInv
      <4> QED
        BY <4>4
    <3> QED
      BY <3>1, <3>2, <3>3, <3>4, Zenon
  <2>4. RemovedPoolsAreSilent
    BY <2>2, Zenon DEF RemovedPoolsAreSilent
  <2> QED
    BY <2>3, <2>4 DEF OldLoopsAreSilent
<1> QED
  BY <1>1, ScrapeInvariant, PTL
=============================================================================
