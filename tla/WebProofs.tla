------------------------------ MODULE WebProofs -----------------------------
(***************************************************************************)
(* Theorems about Fetch, SearchCache and Markdown.                         *)
(*                                                                         *)
(* Fetch, for any number of calls and search legs, any site and any        *)
(* timeouts of which the static one and the browser's together fit in the  *)
(* tool call's.                                                            *)
(*                                                                         *)
(* SearchCache, for any number of keys, legs, processes, process ids and   *)
(* kills, any cap and any movement of the clock.  What concerns temp files *)
(* rests on their names: those two live writers use differ, in the process *)
(* id if they run in two processes and in the counter if they run in one.  *)
(* What concerns the cap rests on what the total of a pass may miss:       *)
(* entries stored after it measured, and nothing else; what others remove  *)
(* makes the total too large and never too small.                          *)
(*                                                                         *)
(* Markdown, for pages of any number of blocks of any length: what the     *)
(* cleanup and the comparison read as code is determined line by line from *)
(* the fence that is open, and a line outside a fence cannot open one      *)
(* unless the converter wrote it there.                                    *)
(***************************************************************************)
EXTENDS Fetch, SearchCache, Markdown, SequenceTheorems, WellFoundedInduction,
        FiniteSetTheorems, TLAPS

-----------------------------------------------------------------------------
(* SearchCache.                                                            *)
Writers == {l \in Legs : Has(l, {"write", "rename"})}

(* What the argument needs of the types. *)
Shape ==
  /\ leg = [l \in Legs |-> leg[l]]
  /\ home \in [Legs -> Procs]
  /\ pid \in [Procs -> Pids] /\ IsInjective(pid)
  /\ counter \in [Procs -> Nat]
  /\ \A l \in Legs : Has(l, {"live"}) => leg[l].key \in Keys

(* A writer's temp file bears the id of its process and a number the       *)
(* process has given away, and will hold an entry that can be read.        *)
Named ==
  \A l \in Writers :
    /\ leg[l].file.body = "entry"
    /\ \E k \in Keys, n \in Nat :
         n < counter[home[l]] /\ leg[l].temp = <<k, pid[home[l]], n>>

Exclusive == \A l, m \in Writers : l # m => leg[l].temp # leg[m].temp

TempInv == Shape /\ Named /\ Exclusive /\ PublishedWhole /\ NoLitter
-----------------------------------------------------------------------------
(* What a step of one leg does to the others, and to the shape of leg. *)
LEMMA StepOf ==
  ASSUME Shape, NEW l \in Legs, NEW next, Step(l, next)
  PROVE  /\ leg'[l] = next
         /\ \A m \in Legs \ {l} : leg'[m] = leg[m]
         /\ leg' = [m \in Legs |-> leg'[m]]
BY DEF Shape, Step

(* The steps of a leg that is not writing afterwards: the files and temps  *)
(* that remain are those there were, and its own temp is not one of them.  *)
LEMMA Quiet ==
  ASSUME TempInv, NEW l \in Legs, NEW next, Step(l, next),
         next.pc \notin {"write", "rename"},
         next.pc = "live" => next.key \in Keys,
         UNCHANGED <<home, pid, counter, orphans>>,
         DOMAIN temps' \subseteq DOMAIN temps \ Writing(l),
         \A t \in DOMAIN temps' : temps'[t] = temps[t],
         \A k \in DOMAIN files' : files'[k].body # "torn"
  PROVE  TempInv'
<1>1. /\ leg'[l] = next
      /\ \A m \in Legs \ {l} : leg'[m] = leg[m]
      /\ leg' = [m \in Legs |-> leg'[m]]
  BY StepOf DEF TempInv
<1>2. \A m \in Writers' : m \in Writers /\ leg'[m] = leg[m]
  BY <1>1 DEF Writers, Has
<1>3. Shape'
  BY <1>1 DEF TempInv, Shape, Has
<1>4. Named'
  BY <1>2 DEF TempInv, Named
<1>5. Exclusive'
  BY <1>2 DEF TempInv, Exclusive
<1>6. PublishedWhole'
  BY <1>1 DEF TempInv, PublishedWhole, Has
<1>7. NoLitter'
  <2>1. \A m \in Legs \ {l} : Writing(m)' = Writing(m)
    BY <1>1 DEF Writing, Has
  <2> QED BY <2>1 DEF TempInv, NoLitter
<1> QED BY <1>3, <1>4, <1>5, <1>6, <1>7 DEF TempInv

LEMMA InitTemps == ASSUME CacheInit PROVE TempInv
<1>1. \A l \in Legs : leg[l].pc = "idle"
  BY DEF CacheInit, Idle
<1>2. Shape
  BY <1>1 DEF CacheInit, Shape, Has
<1>3. DOMAIN temps = {}
  BY DEF CacheInit
<1>4. \A k \in DOMAIN files : files[k].body # "torn"
  BY DEF CacheInit, Corrupt, Torn
<1> QED BY <1>1, <1>2, <1>3, <1>4
        DEF TempInv, Named, Exclusive, PublishedWhole, NoLitter, Writers, Has

(* A new writer takes a number its process has not given away: no writer   *)
(* of the process has it, and those of other processes differ in the id.   *)
LEMMA CreateTemps == ASSUME TempInv, NEW l \in Legs, Create(l) PROVE TempInv'
<1> DEFINE name == TempName(leg[l].key, l)
<1>1. PICK size \in Sizes[leg[l].key] :
        LET file == [body |-> "entry", at |-> clock, len |-> size]
        IN /\ temps' = With(temps, name, [file |-> Torn, mtime |-> clock])
           /\ Step(l, [pc |-> "write", temp |-> name, file |-> file])
           /\ orphans' = orphans \ {name}
  BY DEF Create
<1>2. /\ leg'[l].pc = "write" /\ leg'[l].temp = name /\ leg'[l].file.body = "entry"
      /\ \A m \in Legs \ {l} : leg'[m] = leg[m]
      /\ leg' = [m \in Legs |-> leg'[m]]
  BY <1>1, StepOf DEF TempInv
<1>3. /\ UNCHANGED <<home, pid, files>>
      /\ counter' = [counter EXCEPT ![home[l]] = @ + 1]
      /\ leg[l].pc = "live" /\ leg[l].key \in Keys
  BY DEF Create, TempInv, Shape, Has
<1>4. /\ home[l] \in Procs /\ counter[home[l]] \in Nat
      /\ name = <<leg[l].key, pid[home[l]], counter[home[l]]>>
      /\ \A p \in Procs : counter[p] <= counter'[p] /\ counter'[p] \in Nat
      /\ counter[home[l]] < counter'[home[l]]
  BY <1>3 DEF TempInv, Shape, TempName
<1>5. /\ DOMAIN temps' = DOMAIN temps \cup {name}
      /\ \A t \in DOMAIN temps \ {name} : temps'[t] = temps[t]
  BY <1>1 DEF With
<1>6. \A m \in Writers' \ {l} : m \in Writers /\ m \in Legs /\ leg'[m] = leg[m]
  BY <1>2 DEF Writers, Has
<1>7. \A m \in Writers' \ {l} : leg[m].temp # name
  <2> SUFFICES ASSUME NEW m \in Writers' \ {l} PROVE leg[m].temp # name
    OBVIOUS
  <2>1. PICK k \in Keys, n \in Nat :
          n < counter[home[m]] /\ leg[m].temp = <<k, pid[home[m]], n>>
    BY <1>6 DEF TempInv, Named
  <2>2. home[m] \in Procs
    BY <1>6 DEF TempInv, Shape
  <2>3. CASE home[m] = home[l]
    BY <2>1, <2>3, <1>4
  <2>4. CASE home[m] # home[l]
    <3>1. pid[home[m]] # pid[home[l]]
      BY <2>2, <2>4, <1>4 DEF TempInv, Shape, IsInjective
    <3> QED BY <3>1, <2>1, <1>4
  <2> QED BY <2>3, <2>4
<1>8. Shape'
  BY <1>2, <1>3, <1>4 DEF TempInv, Shape, Has
<1>9. Named'
  <2> SUFFICES ASSUME NEW m \in Writers'
               PROVE  /\ leg'[m].file.body = "entry"
                      /\ \E k \in Keys, n \in Nat :
                           n < counter'[home[m]] /\ leg'[m].temp = <<k, pid[home[m]], n>>
    BY <1>3 DEF Named
  <2>1. CASE m = l
    BY <2>1, <1>2, <1>3, <1>4
  <2>2. CASE m # l
    <3>1. home[m] \in Procs /\ counter[home[m]] \in Nat
      BY <2>2, <1>6 DEF TempInv, Shape
    <3>2. PICK k \in Keys, n \in Nat :
            n < counter[home[m]] /\ leg[m].temp = <<k, pid[home[m]], n>>
      BY <2>2, <1>6 DEF TempInv, Named
    <3>3. n < counter'[home[m]]
      BY <3>1, <3>2, <1>4
    <3> QED BY <2>2, <3>2, <3>3, <1>6 DEF TempInv, Named
  <2> QED BY <2>1, <2>2
<1>10. Exclusive'
  BY <1>2, <1>6, <1>7 DEF TempInv, Exclusive
<1>11. PublishedWhole'
  <2> SUFFICES ASSUME NEW m \in Legs, leg'[m].pc = "rename", leg'[m].temp \in DOMAIN temps'
               PROVE  temps'[leg'[m].temp].file = leg'[m].file
    BY <1>3 DEF TempInv, PublishedWhole, Has
  <2>1. m # l /\ leg'[m] = leg[m]
    BY <1>2
  <2>2. m \in Writers' \ {l}
    BY <2>1 DEF Writers, Has
  <2> QED BY <2>1, <2>2, <1>5, <1>7 DEF TempInv, PublishedWhole, Has
<1>12. NoLitter'
  <2>1. Writing(l)' = {name} /\ \A m \in Legs \ {l} : Writing(m)' = Writing(m)
    BY <1>2 DEF Writing, Has
  <2>2. Writing(l) = {}
    BY <1>3 DEF Writing, Has
  <2> QED BY <2>1, <2>2, <1>1, <1>5 DEF TempInv, NoLitter
<1> QED BY <1>8, <1>9, <1>10, <1>11, <1>12 DEF TempInv

(* Only the temp file of the leg itself changes, into what it meant to write. *)
LEMMA FillTemps == ASSUME TempInv, NEW l \in Legs, Fill(l) PROVE TempInv'
<1>1. /\ leg'[l] = [leg[l] EXCEPT !.pc = "rename"]
      /\ \A m \in Legs \ {l} : leg'[m] = leg[m]
      /\ leg' = [m \in Legs |-> leg'[m]]
  BY StepOf DEF Fill, TempInv
<1>2. /\ UNCHANGED <<home, pid, counter, files, orphans>>
      /\ leg[l].pc = "write"
      /\ DOMAIN temps' = DOMAIN temps
      /\ \A t \in DOMAIN temps :
           temps'[t] = IF t = leg[l].temp THEN [file |-> leg[l].file, mtime |-> clock] ELSE temps[t]
  BY DEF Fill, Has, procs, history
<1>3. leg'[l].pc = "rename" /\ leg'[l].temp = leg[l].temp /\ leg'[l].file = leg[l].file
  BY <1>1, <1>2
<1>4. /\ l \in Writers
      /\ \A m \in Writers' : /\ m \in Writers /\ m \in Legs
                             /\ leg'[m].temp = leg[m].temp /\ leg'[m].file = leg[m].file
  BY <1>1, <1>2, <1>3 DEF Writers, Has
<1>5. Shape'
  BY <1>1, <1>2, <1>3 DEF TempInv, Shape, Has
<1>6. Named'
  BY <1>2, <1>4 DEF TempInv, Named
<1>7. Exclusive'
  BY <1>4 DEF TempInv, Exclusive
<1>8. PublishedWhole'
  <2> SUFFICES ASSUME NEW m \in Legs, leg'[m].pc = "rename", leg'[m].temp \in DOMAIN temps'
               PROVE  temps'[leg'[m].temp].file = leg'[m].file
    BY <1>2 DEF TempInv, PublishedWhole, Has
  <2>1. CASE m = l
    BY <2>1, <1>2, <1>3
  <2>2. CASE m # l
    <3>1. leg'[m] = leg[m] /\ m \in Writers
      BY <2>2, <1>1 DEF Writers, Has
    <3>2. leg[m].temp # leg[l].temp
      BY <2>2, <3>1, <1>4 DEF TempInv, Exclusive
    <3> QED BY <3>1, <3>2, <1>2 DEF TempInv, PublishedWhole, Has
  <2> QED BY <2>1, <2>2
<1>9. NoLitter'
  <2>1. \A m \in Legs : Writing(m)' = Writing(m)
    BY <1>1, <1>2, <1>3 DEF Writing, Has
  <2> QED BY <2>1, <1>2 DEF TempInv, NoLitter
<1> QED BY <1>5, <1>6, <1>7, <1>8, <1>9 DEF TempInv

(* The dead process has no writers left, so the new one may count from 0;  *)
(* its id, new or used before, is no other process's.                      *)
LEMMA KillTemps == ASSUME TempInv, NEW p \in Procs, Kill(p) PROVE TempInv'
<1> DEFINE dead == {l \in Legs : home[l] = p}
<1>1. /\ leg' = [l \in Legs |-> IF l \in dead THEN Idle ELSE leg[l]]
      /\ orphans' = orphans \cup UNION {Writing(l) : l \in dead}
      /\ counter' = [counter EXCEPT ![p] = 0]
      /\ UNCHANGED <<home, files, temps>>
  BY DEF Kill
<1>2. PICK free \in Pids \ {pid[q] : q \in Procs \ {p}} : pid' = [pid EXCEPT ![p] = free]
  BY DEF Kill
<1>3. \A l \in Legs : \/ leg'[l] = leg[l] /\ home[l] # p /\ home[l] \in Procs
                      \/ leg'[l] = Idle /\ home[l] = p
  BY <1>1 DEF TempInv, Shape
<1>4. \A l \in Writers' : l \in Writers /\ leg'[l] = leg[l] /\ home[l] \in Procs \ {p}
  BY <1>3 DEF Writers, Has, Idle
<1>5. \A q \in Procs \ {p} : counter'[q] = counter[q] /\ pid'[q] = pid[q]
  BY <1>1, <1>2 DEF TempInv, Shape
<1>6. Shape'
  <2>1. pid' \in [Procs -> Pids] /\ counter' \in [Procs -> Nat]
    BY <1>1, <1>2 DEF TempInv, Shape
  <2>2. IsInjective(pid)'
    BY <1>2, <1>5 DEF TempInv, Shape, IsInjective
  <2>3. \A l \in Legs : leg'[l].pc = "live" => leg'[l].key \in Keys
    BY <1>3 DEF TempInv, Shape, Has, Idle
  <2> QED BY <1>1, <2>1, <2>2, <2>3 DEF TempInv, Shape, Has
<1>7. Named'
  BY <1>1, <1>4, <1>5 DEF TempInv, Named
<1>8. Exclusive'
  BY <1>4 DEF TempInv, Exclusive
<1>9. PublishedWhole'
  BY <1>1, <1>3 DEF TempInv, PublishedWhole, Has, Idle
<1>10. NoLitter'
  <2> SUFFICES ASSUME NEW t \in DOMAIN temps
               PROVE  t \in orphans' \cup UNION {Writing(l)' : l \in Legs}
    BY <1>1 DEF NoLitter
  <2>1. CASE t \in orphans
    BY <2>1, <1>1
  <2>2. CASE \E l \in Legs : t \in Writing(l)
    <3>1. PICK l \in Legs : t \in Writing(l)
      BY <2>2
    <3>2. CASE l \in dead
      BY <3>1, <3>2, <1>1
    <3>3. CASE l \notin dead
      <4>1. Writing(l)' = Writing(l)
        BY <3>3, <1>3 DEF Writing, Has
      <4> QED BY <3>1, <4>1
    <3> QED BY <3>2, <3>3
  <2> QED BY <2>1, <2>2 DEF TempInv, NoLitter
<1> QED BY <1>6, <1>7, <1>8, <1>9, <1>10 DEF TempInv

(* The clock, and steps that change nothing. *)
LEMMA SameTemps ==
  ASSUME TempInv, UNCHANGED <<home, pid, counter, files, temps, leg, orphans>> PROVE TempInv'
BY DEF TempInv, Shape, Named, Exclusive, PublishedWhole, NoLitter, Writers, Writing, Has

-----------------------------------------------------------------------------
(* The other steps of a leg are quiet. *)
LEMMA LegTemps ==
  ASSUME TempInv, NEW l \in Legs,
         \/ Lookup(l) \/ Return(l) \/ Rename(l) \/ WriteFails(l) \/ Measure(l)
         \/ NotMeasured(l) \/ Date(l) \/ Evict(l) \/ Evicted(l)
  PROVE  TempInv'
<1>1. /\ UNCHANGED <<home, pid, counter, orphans>>
      /\ \A k \in DOMAIN files : files[k].body # "torn"
      /\ Idle.pc = "idle"
  BY DEF Lookup, Return, Rename, WriteFails, Measure, NotMeasured, Date, Evict, Evicted,
         procs, history, TempInv, PublishedWhole, Idle
<1>2. CASE Lookup(l)
  <2>1. PICK k \in Keys : \/ Step(l, [pc |-> "hit", key |-> k])
                         \/ Step(l, [pc |-> "live", key |-> k])
    BY <1>2 DEF Lookup
  <2>2. UNCHANGED <<files, temps>> /\ Writing(l) = {}
    BY <1>2 DEF Lookup, Writing, Has
  <2> QED BY <1>1, <2>1, <2>2, Quiet
<1>3. CASE Return(l) \/ NotMeasured(l)
  <2>1. Step(l, Idle) /\ UNCHANGED <<files, temps>> /\ Writing(l) = {}
    BY <1>3 DEF Return, NotMeasured, Writing, Has
  <2> QED BY <1>1, <2>1, Quiet
<1>4. CASE Rename(l)
  <2> DEFINE temp == leg[l].temp
  <2>1. /\ temp \in DOMAIN temps /\ temps[temp].file = leg[l].file
        /\ leg[l].file.body = "entry" /\ Writing(l) = {temp}
    BY <1>4 DEF Rename, TempInv, PublishedWhole, Named, Writers, Writing, Has
  <2>2. \A k \in DOMAIN files' : files'[k].body # "torn"
    BY <1>1, <1>4, <2>1 DEF Rename, With
  <2>3. DOMAIN temps' = DOMAIN temps \ {temp} /\ \A t \in DOMAIN temps' : temps'[t] = temps[t]
    BY <1>4 DEF Rename, Without, Restrict
  <2>4. Step(l, [pc |-> "measure"])
    BY <1>4 DEF Rename
  <2> QED BY <1>1, <2>1, <2>2, <2>3, <2>4, Quiet
<1>5. CASE WriteFails(l)
  <2>1. /\ Step(l, Idle) /\ UNCHANGED files /\ Writing(l) = {leg[l].temp}
        /\ DOMAIN temps' = DOMAIN temps \ {leg[l].temp}
        /\ \A t \in DOMAIN temps' : temps'[t] = temps[t]
    BY <1>5 DEF WriteFails, Without, Restrict, Writing, Has
  <2> QED BY <1>1, <2>1, Quiet
<1>6. CASE Measure(l)
  <2>1. PICK next : Step(l, next) /\ next.pc \in {"idle", "date"}
    <3>1. CASE Bytes(files) <= Cap
      BY <1>1, <1>6, <3>1 DEF Measure, Done
    <3>2. CASE ~(Bytes(files) <= Cap)
      BY <1>6, <3>2 DEF Measure
    <3> QED BY <3>1, <3>2
  <2>2. Writing(l) = {} /\ UNCHANGED files
    BY <1>6 DEF Measure, Writing, Has
  <2>3. DOMAIN temps' \subseteq DOMAIN temps /\ \A t \in DOMAIN temps' : temps'[t] = temps[t]
    BY <1>6 DEF Measure, Without, Restrict
  <2> QED BY <1>1, <2>1, <2>2, <2>3, Quiet
<1>7. CASE Date(l)
  <2>1. PICK next : Step(l, next) /\ next.pc = "evict"
    BY <1>7 DEF Date, Evicting
  <2>2. Writing(l) = {} /\ UNCHANGED <<files, temps>>
    BY <1>7 DEF Date, Writing, Has
  <2> QED BY <1>1, <2>1, <2>2, Quiet
<1>8. CASE Evict(l)
  <2>1. PICK next : Step(l, next) /\ next.pc = "evict"
    BY <1>8 DEF Evict, Evicting
  <2>2. Writing(l) = {} /\ UNCHANGED temps
    BY <1>8 DEF Evict, Writing, Has
  <2>3. \A k \in DOMAIN files' : files'[k].body # "torn"
    BY <1>1, <1>8 DEF Evict, Without, Restrict
  <2> QED BY <1>1, <2>1, <2>2, <2>3, Quiet
<1>9. CASE Evicted(l)
  <2>1. Step(l, Idle) /\ UNCHANGED <<files, temps>> /\ Writing(l) = {}
    BY <1>9 DEF Evicted, Done, Writing, Has
  <2> QED BY <1>1, <2>1, Quiet
<1> QED BY <1>2, <1>3, <1>4, <1>5, <1>6, <1>7, <1>8, <1>9

LEMMA StepTemps == TempInv /\ [CacheNext]_cache => TempInv'
<1> SUFFICES ASSUME TempInv, [CacheNext]_cache PROVE TempInv'
  OBVIOUS
<1>1. CASE \E l \in Legs : Create(l)
  BY <1>1, CreateTemps
<1>2. CASE \E l \in Legs : Fill(l)
  BY <1>2, FillTemps
<1>3. CASE \E l \in Legs :
        \/ Lookup(l) \/ Return(l) \/ Rename(l) \/ WriteFails(l) \/ Measure(l)
        \/ NotMeasured(l) \/ Date(l) \/ Evict(l) \/ Evicted(l)
  BY <1>3, LegTemps
<1>4. CASE \E p \in Procs : Kill(p)
  BY <1>4, KillTemps
<1>5. CASE Clock \/ UNCHANGED cache
  BY <1>5, SameTemps DEF Clock, cache, procs, history
<1> QED BY <1>1, <1>2, <1>3, <1>4, <1>5 DEF CacheNext

(* No entry is ever torn, and a leg publishes what it wrote itself, for    *)
(* any number of processes that store, die and use each other's ids again  *)
(* (cache_dir.rs, write_atomic).                                           *)
THEOREM EntriesPublishedWhole == CacheSpec => []PublishedWhole
<1>1. TempInv => PublishedWhole
  BY DEF TempInv
<1> QED BY <1>1, InitTemps, StepTemps, PTL DEF CacheSpec

(* A temp file outlives its write only if its process was killed.          *)
(* (cache_dir.rs, write_atomic; cache.rs, enforce_cap)                     *)
THEOREM OnlyKillsLitter == CacheSpec => []NoLitter
<1>1. TempInv => NoLitter
  BY DEF TempInv
<1> QED BY <1>1, InitTemps, StepTemps, PTL DEF CacheSpec

-----------------------------------------------------------------------------
(* What the directory holds, against what a pass over it has added up.     *)
Lengths(dir) == DOMAIN dir \subseteq Keys /\ \A k \in DOMAIN dir : dir[k].len \in Nat

Pass(l) == Has(l, {"date", "evict"})

Sized ==
  /\ Lengths(files)
  /\ \A l \in Writers : leg[l].file.len \in Nat

(* A pass never counts less than the entries it has still to visit. *)
Counted ==
  \A l \in Legs : Pass(l) =>
    /\ Lengths(leg[l].seen)
    /\ leg[l].total \in Int /\ Bytes(leg[l].seen) <= leg[l].total

(* A covering pass has still to visit every entry there is. *)
Covers ==
  \A l \in covering :
    /\ l \in Legs /\ Pass(l)
    /\ \A k \in DOMAIN files : k \in DOMAIN leg[l].seen /\ leg[l].seen[k].len = files[k].len

(* A pass nothing has crossed knows the directory as it is. *)
Exact ==
  \A l \in alone :
    /\ l \in Legs /\ Pass(l)
    /\ DOMAIN leg[l].seen = DOMAIN files
    /\ \A k \in DOMAIN files : leg[l].seen[k].len = files[k].len
    /\ leg[l].total = Bytes(files)
    /\ Has(l, {"evict"}) => \A k \in DOMAIN files : leg[l].seen[k].at = Recorded(k)

CapInv == Sized /\ Counted /\ Covers /\ Exact /\ CapKept
-----------------------------------------------------------------------------
(* The bytes of a directory: a finite number of them, which is less by an  *)
(* entry's length without the entry, and no more when there are fewer.     *)
LEMMA BodyFinite ==
  ASSUME NEW dir, NEW k, dir[k].len \in Nat
  PROVE  IsFiniteSet(Body(dir, k)) /\ Cardinality(Body(dir, k)) = dir[k].len
<1> PICK n \in Nat : n = dir[k].len
  OBVIOUS
<1>1. IsFiniteSet({k}) /\ Cardinality({k}) = 1
  BY FS_Singleton
<1>2. 1 \in Int /\ n \in Int
  OBVIOUS
<1>3. IsFiniteSet(1..n) /\ Cardinality(1..n) = IF 1 > n THEN 0 ELSE n - 1 + 1
  BY <1>2, FS_Interval, Zenon
<1>4. Cardinality(1..n) = n
  BY <1>3
<1>5. PICK units : units = 1..n
  OBVIOUS
<1>6. IsFiniteSet(units) /\ Cardinality(units) = n
  BY <1>3, <1>4, <1>5
<1>7. IsFiniteSet({k} \X units) /\ Cardinality({k} \X units) = 1 * n
  BY <1>1, <1>6, FS_Product
<1>8. Body(dir, k) = {k} \X units
  BY <1>5 DEF Body
<1> QED BY <1>7, <1>8

LEMMA BytesFinite ==
  ASSUME NEW dir, Lengths(dir)
  PROVE  IsFiniteSet(UNION {Body(dir, k) : k \in DOMAIN dir}) /\ Bytes(dir) \in Nat
<1> DEFINE bodies == {Body(dir, k) : k \in DOMAIN dir}
           body == [k \in DOMAIN dir |-> Body(dir, k)]
<1>1. IsFiniteSet(DOMAIN dir)
  BY CacheAssumption, FS_Subset DEF Lengths
<1>2. body \in Surjection(DOMAIN dir, bodies)
  BY DEF Surjection
<1>3. IsFiniteSet(bodies)
  BY <1>1, <1>2, FS_Surjection
<1>4. \A B \in bodies : IsFiniteSet(B)
  BY BodyFinite DEF Lengths
<1>5. IsFiniteSet(UNION bodies)
  BY <1>3, <1>4, FS_UNION
<1> QED BY <1>5, FS_CardinalityType DEF Bytes

LEMMA BytesWithout ==
  ASSUME NEW dir, Lengths(dir), NEW k \in DOMAIN dir
  PROVE  /\ Lengths(Without(dir, {k}))
         /\ Bytes(Without(dir, {k})) = Bytes(dir) - dir[k].len
<1> DEFINE all == UNION {Body(dir, j) : j \in DOMAIN dir}
           rest == Without(dir, {k})
           left == UNION {Body(rest, j) : j \in DOMAIN rest}
<1>1. DOMAIN rest = DOMAIN dir \ {k} /\ \A j \in DOMAIN rest : rest[j] = dir[j]
  BY DEF Without, Restrict
<1>2. Lengths(rest)
  BY <1>1 DEF Lengths
<1>3. \A j \in DOMAIN rest : Body(rest, j) = Body(dir, j)
  BY <1>1 DEF Body
<1>4. left = all \ Body(dir, k)
  <2>1. \A j \in DOMAIN dir : \A b \in Body(dir, j) : b[1] = j
    BY DEF Body
  <2>2. ASSUME NEW b \in left PROVE b \in all \ Body(dir, k)
    <3>1. PICK j \in DOMAIN rest : b \in Body(rest, j)
      BY <2>2
    <3>2. b \in Body(dir, j) /\ j \in DOMAIN dir /\ j # k
      BY <3>1, <1>1, <1>3
    <3> QED BY <3>2, <2>1
  <2>3. ASSUME NEW b \in all \ Body(dir, k) PROVE b \in left
    <3>1. PICK j \in DOMAIN dir : b \in Body(dir, j)
      BY <2>3
    <3>2. j \in DOMAIN rest
      BY <3>1, <1>1
    <3> QED BY <3>1, <3>2, <1>3
  <2> QED BY <2>2, <2>3
<1>5. all \cap Body(dir, k) = Body(dir, k)
  OBVIOUS
<1>6. IsFiniteSet(all)
  BY BytesFinite
<1>7. Cardinality(Body(dir, k)) = dir[k].len
  BY BodyFinite DEF Lengths
<1>8. Cardinality(all \ Body(dir, k)) = Cardinality(all) - Cardinality(all \cap Body(dir, k))
  BY <1>6, FS_Difference
<1>9. Bytes(rest) = Cardinality(left) /\ Bytes(dir) = Cardinality(all)
  BY DEF Bytes
<1> QED BY <1>2, <1>4, <1>5, <1>7, <1>8, <1>9

LEMMA FewerBytes ==
  ASSUME NEW f, NEW g, Lengths(g), DOMAIN f \subseteq DOMAIN g,
         \A k \in DOMAIN f : f[k].len = g[k].len
  PROVE  Lengths(f) /\ Bytes(f) <= Bytes(g)
<1> DEFINE fewer == UNION {Body(f, k) : k \in DOMAIN f}
           more == UNION {Body(g, k) : k \in DOMAIN g}
<1>1. \A k \in DOMAIN f : Body(f, k) = Body(g, k)
  BY DEF Body
<1>2. fewer \in SUBSET more
  BY <1>1
<1>3. IsFiniteSet(more)
  BY BytesFinite
<1>4. Cardinality(fewer) <= Cardinality(more)
  BY <1>2, <1>3, FS_Subset
<1> QED BY <1>4 DEF Bytes, Lengths

LEMMA SameBytes ==
  ASSUME NEW f, NEW g, Lengths(g), DOMAIN f = DOMAIN g,
         \A k \in DOMAIN f : f[k].len = g[k].len
  PROVE  Lengths(f) /\ Bytes(f) = Bytes(g)
<1>1. Lengths(f) /\ Bytes(f) <= Bytes(g)
  BY FewerBytes
<1>2. Bytes(g) <= Bytes(f)
  BY <1>1, FewerBytes
<1>3. Bytes(f) \in Nat /\ Bytes(g) \in Nat
  BY <1>1, BytesFinite
<1> QED BY <1>1, <1>2, <1>3
-----------------------------------------------------------------------------
LEMMA InitCap == ASSUME CacheInit PROVE CapInv
<1>1. /\ \A l \in Legs : leg[l].pc = "idle"
      /\ covering = {} /\ alone = {} /\ settled = FALSE
  BY DEF CacheInit, Idle
<1>2. PICK K \in SUBSET Keys :
        files \in {f \in [K -> Content] : \A k \in K :
                     f[k] \in {Corrupt} \cup [body : {"entry"}, at : {0}, len : Sizes[k]]}
  BY DEF CacheInit
<1>3. \A k \in Keys : Sizes[k] \subseteq Nat
  BY CacheAssumption
<1>4. \A k \in K : files[k].len \in Nat
  BY <1>2, <1>3 DEF Corrupt
<1>5. Lengths(files)
  BY <1>2, <1>4 DEF Lengths
<1> QED BY <1>1, <1>5 DEF CapInv, Sized, Counted, Covers, Exact, CapKept, Writers, Pass, Has

(* A leg that is in no pass afterwards, and leaves the entries as they are. *)
LEMMA Aside ==
  ASSUME CapInv, Shape, NEW l \in Legs, NEW next, Step(l, next),
         next.pc \notin {"date", "evict"},
         next.pc \in {"write", "rename"} => next.file.len \in Nat,
         UNCHANGED files,
         covering' \subseteq covering \ {l}, alone' \subseteq alone \ {l},
         settled' => settled \/ Bytes(files) <= Cap
  PROVE  CapInv'
<1>1. leg'[l] = next /\ \A m \in Legs \ {l} : leg'[m] = leg[m]
  BY StepOf
<1>2. Sized'
  BY <1>1 DEF CapInv, Sized, Writers, Has
<1>3. Counted'
  BY <1>1 DEF CapInv, Counted, Pass, Has
<1>4. Covers'
  BY <1>1 DEF CapInv, Covers, Pass, Has
<1>5. Exact'
  BY <1>1 DEF CapInv, Exact, Pass, Has, Recorded
<1>6. CapKept'
  BY DEF CapInv, CapKept
<1> QED BY <1>2, <1>3, <1>4, <1>5, <1>6 DEF CapInv

(* No pass is left that claims anything, and the cap is not claimed kept. *)
LEMMA RenameCap ==
  ASSUME CapInv, TempInv, NEW l \in Legs, Rename(l) PROVE CapInv'
<1> DEFINE temp == leg[l].temp
<1>1. /\ temp \in DOMAIN temps /\ temps[temp].file = leg[l].file
      /\ leg[l].file.len \in Nat /\ temp[1] \in Keys
  <2>1. l \in Writers
    BY DEF Rename, Writers, Has
  <2>2. PICK k \in Keys, n \in Nat : temp = <<k, pid[home[l]], n>>
    BY <2>1 DEF TempInv, Named
  <2> QED BY <2>1, <2>2 DEF Rename, TempInv, PublishedWhole, CapInv, Sized, Has
<1>2. leg'[l].pc = "measure" /\ \A m \in Legs \ {l} : leg'[m] = leg[m]
  BY StepOf DEF Rename, TempInv
<1>3. covering' = {} /\ alone' = {} /\ settled' = FALSE
  BY DEF Rename
<1>4. Lengths(files)'
  BY <1>1 DEF Rename, With, Target, CapInv, Sized, Lengths
<1>5. Sized'
  BY <1>2, <1>4 DEF CapInv, Sized, Writers, Has
<1>6. Counted'
  BY <1>2 DEF CapInv, Counted, Pass, Has
<1> QED BY <1>3, <1>5, <1>6 DEF CapInv, Covers, Exact, CapKept

(* A pass begins with all there is. *)
LEMMA MeasureCap ==
  ASSUME CapInv, Shape, NEW l \in Legs, Measure(l) PROVE CapInv'
<1>1. UNCHANGED files /\ ~Pass(l) /\ l \notin covering /\ l \notin alone
  BY DEF Measure, Pass, Has, CapInv, Covers, Exact
<1>2. CASE Bytes(files) <= Cap
  <2>1. /\ Step(l, Idle)
        /\ covering' = covering \ {l} /\ alone' = alone \ {l}
    BY <1>2 DEF Measure, Done
  <2>2. Idle.pc = "idle"
    BY DEF Idle
  <2> QED BY <1>1, <1>2, <2>1, <2>2, Aside
<1>3. CASE ~(Bytes(files) <= Cap)
  <2> DEFINE seen == [k \in DOMAIN files |-> [len |-> files[k].len, at |-> 0]]
  <2>1. /\ Step(l, [pc |-> "date", total |-> Bytes(files), seen |-> seen])
        /\ covering' = covering \cup {l} /\ alone' = alone \cup {l}
        /\ UNCHANGED settled
    BY <1>3 DEF Measure
  <2>2. /\ leg'[l] = [pc |-> "date", total |-> Bytes(files), seen |-> seen]
        /\ \A m \in Legs \ {l} : leg'[m] = leg[m]
    BY <2>1, StepOf
  <2>3. DOMAIN seen = DOMAIN files /\ \A k \in DOMAIN files : seen[k].len = files[k].len
    OBVIOUS
  <2>4. Lengths(files)
    BY DEF CapInv, Sized
  <2>5. Lengths(seen) /\ Bytes(seen) = Bytes(files) /\ Bytes(files) \in Nat
    BY <2>3, <2>4, SameBytes, BytesFinite
  <2>6. leg'[l].pc = "date" /\ leg'[l].total = Bytes(files) /\ leg'[l].seen = seen
    BY <2>2
  <2> HIDE DEF seen
  <2>7. Sized'
    BY <1>1, <2>2, <2>6 DEF CapInv, Sized, Writers, Has
  <2>8. Counted'
    BY <2>2, <2>5, <2>6 DEF CapInv, Counted, Pass, Has
  <2>9. Covers'
    BY <1>1, <2>1, <2>2, <2>3, <2>6 DEF CapInv, Covers, Pass, Has
  <2>10. Exact'
    BY <1>1, <2>1, <2>2, <2>3, <2>6 DEF CapInv, Exact, Pass, Has, Recorded
  <2>11. CapKept'
    BY <1>1, <2>1 DEF CapInv, CapKept
  <2> QED BY <2>7, <2>8, <2>9, <2>10, <2>11 DEF CapInv
<1> QED BY <1>2, <1>3

(* The times read are the times of the entries the pass has seen. *)
LEMMA DateCap ==
  ASSUME CapInv, Shape, NEW l \in Legs, Date(l) PROVE CapInv'
<1> DEFINE old == leg[l].seen
           seen == [k \in DOMAIN old |-> [len |-> old[k].len, at |-> Recorded(k)]]
<1>1. /\ Pass(l) /\ UNCHANGED <<files, covering, alone, settled>>
      /\ Step(l, Evicting(seen, leg[l].total))
  BY DEF Date, Pass, Has, history
<1>2. leg'[l] = Evicting(seen, leg[l].total) /\ \A m \in Legs \ {l} : leg'[m] = leg[m]
  BY <1>1, StepOf
<1>3. leg'[l].pc = "evict" /\ leg'[l].total = leg[l].total /\ leg'[l].seen = seen
  BY <1>2 DEF Evicting
<1>4. /\ DOMAIN seen = DOMAIN old
      /\ \A k \in DOMAIN old : seen[k].len = old[k].len /\ seen[k].at = Recorded(k)
  OBVIOUS
<1>5. Lengths(old) /\ leg[l].total \in Int /\ Bytes(old) <= leg[l].total
  BY <1>1 DEF CapInv, Counted
<1>6. Lengths(seen) /\ Bytes(seen) = Bytes(old)
  BY <1>4, <1>5, SameBytes
<1> HIDE DEF seen
<1>7. Sized'
  BY <1>1, <1>2, <1>3 DEF CapInv, Sized, Writers, Has
<1>8. Counted'
  BY <1>2, <1>3, <1>5, <1>6 DEF CapInv, Counted, Pass, Has
<1>9. Covers'
  BY <1>1, <1>2, <1>3, <1>4 DEF CapInv, Covers, Pass, Has
<1>10. Exact'
  BY <1>1, <1>2, <1>3, <1>4 DEF CapInv, Exact, Pass, Has, Recorded
<1>11. CapKept'
  BY <1>1 DEF CapInv, CapKept
<1> QED BY <1>7, <1>8, <1>9, <1>10, <1>11 DEF CapInv

(* An entry leaves the list of the pass.  If it leaves the directory too,  *)
(* what the pass counts falls by its length; if it was refused the pass    *)
(* covers no more; if it was gone there is nothing to cover.               *)
LEMMA EvictCap ==
  ASSUME CapInv, Shape, NEW l \in Legs, Evict(l) PROVE CapInv'
<1> DEFINE seen == leg[l].seen
<1>1. Pass(l) /\ leg[l].pc = "evict" /\ UNCHANGED settled
  BY DEF Evict, Pass, Has
<1>2. Lengths(seen) /\ leg[l].total \in Int /\ Bytes(seen) <= leg[l].total
  BY <1>1 DEF CapInv, Counted
<1>3. PICK k \in Oldest(seen) :
        \/ /\ k \in DOMAIN files
           /\ files' = Without(files, {k})
           /\ Step(l, Evicting(Without(seen, {k}), leg[l].total - seen[k].len))
           /\ alone' = alone \cap {l}
           /\ UNCHANGED covering
        \/ /\ Step(l, Evicting(Without(seen, {k}), leg[l].total))
           /\ covering' = IF k \in DOMAIN files THEN covering \ {l} ELSE covering
           /\ alone' = alone \ {l}
           /\ UNCHANGED files
  BY DEF Evict
<1> DEFINE rest == Without(seen, {k})
<1>4. k \in DOMAIN seen /\ seen[k].len \in Nat
  BY <1>2, <1>3 DEF Oldest, Lengths
<1>5. /\ Lengths(rest) /\ Bytes(rest) = Bytes(seen) - seen[k].len
      /\ Bytes(seen) \in Nat
  BY <1>2, <1>4, BytesWithout, BytesFinite
<1>6. DOMAIN rest = DOMAIN seen \ {k} /\ \A j \in DOMAIN rest : rest[j] = seen[j]
  BY DEF Without, Restrict
<1>7. Lengths(files) /\ Bytes(files) \in Nat
  BY BytesFinite DEF CapInv, Sized
<1> HIDE DEF rest
<1>8. CASE /\ k \in DOMAIN files
           /\ files' = Without(files, {k})
           /\ Step(l, Evicting(rest, leg[l].total - seen[k].len))
           /\ alone' = alone \cap {l}
           /\ UNCHANGED covering
  <2>1. /\ leg'[l] = Evicting(rest, leg[l].total - seen[k].len)
        /\ \A m \in Legs \ {l} : leg'[m] = leg[m]
    BY <1>8, StepOf
  <2>2. /\ leg'[l].pc = "evict" /\ leg'[l].seen = rest
        /\ leg'[l].total = leg[l].total - seen[k].len
    BY <2>1 DEF Evicting
  <2>3. /\ DOMAIN files' = DOMAIN files \ {k}
        /\ \A j \in DOMAIN files' : files'[j] = files[j]
    BY <1>8 DEF Without, Restrict
  <2>4. Lengths(files') /\ Bytes(files') = Bytes(files) - files[k].len
    BY <1>7, <1>8, BytesWithout
  <2>5. files[k].len \in Nat
    BY <1>7, <1>8 DEF Lengths
  <2>6. Sized'
    BY <2>1, <2>2, <2>4 DEF CapInv, Sized, Writers, Has
  <2>7. Counted'
    <3>1. leg'[l].total \in Int /\ Bytes(rest) <= leg'[l].total
      BY <1>2, <1>4, <1>5, <2>2
    <3> QED BY <1>5, <2>1, <2>2, <3>1 DEF CapInv, Counted, Pass, Has
  <2>8. Covers'
    <3> SUFFICES ASSUME NEW m \in covering, NEW j \in DOMAIN files'
                 PROVE  j \in DOMAIN leg'[m].seen /\ leg'[m].seen[j].len = files'[j].len
      <4>1. \A m \in covering : m \in Legs /\ leg'[m].pc \in {"date", "evict"}
        BY <2>1, <2>2 DEF CapInv, Covers, Pass, Has
      <4> QED BY <1>8, <4>1 DEF Covers, Pass, Has
    <3>1. j \in DOMAIN files /\ j # k /\ files'[j] = files[j]
      BY <2>3
    <3>2. j \in DOMAIN leg[m].seen /\ leg[m].seen[j].len = files[j].len /\ m \in Legs
      BY <3>1 DEF CapInv, Covers
    <3>3. CASE m = l
      BY <1>6, <2>2, <3>1, <3>2, <3>3
    <3>4. CASE m # l
      BY <2>1, <3>1, <3>2, <3>4
    <3> QED BY <3>3, <3>4
  <2>9. Exact'
    <3> SUFFICES ASSUME l \in alone
                 PROVE  /\ DOMAIN rest = DOMAIN files'
                        /\ \A j \in DOMAIN files' : rest[j].len = files'[j].len
                        /\ leg'[l].total = Bytes(files')
                        /\ \A j \in DOMAIN files' : rest[j].at = Recorded(j)'
      BY <1>8, <2>2 DEF Exact, Pass, Has
    <3>1. /\ DOMAIN seen = DOMAIN files
          /\ \A j \in DOMAIN files : seen[j].len = files[j].len
          /\ leg[l].total = Bytes(files)
          /\ \A j \in DOMAIN files : seen[j].at = Recorded(j)
      BY <1>1 DEF CapInv, Exact, Has
    <3>2. \A j \in DOMAIN files' : Recorded(j)' = Recorded(j)
      BY <2>3 DEF Recorded
    <3> QED BY <1>6, <1>8, <2>2, <2>3, <2>4, <3>1, <3>2
  <2>10. CapKept'
    BY <1>1, <1>7, <2>4, <2>5, CacheAssumption DEF CapInv, CapKept
  <2> QED BY <2>6, <2>7, <2>8, <2>9, <2>10 DEF CapInv
<1>9. CASE /\ Step(l, Evicting(rest, leg[l].total))
           /\ covering' = IF k \in DOMAIN files THEN covering \ {l} ELSE covering
           /\ alone' = alone \ {l}
           /\ UNCHANGED files
  <2>1. /\ leg'[l] = Evicting(rest, leg[l].total)
        /\ \A m \in Legs \ {l} : leg'[m] = leg[m]
    BY <1>9, StepOf
  <2>2. leg'[l].pc = "evict" /\ leg'[l].seen = rest /\ leg'[l].total = leg[l].total
    BY <2>1 DEF Evicting
  <2>3. Sized'
    BY <1>9, <2>1, <2>2 DEF CapInv, Sized, Writers, Has
  <2>4. Counted'
    <3>1. leg'[l].total \in Int /\ Bytes(rest) <= leg'[l].total
      BY <1>2, <1>4, <1>5, <2>2
    <3> QED BY <1>5, <2>1, <2>2, <3>1 DEF CapInv, Counted, Pass, Has
  <2>5. Covers'
    BY <1>6, <1>9, <2>1, <2>2 DEF CapInv, Covers, Pass, Has
  <2>6. Exact'
    BY <1>9, <2>1 DEF CapInv, Exact, Pass, Has, Recorded
  <2>7. CapKept'
    BY <1>1, <1>9 DEF CapInv, CapKept
  <2> QED BY <2>3, <2>4, <2>5, <2>6, <2>7 DEF CapInv
<1> QED BY <1>3, <1>8, <1>9 DEF rest

(* A covering pass that ends has the directory within the cap: it counts   *)
(* no more than the cap, and never counted less than there was.            *)
LEMMA EvictedCap ==
  ASSUME CapInv, Shape, NEW l \in Legs, Evicted(l) PROVE CapInv'
<1> DEFINE seen == leg[l].seen
<1>1. /\ Pass(l) /\ UNCHANGED files /\ Step(l, Idle)
      /\ settled' = (settled \/ l \in covering)
      /\ covering' = covering \ {l} /\ alone' = alone \ {l}
      /\ leg[l].total <= Cap \/ seen = <<>>
  BY CacheAssumption DEF Evicted, Done, Pass, Has, Over, CapInv, Counted
<1>2. l \in covering => Bytes(files) <= Cap
  <2> SUFFICES ASSUME l \in covering PROVE Bytes(files) <= Cap
    OBVIOUS
  <2>1. Lengths(seen) /\ leg[l].total \in Int /\ Bytes(seen) <= leg[l].total
    BY <1>1 DEF CapInv, Counted
  <2>2. DOMAIN files \subseteq DOMAIN seen /\ \A k \in DOMAIN files : files[k].len = seen[k].len
    BY DEF CapInv, Covers
  <2>3. Lengths(files) /\ Bytes(files) <= Bytes(seen)
    BY <2>1, <2>2, FewerBytes
  <2>4. Bytes(files) \in Nat /\ Bytes(seen) \in Nat
    BY <2>1, <2>3, BytesFinite
  <2>5. CASE leg[l].total <= Cap
    BY <2>1, <2>3, <2>4, <2>5, CacheAssumption
  <2>6. CASE seen = <<>>
    <3>1. DOMAIN seen = {}
      BY <2>6
    <3>2. UNION {Body(seen, k) : k \in DOMAIN seen} = {}
      BY <3>1
    <3>3. Bytes(seen) = 0
      BY <3>2, FS_EmptySet DEF Bytes
    <3> QED BY <2>3, <2>4, <3>3, CacheAssumption
  <2> QED BY <1>1, <2>5, <2>6
<1>3. Idle.pc = "idle"
  BY DEF Idle
<1> QED BY <1>1, <1>2, <1>3, Aside

LEMMA KillCap == ASSUME CapInv, Shape, NEW p \in Procs, Kill(p) PROVE CapInv'
<1> DEFINE dead == {l \in Legs : home[l] = p}
<1>1. /\ leg' = [l \in Legs |-> IF l \in dead THEN Idle ELSE leg[l]]
      /\ covering' = covering \ dead /\ alone' = alone \ dead
      /\ UNCHANGED <<files, settled>>
  BY DEF Kill
<1>2. \A l \in Legs : \/ leg'[l] = leg[l] /\ l \notin dead
                      \/ leg'[l].pc = "idle" /\ l \in dead
  BY <1>1 DEF Idle
<1>3. Sized'
  BY <1>1, <1>2 DEF CapInv, Sized, Writers, Has
<1>4. Counted'
  BY <1>2 DEF CapInv, Counted, Pass, Has
<1>5. Covers'
  BY <1>1, <1>2 DEF CapInv, Covers, Pass, Has
<1>6. Exact'
  BY <1>1, <1>2 DEF CapInv, Exact, Pass, Has, Recorded
<1>7. CapKept'
  BY <1>1 DEF CapInv, CapKept
<1> QED BY <1>3, <1>4, <1>5, <1>6, <1>7 DEF CapInv

(* The steps of a leg outside a pass. *)
LEMMA LegCap ==
  ASSUME CapInv, Shape, NEW l \in Legs,
         \/ Lookup(l) \/ Return(l) \/ Create(l) \/ Fill(l) \/ WriteFails(l) \/ NotMeasured(l)
  PROVE  CapInv'
<1>1. /\ UNCHANGED <<files, covering, alone, settled>>
      /\ ~Pass(l) /\ Idle.pc = "idle"
  BY DEF Lookup, Return, Create, Fill, WriteFails, NotMeasured, history, Pass, Has, Idle
<1>2. covering' \subseteq covering \ {l} /\ alone' \subseteq alone \ {l}
  BY <1>1 DEF CapInv, Covers, Exact
<1>3. CASE Lookup(l)
  <2>1. PICK k \in Keys : \/ Step(l, [pc |-> "hit", key |-> k])
                         \/ Step(l, [pc |-> "live", key |-> k])
    BY <1>3 DEF Lookup
  <2> QED BY <1>1, <1>2, <2>1, Aside
<1>4. CASE Return(l) \/ WriteFails(l) \/ NotMeasured(l)
  <2>1. Step(l, Idle)
    BY <1>4 DEF Return, WriteFails, NotMeasured
  <2> QED BY <1>1, <1>2, <2>1, Aside
<1>5. CASE Create(l)
  <2> DEFINE name == TempName(leg[l].key, l)
  <2>1. PICK n \in Sizes[leg[l].key] :
          Step(l, [pc |-> "write", temp |-> name,
                   file |-> [body |-> "entry", at |-> clock, len |-> n]])
    BY <1>5 DEF Create
  <2>2. leg[l].key \in Keys
    BY <1>5 DEF Create, Shape
  <2>3. n \in Nat
    BY <2>1, <2>2, CacheAssumption
  <2> HIDE DEF name
  <2> QED BY <1>1, <1>2, <2>1, <2>3, Aside
<1>6. CASE Fill(l)
  <2>1. PICK next : next = [leg[l] EXCEPT !.pc = "rename"]
    OBVIOUS
  <2>2. Step(l, next) /\ l \in Writers
    BY <1>6, <2>1 DEF Fill, Writers, Has
  <2>3. leg[l].file.len \in Nat
    BY <2>2 DEF CapInv, Sized
  <2>4. leg'[l] = next /\ \A m \in Legs \ {l} : leg'[m] = leg[m]
    BY <2>2, StepOf
  <2>5. Fill(l) => next.pc = "rename" /\ next.file = leg[l].file
    BY <2>1 DEF Fill, Has
  <2> QED BY <1>1, <1>2, <1>6, <2>2, <2>3, <2>5, Aside
<1> QED BY <1>3, <1>4, <1>5, <1>6

LEMMA StepCap == TempInv /\ CapInv /\ [CacheNext]_cache => CapInv'
<1> SUFFICES ASSUME TempInv, CapInv, [CacheNext]_cache PROVE CapInv'
  OBVIOUS
<1>1. Shape
  BY DEF TempInv
<1>2. ASSUME NEW l \in Legs,
             \/ Lookup(l) \/ Return(l) \/ Create(l) \/ Fill(l) \/ WriteFails(l) \/ NotMeasured(l)
      PROVE  CapInv'
  BY <1>1, <1>2, LegCap
<1>3. ASSUME NEW l \in Legs, Rename(l) \/ Measure(l) \/ Date(l) \/ Evict(l) \/ Evicted(l)
      PROVE  CapInv'
  BY <1>1, <1>3, RenameCap, MeasureCap, DateCap, EvictCap, EvictedCap
<1>4. CASE \E p \in Procs : Kill(p)
  BY <1>1, <1>4, KillCap
<1>5. CASE Clock \/ UNCHANGED cache
  BY <1>5 DEF Clock, cache, procs, history, CapInv, Sized, Counted, Covers, Exact, CapKept,
              Writers, Pass, Has, Recorded
<1> QED BY <1>2, <1>3, <1>4, <1>5 DEF CacheNext

LEMMA CapAlways == CacheSpec => [](TempInv /\ CapInv)
BY InitTemps, StepTemps, InitCap, StepCap, PTL DEF CacheSpec

(* Once a pass over all there was has ended, the directory is within the   *)
(* cap until the next store, for any number of passes that remove entries  *)
(* under each other (cache.rs, enforce_cap).                               *)
THEOREM CapIsKept == CacheSpec => []CapKept
<1>1. CapInv => CapKept
  BY DEF CapInv
<1> QED BY <1>1, CapAlways, PTL

(* An entry is removed only over the cap, and only when none is older,     *)
(* unless another leg has crossed the pass (cache.rs, enforce_cap).        *)
THEOREM OldestGoFirst == CacheSpec => EvictsOldest
<1> DEFINE InOrder ==
      \A l \in alone, k \in DOMAIN files :
        Has(l, {"evict"}) /\ leg'[l] # leg[l] /\ k \notin DOMAIN files' =>
          /\ Bytes(files) > Cap
          /\ \A j \in DOMAIN files : Recorded(k) <= Recorded(j)
<1>1. TempInv /\ CapInv /\ [CacheNext]_cache => InOrder
  <2> SUFFICES ASSUME TempInv, CapInv, [CacheNext]_cache, NEW l \in alone, NEW k \in DOMAIN files,
                      leg[l].pc = "evict", leg'[l] # leg[l], k \notin DOMAIN files'
               PROVE  /\ Bytes(files) > Cap
                      /\ \A j \in DOMAIN files : Recorded(k) <= Recorded(j)
    BY DEF Has
  <2>1. PICK m \in Legs : Evict(m) \/ Rename(m)
    <3>1. ~UNCHANGED files
      OBVIOUS
    <3> QED BY <3>1 DEF CacheNext, Lookup, Return, Create, Fill, WriteFails, Measure, NotMeasured,
                        Date, Evicted, Kill, Clock, cache
  <2>2. ~Rename(m)
    <3> SUFFICES ASSUME Rename(m) PROVE FALSE
      OBVIOUS
    <3>1. DOMAIN files \subseteq DOMAIN files'
      BY DEF Rename, With
    <3> QED BY <3>1
  <2>3. m = l
    <3>1. l \in Legs
      BY DEF CapInv, Exact
    <3>2. PICK next : Step(m, next)
      BY <2>1, <2>2 DEF Evict
    <3> QED BY <3>1, <3>2, StepOf DEF TempInv
  <2>4. PICK e \in Oldest(leg[l].seen) : \/ files' = Without(files, {e})
                                         \/ UNCHANGED files
    BY <2>1, <2>2, <2>3 DEF Evict
  <2>5. e = k
    BY <2>4 DEF Without, Restrict
  <2>6. leg[l].total > Cap
    BY <2>1, <2>2, <2>3 DEF Evict, Over
  <2>7. /\ DOMAIN leg[l].seen = DOMAIN files
        /\ leg[l].total = Bytes(files)
        /\ \A j \in DOMAIN files : leg[l].seen[j].at = Recorded(j)
    BY DEF CapInv, Exact, Has
  <2> QED BY <2>4, <2>5, <2>6, <2>7 DEF Oldest
<1>2. [][InOrder]_cache <=> EvictsOldest
  BY DEF EvictsOldest
<1>3. TempInv /\ CapInv /\ [CacheNext]_cache => [InOrder]_cache
  BY <1>1
<1> QED BY <1>2, <1>3, CapAlways, PTL DEF CacheSpec

-----------------------------------------------------------------------------
(* Markdown.                                                               *)
(* The least of some natural numbers, and the greatest of bounded ones. *)
LEMMA MinOf ==
  ASSUME NEW S, S \subseteq Nat, S # {}
  PROVE  Min(S) \in S /\ \A x \in S : Min(S) <= x
<1> DEFINE Less == {pair \in Nat \X Nat : pair[1] < pair[2]}
<1>1. IsWellFoundedOn(Less, Nat)
  BY NatLessThanWellFounded, Zenon DEF OpToRel
<1> HIDE DEF Less
<1>2. PICK x \in S : \A y \in S : ~(<<y, x>> \in Less)
  BY <1>1, WFMin
<1>3. ASSUME NEW y \in S PROVE x <= y
  <2>1. x \in Nat /\ y \in Nat
    OBVIOUS
  <2>2. y < x => <<y, x>> \in Less
    BY <2>1 DEF Less
  <2>3. ~(<<y, x>> \in Less)
    BY <1>2
  <2>4. ~(y < x)
    BY <2>2, <2>3
  <2> QED BY <2>1, <2>4
<1> QED BY <1>3 DEF Min

(* Induction, over a set of numbers. *)
LEMMA Inductive ==
  ASSUME NEW S \in SUBSET Nat, 0 \in S, \A n \in S : n + 1 \in S
  PROVE  S = Nat
<1> SUFFICES ASSUME Nat \ S # {} PROVE FALSE
  OBVIOUS
<1>1. Min(Nat \ S) \in Nat \ S /\ \A x \in Nat \ S : Min(Nat \ S) <= x
  BY MinOf
<1>2. PICK least : least = Min(Nat \ S)
  OBVIOUS
<1>3. least \in Nat /\ least \notin S /\ least - 1 \notin Nat \ S
  BY <1>1, <1>2
<1>4. least # 0
  BY <1>3
<1>5. least - 1 \in Nat
  BY <1>3, <1>4
<1>6. (least - 1) + 1 \in S
  BY <1>3, <1>5
<1> QED BY <1>3, <1>6

(* A sequence of sequences is flattened from the first to the last. *)
Flat(f, seqs, n) == f = [i \in 1..n |-> IF i = 1 THEN seqs[i] ELSE f[i - 1] \o seqs[i]]

LEMMA Flattened ==
  ASSUME NEW seqs, Len(seqs) \in Nat \ {0}
  PROVE  \E f : Flat(f, seqs, Len(seqs)) /\ FlattenSeq(seqs) = f[Len(seqs)]
<1> DEFINE S == {n \in Nat : \E f : Flat(f, seqs, n)}
<1>1. 0 \in S
  <2>1. 1..0 = {}
    OBVIOUS
  <2> DEFINE f == [i \in 1..0 |-> {}]
  <2>2. Flat(f, seqs, 0)
    BY <2>1 DEF Flat
  <2> HIDE DEF f
  <2> QED BY <2>2
<1>2. \A n \in S : n + 1 \in S
  <2> SUFFICES ASSUME NEW n \in S PROVE n + 1 \in S
    OBVIOUS
  <2>1. n \in Nat
    OBVIOUS
  <2>2. PICK f : Flat(f, seqs, n)
    OBVIOUS
  <2> DEFINE last == IF n + 1 = 1 THEN seqs[n + 1] ELSE f[n] \o seqs[n + 1]
             g == [i \in 1..n + 1 |-> IF i = n + 1 THEN last ELSE f[i]]
  <2>3. ASSUME NEW i \in 1..n + 1
        PROVE  g[i] = IF i = 1 THEN seqs[i] ELSE g[i - 1] \o seqs[i]
    <3>1. CASE i = n + 1
      <4>1. CASE i = 1
        BY <3>1, <4>1
      <4>2. CASE i # 1
        <5>1. i - 1 \in 1..n + 1 /\ i - 1 # n + 1 /\ i - 1 = n
          BY <2>1, <3>1, <4>2
        <5>2. g[i - 1] = f[n]
          BY <5>1
        <5> QED BY <3>1, <4>2, <5>2
      <4> QED BY <4>1, <4>2
    <3>2. CASE i # n + 1
      <4>1. i \in 1..n /\ f[i] = IF i = 1 THEN seqs[i] ELSE f[i - 1] \o seqs[i]
        <5>1. i \in 1..n
          BY <2>1, <3>2
        <5> QED BY <2>2, <5>1 DEF Flat
      <4>2. i # 1 => g[i - 1] = f[i - 1]
        <5>1. i # 1 => i - 1 \in 1..n + 1 /\ i - 1 # n + 1
          BY <2>1, <4>1
        <5> QED BY <5>1
      <4>3. g[i] = f[i]
        BY <3>2
      <4> HIDE DEF g
      <4> QED BY <4>1, <4>2, <4>3
    <3> QED BY <3>1, <3>2
  <2>4. g = [i \in 1..n + 1 |-> g[i]]
    OBVIOUS
  <2> HIDE DEF g
  <2>5. Flat(g, seqs, n + 1)
    BY <2>3, <2>4 DEF Flat
  <2> QED BY <2>1, <2>5
<1>3. S \in SUBSET Nat
  OBVIOUS
<1> HIDE DEF S
<1>4. S = Nat
  BY <1>1, <1>2, <1>3, Inductive
<1>5. \E f : Flat(f, seqs, Len(seqs))
  BY <1>4 DEF S
<1> DEFINE flatten == CHOOSE f : Flat(f, seqs, Len(seqs))
<1>6. Flat(flatten, seqs, Len(seqs))
  BY <1>5
<1>7. FlattenSeq(seqs) = flatten[Len(seqs)]
  BY DEF FlattenSeq, Flat
<1> HIDE DEF flatten
<1> QED BY <1>6, <1>7

-----------------------------------------------------------------------------
(* Sequences, by their last element. *)
LEMMA LastOf ==
  ASSUME NEW T, NEW a \in Seq(T), a # <<>>
  PROVE  \E b \in Seq(T), x \in T : a = Append(b, x) /\ Len(b) = Len(a) - 1
<1>1. PICK n \in Nat : a \in [1..n -> T] /\ Len(a) = n
  OBVIOUS
<1>2. n # 0
  <2>1. n = 0 => a = <<>>
    BY <1>1
  <2> QED BY <2>1
<1>3. PICK m : m = n - 1 /\ m \in Nat
  BY <1>1, <1>2
<1>4. PICK b : b = [i \in 1..m |-> a[i]]
  OBVIOUS
<1>5. b \in Seq(T) /\ Len(b) = m /\ \A i \in 1..m : b[i] = a[i]
  <2>1. \A i \in 1..m : a[i] \in T
    BY <1>1, <1>3
  <2>2. b \in [1..m -> T]
    BY <1>4, <2>1
  <2> QED BY <1>3, <1>4, <2>2
<1>6. a[n] \in T
  BY <1>1, <1>2
<1>7. PICK c : c = Append(b, a[n])
  OBVIOUS
<1>8. c \in Seq(T) /\ Len(c) = m + 1 /\ c[m + 1] = a[n] /\ \A i \in 1..m : c[i] = b[i]
  BY <1>5, <1>6, <1>7
<1>9. a \in Seq(T) /\ Len(a) = Len(c) /\ \A i \in 1..Len(a) : a[i] = c[i]
  BY <1>1, <1>3, <1>5, <1>8
<1>10. a = c
  BY <1>8, <1>9, SeqEqual
<1> QED BY <1>1, <1>3, <1>5, <1>6, <1>7, <1>10

LEMMA ByTheLast ==
  ASSUME NEW T, NEW S, S \subseteq Seq(T), <<>> \in S, \A a \in S : \A x \in T : Append(a, x) \in S
  PROVE  S = Seq(T)
<1> DEFINE N == {n \in Nat : \A a \in Seq(T) : Len(a) = n => a \in S}
<1>1. 0 \in N
  <2>1. \A a \in Seq(T) : Len(a) = 0 => a = <<>>
    OBVIOUS
  <2> QED BY <2>1
<1>2. \A n \in N : n + 1 \in N
  <2> SUFFICES ASSUME NEW n \in N PROVE n + 1 \in N
    OBVIOUS
  <2>1. n \in Nat /\ \A a \in Seq(T) : Len(a) = n => a \in S
    OBVIOUS
  <2>2. ASSUME NEW a \in Seq(T), Len(a) = n + 1 PROVE a \in S
    <3>1. a # <<>>
      BY <2>1, <2>2
    <3>2. PICK b \in Seq(T), x \in T : a = Append(b, x) /\ Len(b) = Len(a) - 1
      BY <3>1, LastOf
    <3>3. Len(b) = n
      BY <2>1, <2>2, <3>2
    <3> QED BY <2>1, <3>2, <3>3
  <2> QED BY <2>1, <2>2
<1>3. N \in SUBSET Nat
  OBVIOUS
<1>4. N = Nat
  <2> HIDE DEF N
  <2> QED BY <1>1, <1>2, <1>3, Inductive
<1>5. \A a \in Seq(T) : Len(a) \in Nat
  OBVIOUS
<1>6. \A a \in Seq(T) : a \in S
  BY <1>4, <1>5
<1> QED BY <1>6

LEMMA AppendSet ==
  ASSUME NEW T, NEW a \in Seq(T), NEW x \in T
  PROVE  ToSet(Append(a, x)) = ToSet(a) \cup {x}
<1>1. PICK c : c = Append(a, x)
  OBVIOUS
<1>2. /\ c \in Seq(T) /\ Len(a) \in Nat /\ DOMAIN a = 1..Len(a) /\ DOMAIN c = 1..Len(a) + 1
      /\ c[Len(a) + 1] = x /\ \A i \in 1..Len(a) : c[i] = a[i]
  BY <1>1
<1>3. 1..Len(a) + 1 = 1..Len(a) \cup {Len(a) + 1}
  BY <1>2
<1>4. ToSet(c) = ToSet(a) \cup {x}
  BY <1>2, <1>3 DEF ToSet
<1> QED BY <1>1, <1>4

LEMMA ConcatSet ==
  ASSUME NEW T, NEW a \in Seq(T), NEW b \in Seq(T)
  PROVE  ToSet(a \o b) = ToSet(a) \cup ToSet(b)
<1>1. PICK c : c = a \o b
  OBVIOUS
<1>2. PICK m, n : m = Len(a) /\ n = Len(b)
  OBVIOUS
<1>3. /\ c \in Seq(T) /\ m \in Nat /\ n \in Nat /\ DOMAIN a = 1..m /\ DOMAIN b = 1..n
      /\ DOMAIN c = 1..m + n
      /\ (\A i \in 1..m : c[i] = a[i]) /\ (\A i \in 1..n : c[m + i] = b[i])
  BY <1>1, <1>2
<1>4. ASSUME NEW y \in ToSet(c) PROVE y \in ToSet(a) \cup ToSet(b)
  <2>1. PICK i \in 1..m + n : y = c[i]
    BY <1>3 DEF ToSet
  <2>2. CASE i <= m
    <3>1. i \in 1..m
      BY <1>3, <2>2
    <3> QED BY <1>3, <2>1, <3>1 DEF ToSet
  <2>3. CASE i > m
    <3>1. i - m \in 1..n /\ m + (i - m) = i
      BY <1>3, <2>3
    <3>2. PICK j \in 1..n : m + j = i
      BY <3>1
    <3>3. y = b[j]
      BY <1>3, <2>1, <3>2
    <3> QED BY <1>3, <3>2, <3>3 DEF ToSet
  <2> QED BY <1>3, <2>2, <2>3
<1>5. ASSUME NEW y \in ToSet(a) PROVE y \in ToSet(c)
  <2>1. PICK i \in 1..m : y = a[i]
    BY <1>3 DEF ToSet
  <2>2. i \in 1..m + n
    BY <1>3
  <2> QED BY <1>3, <2>1, <2>2 DEF ToSet
<1>6. ASSUME NEW y \in ToSet(b) PROVE y \in ToSet(c)
  <2>1. PICK i \in 1..n : y = b[i]
    BY <1>3 DEF ToSet
  <2>2. m + i \in 1..m + n
    BY <1>3
  <2> QED BY <1>3, <2>1, <2>2 DEF ToSet
<1> QED BY <1>1, <1>4, <1>5, <1>6

LEMMA ElementsOf ==
  ASSUME NEW T, NEW a \in Seq(T)
  PROVE  ToSet(a) \subseteq T
BY DEF ToSet

LEMMA Empties == ToSet(<<>>) = {}
BY DEF ToSet

LEMMA ConcatLast ==
  ASSUME NEW T, NEW a \in Seq(T), NEW b \in Seq(T), NEW x \in T
  PROVE  a \o Append(b, x) = Append(a \o b, x)
OBVIOUS

LEMMA ConcatLines == \A a, b, c \in Seq(Line) : (a \o b) \o c = a \o (b \o c)
BY ConcatAssociative

LEMMA ConcatIs ==
  ASSUME NEW T, NEW a \in Seq(T), NEW b \in Seq(T)
  PROVE  /\ a \o b \in Seq(T) /\ Len(a \o b) = Len(a) + Len(b)
         /\ \A k \in 1..Len(a) : (a \o b)[k] = a[k]
         /\ \A k \in 1..Len(b) : (a \o b)[Len(a) + k] = b[k]
OBVIOUS

LEMMA AppendIs ==
  ASSUME NEW T, NEW a \in Seq(T), NEW x \in T
  PROVE  /\ Append(a, x) \in Seq(T) /\ Len(a) \in Nat /\ Len(Append(a, x)) = Len(a) + 1
         /\ Append(a, x)[Len(a) + 1] = x /\ <<x>> \in Seq(T) /\ a \o <<x>> = Append(a, x)
         /\ \A k \in 1..Len(a) : Append(a, x)[k] = a[k]
OBVIOUS

(* A sequence more is flattened after the others. *)
LEMMA FlattenLast ==
  ASSUME NEW T, NEW ss \in Seq(Seq(T)), NEW s \in Seq(T)
  PROVE  FlattenSeq(Append(ss, s)) = FlattenSeq(ss) \o s
<1>1. PICK more : more = Append(ss, s)
  OBVIOUS
<1>2. PICK N : N = Len(ss)
  OBVIOUS
<1>3. /\ N \in Nat /\ ss \in Seq(Seq(T)) /\ more \in Seq(Seq(T)) /\ Len(more) = N + 1
      /\ more[N + 1] = s /\ \A i \in 1..N : more[i] = ss[i]
  BY <1>1, <1>2
<1>4. Len(more) \in Nat \ {0}
  BY <1>3
<1>5. PICK g : Flat(g, more, Len(more)) /\ FlattenSeq(more) = g[Len(more)]
  BY <1>4, Flattened
<1>6. \A i \in 1..N + 1 : g[i] = IF i = 1 THEN more[i] ELSE g[i - 1] \o more[i]
  BY <1>3, <1>5 DEF Flat
<1>7. N + 1 \in 1..N + 1 /\ FlattenSeq(more) = g[N + 1]
  BY <1>3, <1>5
<1>8. CASE N = 0
  <2>0. Len(ss) = 0 /\ ss \in Seq(Seq(T))
    BY <1>2, <1>8
  <2>1. Len(ss) = 0 /\ ss = <<>>
    BY <2>0
  <2>2. FlattenSeq(ss) = <<>>
    BY <2>1 DEF FlattenSeq
  <2>3. g[N + 1] = s
    BY <1>3, <1>6, <1>7, <1>8
  <2>4. <<>> \o s = s
    OBVIOUS
  <2> QED BY <1>1, <1>7, <2>2, <2>3, <2>4
<1>9. CASE N # 0
  <2>1. Len(ss) \in Nat \ {0}
    BY <1>2, <1>3, <1>9
  <2>2. PICK f : Flat(f, ss, Len(ss)) /\ FlattenSeq(ss) = f[Len(ss)]
    BY <2>1, Flattened
  <2>3. \A i \in 1..N : f[i] = IF i = 1 THEN ss[i] ELSE f[i - 1] \o ss[i]
    BY <1>2, <1>3, <2>2 DEF Flat
  <2> DEFINE S == {n \in Nat : n + 1 <= N => g[n + 1] = f[n + 1]}
  <2>4. 0 \in S
    <3>1. 1 \in 1..N /\ 1 \in 1..N + 1
      BY <1>3, <1>9
    <3>2. g[1] = f[1]
      BY <1>3, <1>6, <2>3, <3>1
    <3> QED BY <3>2
  <2>5. \A n \in S : n + 1 \in S
    <3> SUFFICES ASSUME NEW n \in S PROVE n + 1 \in S
      OBVIOUS
    <3>1. n \in Nat /\ n + 1 \in Nat /\ (n + 1 <= N => g[n + 1] = f[n + 1])
      OBVIOUS
    <3>2. ASSUME (n + 1) + 1 <= N PROVE g[(n + 1) + 1] = f[(n + 1) + 1]
      <4>1. PICK k : k = (n + 1) + 1
        OBVIOUS
      <4>2. k \in 1..N /\ k \in 1..N + 1 /\ k # 1 /\ k - 1 = n + 1 /\ n + 1 <= N
        BY <1>3, <3>1, <3>2, <4>1
      <4>3. g[k] = g[k - 1] \o more[k] /\ f[k] = f[k - 1] \o ss[k] /\ more[k] = ss[k]
        BY <1>3, <1>6, <2>3, <4>2
      <4>4. g[k - 1] = f[k - 1]
        BY <3>1, <4>2
      <4> QED BY <4>1, <4>3, <4>4
    <3> QED BY <3>1, <3>2
  <2>6. S \in SUBSET Nat
    OBVIOUS
  <2> HIDE DEF S
  <2>7. S = Nat
    BY <2>4, <2>5, <2>6, Inductive
  <2>8. PICK n : n = N - 1 /\ n \in Nat
    BY <1>3, <1>9
  <2>9. n + 1 = N /\ n \in S
    BY <1>3, <2>7, <2>8
  <2>10. g[N] = f[N]
    <3>1. n + 1 <= N => g[n + 1] = f[n + 1]
      BY <2>9 DEF S
    <3> QED BY <1>3, <2>9, <3>1
  <2>11. N + 1 # 1 /\ (N + 1) - 1 = N
    BY <1>3, <1>9
  <2>12. g[N + 1] = g[N] \o s
    BY <1>3, <1>6, <1>7, <2>11
  <2> QED BY <1>1, <1>2, <1>7, <2>2, <2>10, <2>12
<1> QED BY <1>8, <1>9

LEMMA FlattenNone == FlattenSeq(<<>>) = <<>>
<1>1. Len(<<>>) = 0
  OBVIOUS
<1> QED BY <1>1 DEF FlattenSeq

LEMMA FlattenIn ==
  ASSUME NEW T, NEW ss \in Seq(Seq(T))
  PROVE  FlattenSeq(ss) \in Seq(T)
<1> DEFINE S == {x \in Seq(Seq(T)) : FlattenSeq(x) \in Seq(T)}
<1>1. <<>> \in S
  <2>1. <<>> \in Seq(T) /\ <<>> \in Seq(Seq(T))
    OBVIOUS
  <2> QED BY <2>1, FlattenNone
<1>2. \A a \in S : \A x \in Seq(T) : Append(a, x) \in S
  <2> SUFFICES ASSUME NEW a \in S, NEW x \in Seq(T) PROVE Append(a, x) \in S
    OBVIOUS
  <2>1. a \in Seq(Seq(T)) /\ FlattenSeq(a) \in Seq(T) /\ Append(a, x) \in Seq(Seq(T))
    OBVIOUS
  <2>2. FlattenSeq(Append(a, x)) = FlattenSeq(a) \o x
    BY <2>1, FlattenLast
  <2>3. FlattenSeq(a) \o x \in Seq(T)
    BY <2>1
  <2> QED BY <2>1, <2>2, <2>3
<1>3. S \subseteq Seq(Seq(T))
  OBVIOUS
<1> HIDE DEF S
<1>4. S = Seq(Seq(T))
  BY <1>1, <1>2, <1>3, ByTheLast
<1> QED BY <1>4 DEF S
(* A run of CollectLine over lines, and of CleanLine. *)
CollectRun(lines, s) ==
  s = [n \in 0..Len(lines) |-> IF n = 0 THEN CollectStart ELSE CollectLine(s[n - 1], lines[n])]
CleanRun(lines, s) ==
  s = [n \in 0..Len(lines) |-> IF n = 0 THEN CleanStart ELSE CleanLine(s[n - 1], lines[n])]

LEMMA CollectRuns ==
  ASSUME NEW lines, Len(lines) \in Nat
  PROVE  \E s : CollectRun(lines, s) /\ Collected(lines) = s[Len(lines)]
<1> DEFINE RunTo(s, n) ==
             s = [i \in 0..n |-> IF i = 0 THEN CollectStart ELSE CollectLine(s[i - 1], lines[i])]
           S == {n \in Nat : \E s : RunTo(s, n)}
<1>1. 0 \in S
  <2>1. \A i \in 0..0 : i = 0
    OBVIOUS
  <2>2. PICK s : s = [i \in 0..0 |-> CollectStart]
    OBVIOUS
  <2>3. RunTo(s, 0)
    BY <2>1, <2>2
  <2> QED BY <2>3
<1>2. \A n \in S : n + 1 \in S
  <2> SUFFICES ASSUME NEW n \in S PROVE n + 1 \in S
    OBVIOUS
  <2>1. n \in Nat
    OBVIOUS
  <2>2. PICK s : RunTo(s, n)
    OBVIOUS
  <2>3. PICK g : g = [i \in 0..n + 1 |-> IF i = n + 1 THEN CollectLine(s[n], lines[n + 1]) ELSE s[i]]
    OBVIOUS
  <2>4. ASSUME NEW i \in 0..n + 1
        PROVE  g[i] = IF i = 0 THEN CollectStart ELSE CollectLine(g[i - 1], lines[i])
    <3>1. CASE i = n + 1
      <4>1. i - 1 \in 0..n + 1 /\ i - 1 # n + 1 /\ i - 1 = n /\ i # 0
        BY <2>1, <3>1
      <4>2. g[i - 1] = s[n] /\ g[i] = CollectLine(s[n], lines[i])
        BY <2>3, <3>1, <4>1
      <4> QED BY <4>1, <4>2
    <3>2. CASE i # n + 1
      <4>1. i \in 0..n /\ (i # 0 => i - 1 \in 0..n + 1 /\ i - 1 # n + 1)
        BY <2>1, <3>2
      <4>2. s[i] = IF i = 0 THEN CollectStart ELSE CollectLine(s[i - 1], lines[i])
        BY <2>2, <4>1
      <4>3. g[i] = s[i] /\ (i # 0 => g[i - 1] = s[i - 1])
        BY <2>3, <3>2, <4>1
      <4> QED BY <4>2, <4>3
    <3> QED BY <3>1, <3>2
  <2>5. g = [i \in 0..n + 1 |-> g[i]]
    BY <2>3
  <2>6. RunTo(g, n + 1)
    BY <2>4, <2>5
  <2> HIDE DEF RunTo
  <2>7. \E h : RunTo(h, n + 1)
    BY <2>6
  <2> QED BY <2>1, <2>7
<1>3. S \in SUBSET Nat
  OBVIOUS
<1> HIDE DEF S
<1>4. S = Nat
  BY <1>1, <1>2, <1>3, Inductive
<1>5. \E s : CollectRun(lines, s)
  BY <1>4 DEF S, CollectRun
<1> DEFINE state == CHOOSE s : CollectRun(lines, s)
<1>6. CollectRun(lines, state)
  BY <1>5
<1>7. Collected(lines) = state[Len(lines)]
  BY DEF Collected, CollectRun
<1> HIDE DEF state
<1> QED BY <1>6, <1>7

LEMMA CollectedOnce ==
  ASSUME NEW T, NEW a \in Seq(T), NEW x \in T
  PROVE  Collected(Append(a, x)) = CollectLine(Collected(a), x)
<1>1. PICK more : more = Append(a, x)
  OBVIOUS
<1>2. PICK N : N = Len(a)
  OBVIOUS
<1>3. /\ N \in Nat /\ Len(more) = N + 1 /\ Len(more) \in Nat /\ Len(a) \in Nat
      /\ more[N + 1] = x /\ \A i \in 1..N : more[i] = a[i]
  BY <1>1, <1>2
<1>4. PICK s : CollectRun(a, s) /\ Collected(a) = s[Len(a)]
  BY <1>3, CollectRuns
<1>5. PICK t : CollectRun(more, t) /\ Collected(more) = t[Len(more)]
  BY <1>3, CollectRuns
<1>6. \A i \in 0..N : s[i] = IF i = 0 THEN CollectStart ELSE CollectLine(s[i - 1], a[i])
  BY <1>2, <1>4 DEF CollectRun
<1>7. \A i \in 0..N + 1 : t[i] = IF i = 0 THEN CollectStart ELSE CollectLine(t[i - 1], more[i])
  BY <1>3, <1>5 DEF CollectRun
<1> DEFINE S == {n \in Nat : n <= N => t[n] = s[n]}
<1>8. 0 \in S
  <2>1. 0 \in 0..N /\ 0 \in 0..N + 1
    BY <1>3
  <2>2. t[0] = s[0]
    BY <1>6, <1>7, <2>1
  <2> QED BY <2>2
<1>9. \A n \in S : n + 1 \in S
  <2> SUFFICES ASSUME NEW n \in S PROVE n + 1 \in S
    OBVIOUS
  <2>1. n \in Nat /\ n + 1 \in Nat /\ (n <= N => t[n] = s[n])
    OBVIOUS
  <2>2. ASSUME n + 1 <= N PROVE t[n + 1] = s[n + 1]
    <3>1. PICK k : k = n + 1
      OBVIOUS
    <3>2. k \in 0..N /\ k \in 0..N + 1 /\ k # 0 /\ k - 1 = n /\ n <= N /\ k \in 1..N
      BY <1>3, <2>1, <2>2, <3>1
    <3>3. t[k] = CollectLine(t[n], more[k]) /\ s[k] = CollectLine(s[n], a[k]) /\ more[k] = a[k]
      BY <1>3, <1>6, <1>7, <3>2
    <3>4. t[n] = s[n]
      BY <2>1, <3>2
    <3> QED BY <3>1, <3>3, <3>4
  <2> QED BY <2>1, <2>2
<1>10. S \in SUBSET Nat
  OBVIOUS
<1>11. S = Nat
  <2> HIDE DEF S
  <2> QED BY <1>8, <1>9, <1>10, Inductive
<1>12. t[N] = s[N]
  <2>1. N <= N => t[N] = s[N]
    BY <1>3, <1>11
  <2> QED BY <1>3, <2>1
<1>13. N + 1 \in 0..N + 1 /\ N + 1 # 0 /\ (N + 1) - 1 = N
  BY <1>3
<1>14. t[N + 1] = CollectLine(t[N], x)
  BY <1>3, <1>7, <1>13
<1> QED BY <1>1, <1>2, <1>3, <1>4, <1>5, <1>12, <1>14

LEMMA CollectedNone == Collected(<<>>) = CollectStart
<1>1. Len(<<>>) = 0 /\ 0 \in 0..0
  OBVIOUS
<1>2. PICK s : CollectRun(<<>>, s) /\ Collected(<<>>) = s[Len(<<>>)]
  BY <1>1, CollectRuns
<1>3. s[0] = CollectStart
  BY <1>1, <1>2 DEF CollectRun
<1> QED BY <1>1, <1>2, <1>3

LEMMA CleanRuns ==
  ASSUME NEW lines, Len(lines) \in Nat
  PROVE  \E s : CleanRun(lines, s) /\ Cleaned(lines) = s[Len(lines)]
<1> DEFINE RunTo(s, n) ==
             s = [i \in 0..n |-> IF i = 0 THEN CleanStart ELSE CleanLine(s[i - 1], lines[i])]
           S == {n \in Nat : \E s : RunTo(s, n)}
<1>1. 0 \in S
  <2>1. \A i \in 0..0 : i = 0
    OBVIOUS
  <2>2. PICK s : s = [i \in 0..0 |-> CleanStart]
    OBVIOUS
  <2>3. RunTo(s, 0)
    BY <2>1, <2>2
  <2> QED BY <2>3
<1>2. \A n \in S : n + 1 \in S
  <2> SUFFICES ASSUME NEW n \in S PROVE n + 1 \in S
    OBVIOUS
  <2>1. n \in Nat
    OBVIOUS
  <2>2. PICK s : RunTo(s, n)
    OBVIOUS
  <2>3. PICK g : g = [i \in 0..n + 1 |-> IF i = n + 1 THEN CleanLine(s[n], lines[n + 1]) ELSE s[i]]
    OBVIOUS
  <2>4. ASSUME NEW i \in 0..n + 1
        PROVE  g[i] = IF i = 0 THEN CleanStart ELSE CleanLine(g[i - 1], lines[i])
    <3>1. CASE i = n + 1
      <4>1. i - 1 \in 0..n + 1 /\ i - 1 # n + 1 /\ i - 1 = n /\ i # 0
        BY <2>1, <3>1
      <4>2. g[i - 1] = s[n] /\ g[i] = CleanLine(s[n], lines[i])
        BY <2>3, <3>1, <4>1
      <4> QED BY <4>1, <4>2
    <3>2. CASE i # n + 1
      <4>1. i \in 0..n /\ (i # 0 => i - 1 \in 0..n + 1 /\ i - 1 # n + 1)
        BY <2>1, <3>2
      <4>2. s[i] = IF i = 0 THEN CleanStart ELSE CleanLine(s[i - 1], lines[i])
        BY <2>2, <4>1
      <4>3. g[i] = s[i] /\ (i # 0 => g[i - 1] = s[i - 1])
        BY <2>3, <3>2, <4>1
      <4> QED BY <4>2, <4>3
    <3> QED BY <3>1, <3>2
  <2>5. g = [i \in 0..n + 1 |-> g[i]]
    BY <2>3
  <2>6. RunTo(g, n + 1)
    BY <2>4, <2>5
  <2> HIDE DEF RunTo
  <2>7. \E h : RunTo(h, n + 1)
    BY <2>6
  <2> QED BY <2>1, <2>7
<1>3. S \in SUBSET Nat
  OBVIOUS
<1> HIDE DEF S
<1>4. S = Nat
  BY <1>1, <1>2, <1>3, Inductive
<1>5. \E s : CleanRun(lines, s)
  BY <1>4 DEF S, CleanRun
<1> DEFINE state == CHOOSE s : CleanRun(lines, s)
<1>6. CleanRun(lines, state)
  BY <1>5
<1>7. Cleaned(lines) = state[Len(lines)]
  BY DEF Cleaned, CleanRun
<1> HIDE DEF state
<1> QED BY <1>6, <1>7

LEMMA CleanedOnce ==
  ASSUME NEW T, NEW a \in Seq(T), NEW x \in T
  PROVE  Cleaned(Append(a, x)) = CleanLine(Cleaned(a), x)
<1>1. PICK more : more = Append(a, x)
  OBVIOUS
<1>2. PICK N : N = Len(a)
  OBVIOUS
<1>3. /\ N \in Nat /\ Len(more) = N + 1 /\ Len(more) \in Nat /\ Len(a) \in Nat
      /\ more[N + 1] = x /\ \A i \in 1..N : more[i] = a[i]
  BY <1>1, <1>2
<1>4. PICK s : CleanRun(a, s) /\ Cleaned(a) = s[Len(a)]
  BY <1>3, CleanRuns
<1>5. PICK t : CleanRun(more, t) /\ Cleaned(more) = t[Len(more)]
  BY <1>3, CleanRuns
<1>6. \A i \in 0..N : s[i] = IF i = 0 THEN CleanStart ELSE CleanLine(s[i - 1], a[i])
  BY <1>2, <1>4 DEF CleanRun
<1>7. \A i \in 0..N + 1 : t[i] = IF i = 0 THEN CleanStart ELSE CleanLine(t[i - 1], more[i])
  BY <1>3, <1>5 DEF CleanRun
<1> DEFINE S == {n \in Nat : n <= N => t[n] = s[n]}
<1>8. 0 \in S
  <2>1. 0 \in 0..N /\ 0 \in 0..N + 1
    BY <1>3
  <2>2. t[0] = s[0]
    BY <1>6, <1>7, <2>1
  <2> QED BY <2>2
<1>9. \A n \in S : n + 1 \in S
  <2> SUFFICES ASSUME NEW n \in S PROVE n + 1 \in S
    OBVIOUS
  <2>1. n \in Nat /\ n + 1 \in Nat /\ (n <= N => t[n] = s[n])
    OBVIOUS
  <2>2. ASSUME n + 1 <= N PROVE t[n + 1] = s[n + 1]
    <3>1. PICK k : k = n + 1
      OBVIOUS
    <3>2. k \in 0..N /\ k \in 0..N + 1 /\ k # 0 /\ k - 1 = n /\ n <= N /\ k \in 1..N
      BY <1>3, <2>1, <2>2, <3>1
    <3>3. t[k] = CleanLine(t[n], more[k]) /\ s[k] = CleanLine(s[n], a[k]) /\ more[k] = a[k]
      BY <1>3, <1>6, <1>7, <3>2
    <3>4. t[n] = s[n]
      BY <2>1, <3>2
    <3> QED BY <3>1, <3>3, <3>4
  <2> QED BY <2>1, <2>2
<1>10. S \in SUBSET Nat
  OBVIOUS
<1>11. S = Nat
  <2> HIDE DEF S
  <2> QED BY <1>8, <1>9, <1>10, Inductive
<1>12. t[N] = s[N]
  <2>1. N <= N => t[N] = s[N]
    BY <1>3, <1>11
  <2> QED BY <1>3, <2>1
<1>13. N + 1 \in 0..N + 1 /\ N + 1 # 0 /\ (N + 1) - 1 = N
  BY <1>3
<1>14. t[N + 1] = CleanLine(t[N], x)
  BY <1>3, <1>7, <1>13
<1> QED BY <1>1, <1>2, <1>3, <1>4, <1>5, <1>12, <1>14

LEMMA CleanedNone == Cleaned(<<>>) = CleanStart
<1>1. Len(<<>>) = 0 /\ 0 \in 0..0
  OBVIOUS
<1>2. PICK s : CleanRun(<<>>, s) /\ Cleaned(<<>>) = s[Len(<<>>)]
  BY <1>1, CleanRuns
<1>3. s[0] = CleanStart
  BY <1>1, <1>2 DEF CleanRun
<1> QED BY <1>1, <1>2, <1>3

-----------------------------------------------------------------------------
(* The two scanners of Markdown, one line at a time. *)
Fences == {NoFence} \cup [ch : {"tick", "tilde"}, run : Nat]
CollectState == [blocks : Seq(Seq(Line)), open : Seq(Line), fence : Fences]
CleanState == [out : Seq(Line), fence : Fences, blank : BOOLEAN]

LEMMA LineFacts ==
  ASSUME NEW x \in Line
  PROVE  /\ x.ch \in {"tick", "tilde", "bar", "text", ""} /\ x.run \in Nat
         /\ x.tail \in {"", "info", "backtick"} /\ x.noisy \in BOOLEAN
         /\ CleanInline(x) \in Line
BY DEF Line, CleanInline

LEMMA BlankFacts ==
  /\ Blank \in Line /\ Blank.ch = "" /\ ~FenceOpen(Blank)
  /\ \A fence \in Fences : fence # NoFence => ~FenceClose(Blank, fence)
BY DEF Blank, Line, FenceOpen, FenceClose, Fences

LEMMA BlankIsLine == Blank \in Line
BY BlankFacts

(* What a line makes of the state s: t. *)
Collects(t, s, x) ==
  /\ t \in CollectState
  /\ Fenced(s) /\ FenceClose(x, s.fence) =>
       t.blocks = Append(s.blocks, Append(s.open, x)) /\ ~Fenced(t)
  /\ Fenced(s) /\ ~FenceClose(x, s.fence) =>
       t.blocks = s.blocks /\ t.open = Append(s.open, x) /\ t.fence = s.fence
  /\ ~Fenced(s) /\ FenceOpen(x) =>
       t.blocks = s.blocks /\ t.open = <<x>> /\ t.fence = FenceOf(x) /\ Fenced(t)
  /\ ~Fenced(s) /\ ~FenceOpen(x) => t = s

LEMMA CollectStep ==
  ASSUME NEW s \in CollectState, NEW x \in Line
  PROVE  Collects(CollectLine(s, x), s, x)
<1>0. PICK t : t = CollectLine(s, x)
  OBVIOUS
<1>1. /\ s.blocks \in Seq(Seq(Line)) /\ s.open \in Seq(Line) /\ s.fence \in Fences
      /\ Append(s.open, x) \in Seq(Line) /\ <<x>> \in Seq(Line) /\ <<>> \in Seq(Line)
      /\ Append(s.blocks, Append(s.open, x)) \in Seq(Seq(Line))
      /\ NoFence \in Fences
  BY DEF CollectState, Fences
<1>2. CASE Fenced(s) /\ FenceClose(x, s.fence)
  <2>1. t = [blocks |-> Append(s.blocks, Append(s.open, x)), open |-> <<>>, fence |-> NoFence]
    BY <1>0, <1>2 DEF CollectLine
  <2>2. t \in CollectState
    BY <1>1, <2>1 DEF CollectState
  <2>3. t.blocks = Append(s.blocks, Append(s.open, x)) /\ t.fence = NoFence
    BY <2>1
  <2> QED BY <1>0, <1>2, <2>2, <2>3 DEF Collects, Fenced
<1>3. CASE Fenced(s) /\ ~FenceClose(x, s.fence)
  <2>1. t = [s EXCEPT !.open = Append(@, x)]
    BY <1>0, <1>3 DEF CollectLine
  <2>2. t.blocks = s.blocks /\ t.open = Append(s.open, x) /\ t.fence = s.fence /\ t \in CollectState
    BY <1>1, <2>1 DEF CollectState
  <2> QED BY <1>0, <1>3, <2>2 DEF Collects
<1>4. CASE ~Fenced(s) /\ FenceOpen(x)
  <2>1. t = [s EXCEPT !.open = <<x>>, !.fence = FenceOf(x)]
    BY <1>0, <1>4 DEF CollectLine
  <2>2. FenceOf(x) \in Fences /\ FenceOf(x) # NoFence
    <3>1. x.ch \in {"tick", "tilde"} /\ x.run \in Nat
      BY <1>4, LineFacts DEF FenceOpen
    <3> QED BY <3>1 DEF Fences, FenceOf, NoFence
  <2>3. t.blocks = s.blocks /\ t.open = <<x>> /\ t.fence = FenceOf(x) /\ t \in CollectState
    BY <1>1, <2>1, <2>2 DEF CollectState
  <2> QED BY <1>0, <1>4, <2>2, <2>3 DEF Collects, Fenced
<1>5. CASE ~Fenced(s) /\ ~FenceOpen(x)
  <2>1. t = s
    BY <1>0, <1>5 DEF CollectLine
  <2> QED BY <1>0, <1>5, <2>1 DEF Collects
<1> QED BY <1>2, <1>3, <1>4, <1>5

LEMMA CollectStartState == CollectStart \in CollectState /\ ~Fenced(CollectStart)
<1>1. <<>> \in Seq(Line) /\ <<>> \in Seq(Seq(Line))
  OBVIOUS
<1> QED BY <1>1 DEF CollectStart, CollectState, Fences, Fenced

LEMMA CollectedState ==
  ASSUME NEW a \in Seq(Line)
  PROVE  Collected(a) \in CollectState
<1> DEFINE S == {x \in Seq(Line) : Collected(x) \in CollectState}
<1>1. <<>> \in S
  <2>1. <<>> \in Seq(Line)
    OBVIOUS
  <2> QED BY <2>1, CollectedNone, CollectStartState
<1>2. \A b \in S : \A x \in Line : Append(b, x) \in S
  <2> SUFFICES ASSUME NEW b \in S, NEW x \in Line PROVE Append(b, x) \in S
    OBVIOUS
  <2>1. b \in Seq(Line) /\ Collected(b) \in CollectState /\ Append(b, x) \in Seq(Line)
    OBVIOUS
  <2>2. Collected(Append(b, x)) = CollectLine(Collected(b), x)
    BY <2>1, CollectedOnce
  <2>3. CollectLine(Collected(b), x) \in CollectState
    BY <2>1, CollectStep DEF Collects
  <2> QED BY <2>1, <2>2, <2>3
<1>3. S \subseteq Seq(Line)
  OBVIOUS
<1> HIDE DEF S
<1>4. S = Seq(Line)
  BY <1>1, <1>2, <1>3, ByTheLast
<1> QED BY <1>4 DEF S

LEMMA OneMore ==
  ASSUME NEW a \in Seq(Line), NEW x \in Line
  PROVE  Collects(Collected(Append(a, x)), Collected(a), x)
BY CollectedState, CollectedOnce, CollectStep

LEMMA NoneOpens ==
  ASSUME NEW a \in Seq(Line), ~Fenced(Collected(a)), NEW x \in Line, ~FenceOpen(x)
  PROVE  Collected(Append(a, x)) = Collected(a)
BY OneMore DEF Collects

-----------------------------------------------------------------------------
(* What the cleanup makes of a line: the fences stay where they are. *)
Matches(c, s) == c \in CleanState /\ c.fence = s.fence /\ Collected(c.out) = s

Cleans(d, c, x) ==
  /\ ToSet(c.out) \subseteq ToSet(d.out)
  /\ x.ch = "bar" => x \in ToSet(d.out)
  /\ ~Fenced(c) /\ ~FenceOpen(x) /\ x.ch # "" => Read(x) \in ToSet(d.out)
  /\ ~Fenced(c) /\ x = Blank => d.out = c.out

LEMMA Pushed ==
  ASSUME NEW c \in CleanState, ~Fenced(Collected(c.out)), NEW x \in Line, NEW d, d = Push(c, x)
  PROVE  /\ d \in CleanState /\ d.fence = c.fence
         /\ Collected(d.out) = CollectLine(Collected(c.out), x)
         /\ ToSet(c.out) \subseteq ToSet(d.out) /\ x \in ToSet(d.out)
<1>1. c.out \in Seq(Line) /\ c.blank \in BOOLEAN /\ c.fence \in Fences /\ Blank \in Line
  BY BlankFacts DEF CleanState
<1>2. PICK base : base = IF c.blank THEN Append(c.out, Blank) ELSE c.out
  OBVIOUS
<1>3. base \in Seq(Line) /\ ToSet(c.out) \subseteq ToSet(base) /\ Collected(base) = Collected(c.out)
  <2>1. CASE c.blank
    <3>1. base = Append(c.out, Blank) /\ base \in Seq(Line)
      BY <1>1, <1>2, <2>1
    <3>2. ToSet(base) = ToSet(c.out) \cup {Blank}
      BY <1>1, <3>1, AppendSet
    <3>3. Collected(base) = Collected(c.out)
      BY <1>1, <3>1, BlankFacts, NoneOpens
    <3> QED BY <3>1, <3>2, <3>3
  <2>2. CASE ~c.blank
    <3>1. base = c.out
      BY <1>2, <2>2
    <3> QED BY <1>1, <3>1
  <2> QED BY <2>1, <2>2
<1>4. base \o <<x>> = Append(base, x) /\ Append(base, x) \in Seq(Line)
  BY <1>3
<1>5. d = [c EXCEPT !.out = base \o <<x>>, !.blank = FALSE]
  BY <1>2 DEF Push
<1>6. d.out = Append(base, x) /\ d.fence = c.fence /\ d \in CleanState
  BY <1>1, <1>4, <1>5 DEF CleanState
<1>7. ToSet(d.out) = ToSet(base) \cup {x}
  BY <1>3, <1>6, AppendSet
<1>8. Collected(d.out) = CollectLine(Collected(base), x)
  BY <1>3, <1>6, CollectedOnce
<1> QED BY <1>3, <1>6, <1>7, <1>8

LEMMA CleanStep ==
  ASSUME NEW c, NEW s \in CollectState, Matches(c, s), NEW x \in Line
  PROVE  Matches(CleanLine(c, x), CollectLine(s, x)) /\ Cleans(CleanLine(c, x), c, x)
<1>0. PICK d, t : d = CleanLine(c, x) /\ t = CollectLine(s, x)
  OBVIOUS
<1>1. /\ c \in CleanState /\ c.fence = s.fence /\ Collected(c.out) = s
      /\ c.out \in Seq(Line) /\ c.blank \in BOOLEAN /\ c.fence \in Fences
      /\ (Fenced(c) <=> Fenced(s))
  BY DEF Matches, CleanState, Fenced
<1>2. Collects(t, s, x)
  BY <1>0, CollectStep
<1>3. x.ch = "bar" => ~FenceOpen(x) /\ Read(x) = x
  BY DEF FenceOpen, Read
<1>4. x = Blank => x.ch = "" /\ ~FenceOpen(x)
  BY BlankFacts
<1>5. CASE Fenced(c)
  <2>1. d = [c EXCEPT !.out = Append(@, x),
                      !.fence = IF FenceClose(x, @) THEN NoFence ELSE @]
    BY <1>0, <1>5 DEF CleanLine
  <2>2. /\ d.out = Append(c.out, x) /\ d.blank = c.blank
        /\ d.fence = IF FenceClose(x, c.fence) THEN NoFence ELSE c.fence
        /\ Append(c.out, x) \in Seq(Line) /\ NoFence \in Fences
    BY <1>1, <2>1 DEF CleanState, Fences
  <2>3. d \in CleanState
    BY <1>1, <2>1, <2>2 DEF CleanState
  <2>4. d.fence = t.fence
    BY <1>1, <1>2, <1>5, <2>2 DEF Collects, Fenced
  <2>5. Collected(d.out) = t
    BY <1>0, <1>1, <2>2, CollectedOnce
  <2>6. ToSet(d.out) = ToSet(c.out) \cup {x}
    BY <1>1, <2>2, AppendSet
  <2>7. Matches(d, t)
    BY <2>3, <2>4, <2>5 DEF Matches
  <2>8. Cleans(d, c, x)
    BY <1>5, <2>6 DEF Cleans
  <2> QED BY <1>0, <2>7, <2>8
<1>6. CASE ~Fenced(c) /\ FenceOpen(x)
  <2>1. PICK p : p = Push(c, x)
    OBVIOUS
  <2>2. /\ p \in CleanState /\ p.fence = c.fence
        /\ Collected(p.out) = t
        /\ ToSet(c.out) \subseteq ToSet(p.out) /\ x \in ToSet(p.out)
    BY <1>0, <1>1, <1>6, <2>1, Pushed
  <2>3. d = [p EXCEPT !.fence = FenceOf(x)]
    BY <1>0, <1>6, <2>1 DEF CleanLine
  <2>4. t.fence = FenceOf(x) /\ t.fence \in Fences
    BY <1>1, <1>2, <1>6 DEF Collects, CollectState
  <2>5. d \in CleanState /\ d.fence = t.fence /\ d.out = p.out
    BY <2>2, <2>3, <2>4 DEF CleanState
  <2>6. Matches(d, t)
    BY <2>2, <2>5 DEF Matches
  <2>7. Cleans(d, c, x)
    BY <1>4, <1>6, <2>2, <2>5 DEF Cleans
  <2> QED BY <1>0, <2>6, <2>7
<1>7. CASE ~Fenced(c) /\ ~FenceOpen(x)
  <2>0. t = s /\ ~Fenced(s)
    BY <1>1, <1>2, <1>7 DEF Collects
  <2>1. CASE x.ch = ""
    <3>1. d = [c EXCEPT !.blank = c.out # <<>>]
      BY <1>0, <1>7, <2>1 DEF CleanLine
    <3>2. d \in CleanState /\ d.out = c.out /\ d.fence = c.fence
      BY <1>1, <3>1 DEF CleanState
    <3>3. Matches(d, t)
      BY <1>1, <2>0, <3>2 DEF Matches
    <3>4. Cleans(d, c, x)
      BY <2>1, <3>2 DEF Cleans
    <3> QED BY <1>0, <3>3, <3>4
  <2>2. CASE x.ch # ""
    <3>1. PICK y : y = Read(x)
      OBVIOUS
    <3>2. y \in Line /\ ~FenceOpen(y)
      BY <1>7, <3>1, LineFacts DEF Read, CleanInline, FenceOpen, Line
    <3>3. d = Push(c, y)
      BY <1>0, <1>7, <2>2, <3>1 DEF CleanLine, Read
    <3>4. CollectLine(s, y) = s
      BY <2>0, <3>2, CollectStep DEF Collects
    <3>5. /\ d \in CleanState /\ d.fence = c.fence
          /\ Collected(d.out) = CollectLine(Collected(c.out), y)
          /\ ToSet(c.out) \subseteq ToSet(d.out) /\ y \in ToSet(d.out)
      BY <1>1, <2>0, <3>2, <3>3, Pushed
    <3>6. Matches(d, t)
      BY <1>1, <2>0, <3>4, <3>5 DEF Matches
    <3>7. Cleans(d, c, x)
      BY <1>3, <1>4, <2>2, <3>1, <3>5 DEF Cleans
    <3> QED BY <1>0, <3>6, <3>7
  <2> QED BY <2>1, <2>2
<1> QED BY <1>5, <1>6, <1>7

LEMMA CleanedMatches ==
  ASSUME NEW a \in Seq(Line)
  PROVE  Matches(Cleaned(a), Collected(a))
<1> DEFINE S == {x \in Seq(Line) : Matches(Cleaned(x), Collected(x))}
<1>1. <<>> \in S
  <2>1. <<>> \in Seq(Line) /\ NoFence \in Fences
    BY DEF Fences
  <2>2. CleanStart \in CleanState /\ CleanStart.out = <<>> /\ CleanStart.fence = CollectStart.fence
    BY <2>1 DEF CleanState, CleanStart, CollectStart
  <2>3. Matches(CleanStart, CollectStart)
    BY <2>2, CollectedNone DEF Matches
  <2> QED BY <2>1, <2>3, CleanedNone, CollectedNone
<1>2. \A b \in S : \A x \in Line : Append(b, x) \in S
  <2> SUFFICES ASSUME NEW b \in S, NEW x \in Line PROVE Append(b, x) \in S
    OBVIOUS
  <2>1. b \in Seq(Line) /\ Matches(Cleaned(b), Collected(b)) /\ Append(b, x) \in Seq(Line)
    OBVIOUS
  <2>2. /\ Collected(Append(b, x)) = CollectLine(Collected(b), x)
        /\ Cleaned(Append(b, x)) = CleanLine(Cleaned(b), x)
        /\ Collected(b) \in CollectState
    BY <2>1, CollectedOnce, CleanedOnce, CollectedState
  <2>3. Matches(CleanLine(Cleaned(b), x), CollectLine(Collected(b), x))
    BY <2>1, <2>2, CleanStep
  <2> QED BY <2>1, <2>2, <2>3
<1>3. S \subseteq Seq(Line)
  OBVIOUS
<1> HIDE DEF S
<1>4. S = Seq(Line)
  BY <1>1, <1>2, <1>3, ByTheLast
<1> QED BY <1>4 DEF S

LEMMA CleanMore ==
  ASSUME NEW a \in Seq(Line), NEW x \in Line
  PROVE  Cleans(Cleaned(Append(a, x)), Cleaned(a), x)
BY CleanedMatches, CleanedOnce, CleanStep, CollectedState

LEMMA SameFence ==
  ASSUME NEW a \in Seq(Line)
  PROVE  /\ Cleaned(a).out \in Seq(Line) /\ (Fenced(Cleaned(a)) <=> Fenced(Collected(a)))
         /\ Collected(CleanMarkdown(a)) = Collected(a)
BY CleanedMatches DEF Matches, Fenced, CleanMarkdown, CleanState

(* The rows and the fences of a page are those of its cleaned markdown. *)
LEMMA BarsStay ==
  ASSUME NEW a \in Seq(Line)
  PROVE  \A x \in ToSet(a) : x.ch = "bar" => x \in ToSet(CleanMarkdown(a))
<1> DEFINE S == {b \in Seq(Line) : \A x \in ToSet(b) : x.ch = "bar" => x \in ToSet(Cleaned(b).out)}
<1>1. <<>> \in S
  <2>1. <<>> \in Seq(Line)
    OBVIOUS
  <2> QED BY <2>1, Empties
<1>2. \A b \in S : \A x \in Line : Append(b, x) \in S
  <2> SUFFICES ASSUME NEW b \in S, NEW x \in Line PROVE Append(b, x) \in S
    OBVIOUS
  <2>1. /\ b \in Seq(Line) /\ Append(b, x) \in Seq(Line)
        /\ \A y \in ToSet(b) : y.ch = "bar" => y \in ToSet(Cleaned(b).out)
    OBVIOUS
  <2>2. ToSet(Append(b, x)) = ToSet(b) \cup {x}
    BY <2>1, AppendSet
  <2>3. /\ ToSet(Cleaned(b).out) \subseteq ToSet(Cleaned(Append(b, x)).out)
        /\ x.ch = "bar" => x \in ToSet(Cleaned(Append(b, x)).out)
    BY <2>1, CleanMore DEF Cleans
  <2> QED BY <2>1, <2>2, <2>3
<1>3. S \subseteq Seq(Line)
  OBVIOUS
<1> HIDE DEF S
<1>4. S = Seq(Line)
  BY <1>1, <1>2, <1>3, ByTheLast
<1> QED BY <1>4 DEF S, CleanMarkdown

LEMMA FencesStay ==
  ASSUME NEW a \in Seq(Line)
  PROVE  FencedBlocks(CleanMarkdown(a)) = FencedBlocks(a)
BY SameFence DEF FencedBlocks

-----------------------------------------------------------------------------
(* Lines after others. *)
LEMMA CleanGrows ==
  ASSUME NEW a \in Seq(Line), NEW b \in Seq(Line)
  PROVE  ToSet(Cleaned(a).out) \subseteq ToSet(Cleaned(a \o b).out)
<1> DEFINE S == {c \in Seq(Line) : ToSet(Cleaned(a).out) \subseteq ToSet(Cleaned(a \o c).out)}
<1>1. <<>> \in S
  <2>1. <<>> \in Seq(Line) /\ a \o <<>> = a
    OBVIOUS
  <2> QED BY <2>1
<1>2. \A c \in S : \A x \in Line : Append(c, x) \in S
  <2> SUFFICES ASSUME NEW c \in S, NEW x \in Line PROVE Append(c, x) \in S
    OBVIOUS
  <2>1. /\ c \in Seq(Line) /\ Append(c, x) \in Seq(Line) /\ a \o c \in Seq(Line)
        /\ ToSet(Cleaned(a).out) \subseteq ToSet(Cleaned(a \o c).out)
        /\ a \o Append(c, x) = Append(a \o c, x)
    OBVIOUS
  <2>2. ToSet(Cleaned(a \o c).out) \subseteq ToSet(Cleaned(Append(a \o c, x)).out)
    BY <2>1, CleanMore DEF Cleans
  <2> QED BY <2>1, <2>2
<1>3. S \subseteq Seq(Line)
  OBVIOUS
<1> HIDE DEF S
<1>4. S = Seq(Line)
  BY <1>1, <1>2, <1>3, ByTheLast
<1> QED BY <1>4 DEF S

(* Lines of which none opens a fence change none, and are read as they are. *)
Plain(b) == \A x \in ToSet(b) : ~FenceOpen(x)
ReadIn(b, a) == \A x \in ToSet(b) : x.ch # "" => Read(x) \in ToSet(Cleaned(a).out)

LEMMA PlainRun ==
  ASSUME NEW a \in Seq(Line), ~Fenced(Collected(a)), NEW b \in Seq(Line), Plain(b)
  PROVE  Collected(a \o b) = Collected(a) /\ ReadIn(b, a \o b)
<1> DEFINE S == {c \in Seq(Line) :
                   Plain(c) => Collected(a \o c) = Collected(a) /\ ReadIn(c, a \o c)}
<1>1. <<>> \in S
  <2>1. <<>> \in Seq(Line) /\ a \o <<>> = a
    OBVIOUS
  <2> QED BY <2>1, Empties DEF ReadIn
<1>2. \A c \in S : \A x \in Line : Append(c, x) \in S
  <2> SUFFICES ASSUME NEW c \in S, NEW x \in Line, Plain(Append(c, x))
               PROVE  /\ Collected(a \o Append(c, x)) = Collected(a)
                      /\ ReadIn(Append(c, x), a \o Append(c, x))
    OBVIOUS
  <2>1. c \in Seq(Line) /\ ToSet(Append(c, x)) = ToSet(c) \cup {x}
    BY AppendSet
  <2>2. Plain(c) /\ ~FenceOpen(x)
    BY <2>1 DEF Plain
  <2>3. Collected(a \o c) = Collected(a) /\ ReadIn(c, a \o c)
    BY <2>2
  <2>4. a \o c \in Seq(Line) /\ a \o Append(c, x) = Append(a \o c, x)
    BY <2>1
  <2>5. PICK d : d = a \o c
    OBVIOUS
  <2>6. d \in Seq(Line) /\ ~Fenced(Collected(d)) /\ Collected(d) = Collected(a) /\ ReadIn(c, d)
    BY <2>3, <2>4, <2>5
  <2>7. Collected(Append(d, x)) = Collected(a)
    BY <2>2, <2>6, NoneOpens
  <2>8. /\ ToSet(Cleaned(d).out) \subseteq ToSet(Cleaned(Append(d, x)).out)
        /\ x.ch # "" => Read(x) \in ToSet(Cleaned(Append(d, x)).out)
    BY <2>2, <2>6, CleanMore, SameFence DEF Cleans
  <2>9. ReadIn(Append(c, x), Append(d, x))
    BY <2>1, <2>6, <2>8 DEF ReadIn
  <2> QED BY <2>4, <2>5, <2>7, <2>9
<1>3. S \subseteq Seq(Line)
  OBVIOUS
<1> HIDE DEF S
<1>4. S = Seq(Line)
  BY <1>1, <1>2, <1>3, ByTheLast
<1> QED BY <1>4 DEF S

(* Lines of which none closes the fence are of its block. *)
Inside(b, fence) == \A x \in ToSet(b) : ~FenceClose(x, fence)
LEMMA FencedRun ==
  ASSUME NEW a \in Seq(Line), Fenced(Collected(a)), NEW b \in Seq(Line),
         Inside(b, Collected(a).fence)
  PROVE  /\ Collected(a \o b).blocks = Collected(a).blocks
         /\ Collected(a \o b).open = Collected(a).open \o b
         /\ Collected(a \o b).fence = Collected(a).fence
<1> DEFINE Runs0(c) == /\ Collected(a \o c).blocks = Collected(a).blocks
                       /\ Collected(a \o c).open = Collected(a).open \o c
                       /\ Collected(a \o c).fence = Collected(a).fence
           S == {c \in Seq(Line) : Inside(c, Collected(a).fence) => Runs0(c)}
<1>0. Collected(a).open \in Seq(Line)
  BY CollectedState DEF CollectState
<1>1. <<>> \in S
  <2>1. <<>> \in Seq(Line) /\ a \o <<>> = a /\ Collected(a).open \o <<>> = Collected(a).open
    BY <1>0
  <2> QED BY <2>1
<1> HIDE DEF Runs0
<1>2. \A c \in S : \A x \in Line : Append(c, x) \in S
  <2> SUFFICES ASSUME NEW c \in S, NEW x \in Line, Inside(Append(c, x), Collected(a).fence)
               PROVE  Runs0(Append(c, x))
    OBVIOUS
  <2>1. c \in Seq(Line) /\ ToSet(Append(c, x)) = ToSet(c) \cup {x}
    BY AppendSet
  <2>2. Inside(c, Collected(a).fence) /\ ~FenceClose(x, Collected(a).fence)
    BY <2>1 DEF Inside
  <2>3. Runs0(c)
    BY <2>2
  <2>4. a \o c \in Seq(Line) /\ a \o Append(c, x) = Append(a \o c, x)
    BY <2>1
  <2>5. PICK d : d = a \o c
    OBVIOUS
  <2>6. /\ d \in Seq(Line) /\ Fenced(Collected(d)) /\ ~FenceClose(x, Collected(d).fence)
        /\ Collected(d).blocks = Collected(a).blocks /\ Collected(d).fence = Collected(a).fence
        /\ Collected(d).open = Collected(a).open \o c
    BY <2>2, <2>3, <2>4, <2>5 DEF Fenced, Runs0
  <2>7. PICK e : e = Append(d, x)
    OBVIOUS
  <2>8. Collects(Collected(e), Collected(d), x)
    BY <2>6, <2>7, OneMore
  <2>9. /\ Collected(e).blocks = Collected(d).blocks /\ Collected(e).fence = Collected(d).fence
        /\ Collected(e).open = Append(Collected(d).open, x)
    BY <2>6, <2>8 DEF Collects
  <2>10. Append(Collected(a).open \o c, x) = Collected(a).open \o Append(c, x)
    <3>1. PICK o : o = Collected(a).open
      OBVIOUS
    <3>2. o \in Seq(Line)
      BY <1>0, <3>1
    <3>3. o \o Append(c, x) = Append(o \o c, x)
      BY <2>1, <3>2, ConcatLast
    <3> QED BY <3>1, <3>3
  <2>11. a \o Append(c, x) = e
    BY <2>4, <2>5, <2>7
  <2> QED BY <2>6, <2>9, <2>10, <2>11 DEF Runs0
<1>3. S \subseteq Seq(Line)
  OBVIOUS
<1> HIDE DEF S
<1>4. S = Seq(Line)
  BY <1>1, <1>2, <1>3, ByTheLast
<1>5. Runs0(b)
  BY <1>4 DEF S
<1> QED BY <1>5 DEF Runs0

-----------------------------------------------------------------------------
(* A block holds what one of its parts holds. *)
LEMMA HeldInMore ==
  ASSUME NEW a \in Seq(Line), NEW x \in Line, NEW code \in Seq(Line), HoldsBlock(a, code)
  PROVE  HoldsBlock(Append(a, x), code)
<1>1. PICK i \in 1..Len(a) : /\ i + Len(code) - 1 <= Len(a)
                             /\ SubSeq(a, i, i + Len(code) - 1) = code
  BY DEF HoldsBlock
<1>2. PICK b, j : b = Append(a, x) /\ j = i + Len(code) - 1
  OBVIOUS
<1>3. /\ Len(a) \in Nat /\ b \in Seq(Line) /\ Len(b) = Len(a) + 1 /\ i \in 1..Len(b)
      /\ i + Len(code) - 1 <= Len(b) /\ Len(code) \in Nat /\ j \in Int /\ j <= Len(a)
      /\ \A k \in 1..Len(a) : b[k] = a[k]
  BY <1>1, <1>2
<1>4. SubSeq(b, i, j) = SubSeq(a, i, j)
  <2>1. \A k \in i..j : k \in 1..Len(a) /\ a[k] \in Line /\ b[k] = a[k]
    BY <1>1, <1>3
  <2>2. SubSeq(a, i, j) = [k \in 1..(1 + j - i) |-> a[i + k - 1]]
    BY <1>3
  <2>3. SubSeq(b, i, j) = [k \in 1..(1 + j - i) |-> b[i + k - 1]]
    BY <1>3
  <2>4. \A k \in 1..(1 + j - i) : b[i + k - 1] = a[i + k - 1]
    <3> SUFFICES ASSUME NEW k \in 1..(1 + j - i) PROVE b[i + k - 1] = a[i + k - 1]
      OBVIOUS
    <3>1. i + k - 1 \in i..j
      BY <1>3
    <3> QED BY <2>1, <3>1
  <2> QED BY <2>2, <2>3, <2>4
<1>5. HoldsBlock(b, code)
  BY <1>1, <1>2, <1>3, <1>4 DEF HoldsBlock
<1> QED BY <1>2, <1>5

LEMMA HeldInside ==
  ASSUME NEW u \in Seq(Line), NEW code \in Seq(Line), NEW x \in Line
  PROVE  HoldsBlock(Append(u \o code, x), code)
<1>1. PICK b, n, m : b = Append(u \o code, x) /\ n = Len(u) /\ m = Len(code)
  OBVIOUS
<1>2. /\ b \in Seq(Line) /\ n \in Nat /\ m \in Nat /\ Len(b) = n + m + 1
      /\ \A k \in 1..m : b[n + k] = code[k]
  <2>1. PICK c : c = u \o code
    OBVIOUS
  <2>2. c \in Seq(Line) /\ Len(c) = n + m /\ n \in Nat /\ m \in Nat
        /\ \A k \in 1..m : c[n + k] = code[k]
    BY <1>1, <2>1
  <2>3. b = Append(c, x)
    BY <1>1, <2>1
  <2>4. b \in Seq(Line) /\ Len(b) = n + m + 1 /\ \A k \in 1..n + m : b[k] = c[k]
    BY <2>2, <2>3
  <2>5. \A k \in 1..m : n + k \in 1..n + m
    BY <2>2
  <2> QED BY <2>2, <2>4, <2>5
<1>3. PICK i, j : i = n + 1 /\ j = n + m
  OBVIOUS
<1>4. i \in 1..Len(b) /\ j = i + m - 1 /\ j <= Len(b) /\ i \in Int /\ j \in Int /\ 1 + j - i = m
  <2>1. PICK L : L = Len(b)
    OBVIOUS
  <2>2. L = n + m + 1 /\ n \in Nat /\ m \in Nat
    BY <1>2, <2>1
  <2>3. i \in 1..L /\ j = i + m - 1 /\ j <= L /\ i \in Int /\ j \in Int /\ 1 + j - i = m
    BY <1>3, <2>2
  <2> QED BY <2>1, <2>3
<1>5. SubSeq(b, i, j) = [k \in 1..m |-> b[i + k - 1]]
  BY <1>2, <1>4
<1>6. \A k \in 1..m : i + k - 1 = n + k
  BY <1>2, <1>3
<1>7. [k \in 1..m |-> b[i + k - 1]] = [k \in 1..m |-> code[k]]
  BY <1>2, <1>6
<1>8. code = [k \in 1..m |-> code[k]]
  BY <1>1
<1>9. SubSeq(b, i, i + m - 1) = code
  BY <1>4, <1>5, <1>7, <1>8
<1>10. HoldsBlock(b, code)
  BY <1>1, <1>4, <1>9 DEF HoldsBlock
<1> QED BY <1>1, <1>10

(* Some block of the scanner's state holds the code: it always will. *)
Holds(s, code) == \E block \in ToSet(s.blocks) \cup LastBlock(s) : HoldsBlock(block, code)
LEMMA HoldsStep ==
  ASSUME NEW s \in CollectState, NEW x \in Line, NEW t, Collects(t, s, x),
         NEW code \in Seq(Line), Holds(s, code)
  PROVE  Holds(t, code)
<1>0. s.blocks \in Seq(Seq(Line)) /\ s.open \in Seq(Line) /\ Append(s.open, x) \in Seq(Line)
  BY DEF CollectState
<1>1. PICK block \in ToSet(s.blocks) \cup LastBlock(s) : HoldsBlock(block, code)
  BY DEF Holds
<1>2. CASE ~Fenced(s)
  <2>1. block \in ToSet(s.blocks) /\ t.blocks = s.blocks
    BY <1>1, <1>2 DEF LastBlock, Collects
  <2> QED BY <1>1, <2>1 DEF Holds
<1>3. CASE Fenced(s) /\ FenceClose(x, s.fence)
  <2>1. t.blocks = Append(s.blocks, Append(s.open, x))
    BY <1>3 DEF Collects
  <2>2. ToSet(t.blocks) = ToSet(s.blocks) \cup {Append(s.open, x)}
    <3>1. PICK old, new : old = s.blocks /\ new = Append(s.open, x)
      OBVIOUS
    <3>2. old \in Seq(Seq(Line)) /\ new \in Seq(Line)
      BY <1>0, <3>1
    <3>3. ToSet(Append(old, new)) = ToSet(old) \cup {new}
      BY <3>2, AppendSet
    <3> QED BY <2>1, <3>1, <3>3
  <2>3. block \in LastBlock(s) => HoldsBlock(Append(s.open, x), code)
    <3>1. block \in LastBlock(s) => block = s.open
      BY DEF LastBlock
    <3> QED BY <1>0, <1>1, <3>1, HeldInMore
  <2> QED BY <1>1, <2>2, <2>3 DEF Holds
<1>4. CASE Fenced(s) /\ ~FenceClose(x, s.fence)
  <2>1. t.blocks = s.blocks /\ t.open = Append(s.open, x) /\ LastBlock(t) = {t.open}
    BY <1>4 DEF Collects, LastBlock, Fenced
  <2>2. block \in LastBlock(s) => HoldsBlock(Append(s.open, x), code)
    <3>1. block \in LastBlock(s) => block = s.open
      BY DEF LastBlock
    <3> QED BY <1>0, <1>1, <3>1, HeldInMore
  <2> QED BY <1>1, <2>1, <2>2 DEF Holds
<1> QED BY <1>2, <1>3, <1>4

LEMMA HoldsOn ==
  ASSUME NEW a \in Seq(Line), NEW code \in Seq(Line), Holds(Collected(a), code),
         NEW b \in Seq(Line)
  PROVE  Holds(Collected(a \o b), code)
<1> DEFINE S == {c \in Seq(Line) : Holds(Collected(a \o c), code)}
<1>1. <<>> \in S
  <2>1. <<>> \in Seq(Line) /\ a \o <<>> = a
    OBVIOUS
  <2> QED BY <2>1
<1>2. \A c \in S : \A x \in Line : Append(c, x) \in S
  <2> SUFFICES ASSUME NEW c \in S, NEW x \in Line PROVE Append(c, x) \in S
    OBVIOUS
  <2>1. /\ c \in Seq(Line) /\ Append(c, x) \in Seq(Line) /\ a \o c \in Seq(Line)
        /\ Holds(Collected(a \o c), code)
        /\ a \o Append(c, x) = Append(a \o c, x)
    OBVIOUS
  <2>2. Collected(a \o c) \in CollectState
    BY <2>1, CollectedState
  <2>3. Collects(Collected(Append(a \o c, x)), Collected(a \o c), x)
    BY <2>1, OneMore
  <2>4. Holds(Collected(Append(a \o c, x)), code)
    BY <2>1, <2>2, <2>3, HoldsStep
  <2> QED BY <2>1, <2>4
<1>3. S \subseteq Seq(Line)
  OBVIOUS
<1> HIDE DEF S
<1>4. S = Seq(Line)
  BY <1>1, <1>2, <1>3, ByTheLast
<1> QED BY <1>4 DEF S

-----------------------------------------------------------------------------
(* A block of code in its fences. *)
Region(inner) == Append(<<FenceAround(inner)>> \o inner, FenceAround(inner))

LEMMA LongestIs ==
  ASSUME NEW inner \in Seq(Line)
  PROVE  /\ Longest(inner) \in Nat /\ Longest(inner) >= 2
         /\ \A x \in ToSet(inner) : x.ch = "tick" => x.run <= Longest(inner)
<1> DEFINE Greatest(a, n) == n \in Runs(a) /\ \A m \in Runs(a) : m <= n
           S == {a \in Seq(Line) : \E n : Greatest(a, n)}
<1>0. ASSUME NEW a \in Seq(Line) PROVE Runs(a) \subseteq Nat
  <2>1. \A x \in ToSet(a) : x.run \in Nat
    BY ElementsOf, LineFacts
  <2> QED BY <2>1 DEF Runs
<1>1. <<>> \in S
  <2>1. <<>> \in Seq(Line)
    OBVIOUS
  <2>2. Runs(<<>>) = {2}
    BY Empties DEF Runs
  <2>3. Greatest(<<>>, 2)
    BY <2>2
  <2> HIDE DEF Greatest
  <2> QED BY <2>1, <2>3
<1>2. \A a \in S : \A x \in Line : Append(a, x) \in S
  <2> SUFFICES ASSUME NEW a \in S, NEW x \in Line PROVE Append(a, x) \in S
    OBVIOUS
  <2>1. a \in Seq(Line) /\ Append(a, x) \in Seq(Line) /\ \E n : Greatest(a, n)
    OBVIOUS
  <2>2. PICK n : Greatest(a, n)
    BY <2>1
  <2>3. PICK b : b = Append(a, x)
    OBVIOUS
  <2>4. ToSet(b) = ToSet(a) \cup {x}
    BY <2>1, <2>3, AppendSet
  <2>5. Runs(b) = IF x.ch = "tick" THEN Runs(a) \cup {x.run} ELSE Runs(a)
    BY <2>4 DEF Runs
  <2>6. n \in Nat /\ x.run \in Nat /\ Runs(a) \subseteq Nat /\ n \in Runs(a)
        /\ \A m \in Runs(a) : m <= n
    BY <1>0, <2>1, <2>2, LineFacts
  <2>7. CASE x.ch = "tick" /\ x.run > n
    <3>1. Greatest(b, x.run)
      BY <2>5, <2>6, <2>7
    <3> HIDE DEF Greatest
    <3> QED BY <2>1, <2>3, <3>1
  <2>8. CASE ~(x.ch = "tick" /\ x.run > n)
    <3>1. Greatest(b, n)
      BY <2>5, <2>6, <2>8
    <3> HIDE DEF Greatest
    <3> QED BY <2>1, <2>3, <3>1
  <2> QED BY <2>7, <2>8
<1>3. S \subseteq Seq(Line)
  OBVIOUS
<1> HIDE DEF S
<1>4. S = Seq(Line)
  BY <1>1, <1>2, <1>3, ByTheLast
<1>5. \E n \in Runs(inner) : \A m \in Runs(inner) : m <= n
  BY <1>4 DEF S
<1>6. Longest(inner) \in Runs(inner) /\ \A m \in Runs(inner) : m <= Longest(inner)
  BY <1>5 DEF Longest
<1>7. 2 \in Runs(inner) /\ \A x \in ToSet(inner) : x.ch = "tick" => x.run \in Runs(inner)
  BY DEF Runs
<1>8. Longest(inner) \in Nat
  BY <1>0, <1>6
<1> QED BY <1>6, <1>7, <1>8

LEMMA FenceFacts ==
  ASSUME NEW inner \in Seq(Line)
  PROVE  LET fence == FenceAround(inner) IN
         /\ fence \in Line /\ fence.ch = "tick" /\ FenceOpen(fence)
         /\ FenceClose(fence, FenceOf(fence))
         /\ FenceOf(fence).ch = "tick" /\ FenceOf(fence).run = Longest(inner) + 1
         /\ FenceOf(fence).run >= 3
         /\ fence # Blank
<1>1. PICK n : n = Longest(inner) + 1
  OBVIOUS
<1>2. n \in Nat /\ n >= 3
  BY <1>1, LongestIs
<1>3. PICK f : f = Fence(n)
  OBVIOUS
<1>4. /\ f \in Line /\ f.ch = "tick" /\ f.run = n /\ f.tail = "" /\ FenceOf(f).ch = "tick"
      /\ FenceOf(f).run = n /\ f # Blank
  BY <1>2, <1>3 DEF Fence, Line, FenceOf, Blank
<1>5. FenceOpen(f) /\ FenceClose(f, FenceOf(f))
  <2>1. f.ch = "tick" /\ f.run = n /\ f.tail = "" /\ n \in Nat /\ n >= 3
    BY <1>2, <1>4
  <2>2. FenceOf(f).ch = "tick" /\ FenceOf(f).run = n
    BY <1>4
  <2>3. FenceOpen(f)
    BY <2>1 DEF FenceOpen
  <2>4. FenceClose(f, FenceOf(f))
    <3>1. PICK fence : fence = FenceOf(f)
      OBVIOUS
    <3>2. f.ch = fence.ch /\ f.run >= fence.run /\ f.tail = ""
      <4>1. fence.ch = "tick" /\ fence.run = n
        BY <2>2, <3>1, Zenon
      <4>2. n >= n
        BY <1>2
      <4> QED BY <2>1, <4>1, <4>2, Zenon
    <3>3. FenceClose(f, fence)
      BY <3>2 DEF FenceClose
    <3> QED BY <3>1, <3>3
  <2> QED BY <2>3, <2>4
<1>6. FenceAround(inner) = f
  BY <1>1, <1>3 DEF FenceAround
<1> QED BY <1>1, <1>2, <1>4, <1>5, <1>6

(* No line of the code closes a fence as long as its own. *)
LEMMA CodeInside ==
  ASSUME NEW inner \in Seq(Line), NEW fence, fence.ch = "tick", fence.run \in Nat,
         fence.run > Longest(inner)
  PROVE  Inside(inner, fence)
<1> SUFFICES ASSUME NEW x \in ToSet(inner), FenceClose(x, fence) PROVE FALSE
  BY DEF Inside
<1>1. x.ch = "tick" /\ x.run >= fence.run /\ x.run \in Nat
  BY ElementsOf, LineFacts DEF FenceClose
<1>2. x.run <= Longest(inner) /\ Longest(inner) \in Nat
  BY <1>1, LongestIs
<1> QED BY <1>1, <1>2

LEMMA RegionLines ==
  ASSUME NEW a \in Seq(Line), NEW inner \in Seq(Line)
  PROVE  /\ Region(inner) \in Seq(Line) /\ Len(Region(inner)) = Len(inner) + 2
         /\ a \o Region(inner) = Append(Append(a, FenceAround(inner)) \o inner, FenceAround(inner))
         /\ Region(inner)[1] = FenceAround(inner)
         /\ Region(inner)[Len(inner) + 2] = FenceAround(inner)
         /\ \A i \in 1..Len(inner) : Region(inner)[i + 1] = inner[i]
<1>1. PICK f : f = FenceAround(inner)
  OBVIOUS
<1>2. f \in Line
  BY <1>1, FenceFacts
<1>3. PICK p : p = <<f>>
  OBVIOUS
<1>4. p \in Seq(Line) /\ Len(p) = 1 /\ p[1] = f /\ a \o p = Append(a, f)
  BY <1>2, <1>3
<1>5. PICK q : q = p \o inner
  OBVIOUS
<1>6. q \in Seq(Line) /\ Len(q) = Len(inner) + 1 /\ q[1] = f /\ Len(inner) \in Nat
      /\ \A i \in 1..Len(inner) : q[i + 1] = inner[i]
  <2>1. /\ q \in Seq(Line) /\ Len(q) = 1 + Len(inner) /\ q[1] = f /\ Len(inner) \in Nat
        /\ \A i \in 1..Len(inner) : q[1 + i] = inner[i]
    BY <1>4, <1>5
  <2>2. \A i \in 1..Len(inner) : i + 1 = 1 + i
    OBVIOUS
  <2> QED BY <2>1, <2>2
<1>7. PICK r : r = Append(q, f)
  OBVIOUS
<1>8. r \in Seq(Line) /\ Len(r) = Len(inner) + 2 /\ r[1] = f /\ r[Len(inner) + 2] = f
      /\ \A i \in 1..Len(inner) : r[i + 1] = inner[i]
  <2>1. /\ r \in Seq(Line) /\ Len(r) = Len(q) + 1 /\ r[Len(q) + 1] = f
        /\ \A i \in 1..Len(q) : r[i] = q[i]
    BY <1>2, <1>6, <1>7
  <2>2. PICK m : m = Len(inner)
    OBVIOUS
  <2>3. m \in Nat /\ Len(q) = m + 1 /\ m + 2 = (m + 1) + 1 /\ 1 \in 1..Len(q)
        /\ \A i \in 1..m : i + 1 \in 1..Len(q)
    BY <1>6, <2>2
  <2>4. r[1] = f
    BY <1>6, <2>1, <2>3
  <2>5. \A i \in 1..m : r[i + 1] = inner[i]
    BY <1>6, <2>1, <2>2, <2>3
  <2> QED BY <2>1, <2>2, <2>3, <2>4, <2>5
<1>9. a \o q = Append(a, f) \o inner
  <2>1. (a \o p) \o inner = a \o (p \o inner)
    <3>1. p \in Seq(Line)
      BY <1>4
    <3> QED BY <3>1, ConcatLines, Zenon
  <2> QED BY <1>4, <1>5, <2>1
<1>10. a \o r = Append(a \o q, f)
  BY <1>2, <1>6, <1>7, ConcatLast
<1>11. Region(inner) = r
  BY <1>1, <1>3, <1>5, <1>7 DEF Region
<1> QED BY <1>1, <1>8, <1>9, <1>10, <1>11

(* Outside every fence it is one more block. *)
LEMMA RegionCollected ==
  ASSUME NEW a \in Seq(Line), ~Fenced(Collected(a)), NEW inner \in Seq(Line)
  PROVE  /\ Collected(a \o Region(inner)).blocks = Append(Collected(a).blocks, Region(inner))
         /\ ~Fenced(Collected(a \o Region(inner)))
         /\ Fenced(Collected(Append(a, FenceAround(inner))))
         /\ Collected(Append(a, FenceAround(inner))).fence = FenceOf(FenceAround(inner))
         /\ Inside(inner, FenceOf(FenceAround(inner)))
<1>1. PICK f : f = FenceAround(inner)
  OBVIOUS
<1>2. /\ f \in Line /\ FenceOpen(f) /\ FenceClose(f, FenceOf(f)) /\ FenceOf(f).ch = "tick"
      /\ FenceOf(f).run = Longest(inner) + 1
  BY <1>1, FenceFacts
<1>3. PICK b : b = Append(a, f)
  OBVIOUS
<1>4. b \in Seq(Line) /\ Collects(Collected(b), Collected(a), f)
  BY <1>2, <1>3, OneMore
<1>5. /\ Collected(b).blocks = Collected(a).blocks /\ Collected(b).open = <<f>>
      /\ Collected(b).fence = FenceOf(f) /\ Fenced(Collected(b))
  BY <1>2, <1>4 DEF Collects
<1>6. Inside(inner, FenceOf(f))
  <2>1. Longest(inner) \in Nat
    BY LongestIs
  <2>2. FenceOf(f).run \in Nat /\ FenceOf(f).run > Longest(inner)
    BY <1>2, <2>1
  <2> QED BY <1>2, <2>2, CodeInside
<1>7. PICK c : c = b \o inner
  OBVIOUS
<1>8. /\ c \in Seq(Line) /\ Collected(c).blocks = Collected(a).blocks
      /\ Collected(c).open = <<f>> \o inner /\ Collected(c).fence = FenceOf(f)
  <2>1. b \in Seq(Line) /\ Fenced(Collected(b)) /\ Inside(inner, Collected(b).fence)
    BY <1>4, <1>5, <1>6
  <2>2. /\ Collected(b \o inner).blocks = Collected(b).blocks
        /\ Collected(b \o inner).open = Collected(b).open \o inner
        /\ Collected(b \o inner).fence = Collected(b).fence
    BY <2>1, FencedRun
  <2>3. b \o inner \in Seq(Line)
    BY <2>1
  <2> QED BY <1>5, <1>7, <2>2, <2>3
<1>9. Fenced(Collected(c)) /\ FenceClose(f, Collected(c).fence)
  BY <1>2, <1>5, <1>8 DEF Fenced
<1>10. PICK d : d = Append(c, f)
  OBVIOUS
<1>11. Collects(Collected(d), Collected(c), f)
  BY <1>2, <1>8, <1>10, OneMore
<1>12. Collected(d).blocks = Append(Collected(c).blocks, Append(Collected(c).open, f))
       /\ ~Fenced(Collected(d))
  BY <1>9, <1>11 DEF Collects
<1>13. Append(Collected(c).open, f) = Region(inner)
  BY <1>1, <1>8 DEF Region
<1>14. a \o Region(inner) = d
  BY <1>1, <1>3, <1>7, <1>10, RegionLines
<1> QED BY <1>1, <1>3, <1>5, <1>6, <1>8, <1>12, <1>13, <1>14

(* Inside a longer fence it is part of that block. *)
LEMMA RegionSwallowed ==
  ASSUME NEW a \in Seq(Line), Fenced(Collected(a)), Collected(a).fence.ch = "tick",
         NEW inner \in Seq(Line), ~FenceClose(FenceAround(inner), Collected(a).fence)
  PROVE  Holds(Collected(a \o Region(inner)), inner)
<1>1. PICK f, fence : f = FenceAround(inner) /\ fence = Collected(a).fence
  OBVIOUS
<1>2. /\ f \in Line /\ f.ch = "tick" /\ f.tail = "" /\ f.run = Longest(inner) + 1
      /\ ~FenceClose(f, fence) /\ fence.ch = "tick" /\ fence.run \in Nat
      /\ Collected(a).open \in Seq(Line)
  <2>1. f.tail = "" /\ f.run = Longest(inner) + 1
    BY <1>1 DEF FenceAround, Fence
  <2>2. Collected(a) \in CollectState
    BY CollectedState
  <2>3. fence \in Fences /\ fence # NoFence /\ Collected(a).open \in Seq(Line)
    BY <1>1, <2>2 DEF CollectState, Fenced
  <2>4. fence.run \in Nat
    BY <2>3 DEF Fences
  <2> QED BY <1>1, <2>1, <2>3, <2>4, FenceFacts
<1>3. fence.run > Longest(inner)
  <2>1. Longest(inner) \in Nat
    BY LongestIs
  <2>2. f.ch = fence.ch /\ f.tail = ""
    BY <1>2
  <2>3. ~(f.run >= fence.run)
    BY <1>2, <2>2 DEF FenceClose
  <2>4. f.run = Longest(inner) + 1 /\ fence.run \in Nat
    BY <1>2
  <2> QED BY <2>1, <2>3, <2>4
<1>4. Inside(inner, fence)
  BY <1>2, <1>3, CodeInside
<1>5. Region(inner) \in Seq(Line)
  BY RegionLines
<1>6. ToSet(Region(inner)) = ToSet(inner) \cup {f}
  <2>1. PICK p : p = <<f>>
    OBVIOUS
  <2>2. p \in Seq(Line) /\ ToSet(p) = {f}
    <3>1. f \in Line /\ Len(p) = 1 /\ p[1] = f
      BY <1>2, <2>1
    <3>2. p \in Seq(Line)
      BY <2>1, <3>1
    <3>3. DOMAIN p = {1}
      BY <2>1
    <3> QED BY <3>1, <3>2, <3>3 DEF ToSet
  <2>3. PICK q : q = p \o inner
    OBVIOUS
  <2>4. q \in Seq(Line) /\ ToSet(q) = {f} \cup ToSet(inner)
    BY <2>2, <2>3, ConcatSet
  <2>5. ToSet(Append(q, f)) = ToSet(q) \cup {f}
    <3>1. f \in Line /\ q \in Seq(Line)
      BY <1>2, <2>4
    <3> QED BY <3>1, AppendSet
  <2>6. Region(inner) = Append(q, f)
    BY <1>1, <2>1, <2>3 DEF Region
  <2> QED BY <2>4, <2>5, <2>6
<1>7. Inside(Region(inner), fence)
  BY <1>2, <1>4, <1>6 DEF Inside
<1>8. PICK s : s = Collected(a \o Region(inner))
  OBVIOUS
<1>9. s.open = Collected(a).open \o Region(inner) /\ s.fence = fence
  BY <1>1, <1>5, <1>7, <1>8, FencedRun
<1>10. Fenced(s)
  BY <1>1, <1>9 DEF Fenced
<1>11. HoldsBlock(s.open, inner)
  <2>1. PICK o, u : o = Collected(a).open /\ u = Append(o, f)
    OBVIOUS
  <2>2. o \in Seq(Line) /\ u \in Seq(Line)
    <3>1. f \in Line /\ o \in Seq(Line)
      BY <1>2, <2>1
    <3> QED BY <2>1, <3>1
  <2>3. o \o Region(inner) = Append(u \o inner, f)
    BY <1>1, <2>1, <2>2, RegionLines
  <2>4. HoldsBlock(Append(u \o inner, f), inner)
    BY <1>2, <2>2, HeldInside
  <2> QED BY <1>9, <2>1, <2>3, <2>4
<1> QED BY <1>8, <1>10, <1>11 DEF Holds, LastBlock

-----------------------------------------------------------------------------
(* Prefixes. *)
LEMMA PrefixIs ==
  ASSUME NEW T, NEW a \in Seq(T), NEW i \in 0..Len(a)
  PROVE  /\ SubSeq(a, 1, i) \in Seq(T) /\ Len(SubSeq(a, 1, i)) = i
         /\ \A k \in 1..i : SubSeq(a, 1, i)[k] = a[k]
<1>1. Len(a) \in Nat /\ i \in Nat /\ i <= Len(a) /\ \A k \in 1..i : a[k] \in T
  OBVIOUS
<1>2. PICK p : p = SubSeq(a, 1, i)
  OBVIOUS
<1>3. p = [k \in 1..i |-> a[k]]
  <2>1. p = [k \in 1..(1 + i - 1) |-> a[1 + k - 1]]
    BY <1>1, <1>2
  <2>2. 1 + i - 1 = i /\ \A k \in 1..i : 1 + k - 1 = k
    BY <1>1
  <2> QED BY <2>1, <2>2
<1>4. p \in [1..i -> T] /\ \A k \in 1..i : p[k] = a[k]
  BY <1>1, <1>3
<1>5. p \in Seq(T) /\ Len(p) = i
  BY <1>1, <1>4
<1> QED BY <1>2, <1>4, <1>5

LEMMA PrefixSet ==
  ASSUME NEW T, NEW a \in Seq(T), NEW i \in 0..Len(a)
  PROVE  ToSet(SubSeq(a, 1, i)) \subseteq ToSet(a)
<1>1. PICK p : p = SubSeq(a, 1, i)
  OBVIOUS
<1>2. p \in Seq(T) /\ Len(p) = i /\ (\A k \in 1..i : p[k] = a[k]) /\ i <= Len(a) /\ Len(a) \in Nat
  BY <1>1, PrefixIs
<1>3. DOMAIN p = 1..i /\ DOMAIN a = 1..Len(a) /\ 1..i \subseteq 1..Len(a)
  BY <1>2
<1>4. ToSet(p) \subseteq ToSet(a)
  BY <1>2, <1>3 DEF ToSet
<1> QED BY <1>1, <1>4

LEMMA PrefixWhole ==
  ASSUME NEW T, NEW a \in Seq(T)
  PROVE  SubSeq(a, 1, Len(a)) = a /\ SubSeq(a, 1, 0) = <<>>
<1>1. PICK p, q : p = SubSeq(a, 1, Len(a)) /\ q = SubSeq(a, 1, 0)
  OBVIOUS
<1>2. Len(a) \in 0..Len(a) /\ 0 \in 0..Len(a)
  OBVIOUS
<1>3. p \in Seq(T) /\ Len(p) = Len(a) /\ \A k \in 1..Len(a) : p[k] = a[k]
  BY <1>1, <1>2, PrefixIs
<1>4. p = a
  BY <1>3, SeqEqual
<1>5. q \in Seq(T) /\ Len(q) = 0
  BY <1>1, <1>2, PrefixIs
<1>6. q = <<>>
  BY <1>5
<1> QED BY <1>1, <1>4, <1>6

LEMMA ConcatPrefix ==
  ASSUME NEW T, NEW a \in Seq(T), NEW c \in Seq(T), NEW i \in 0..Len(a)
  PROVE  SubSeq(a \o c, 1, i) = SubSeq(a, 1, i)
<1>1. PICK b : b = a \o c
  OBVIOUS
<1>2. b \in Seq(T) /\ Len(b) = Len(a) + Len(c) /\ Len(a) \in Nat /\ Len(c) \in Nat
      /\ \A k \in 1..Len(a) : b[k] = a[k]
  BY <1>1
<1>3. i \in 0..Len(b) /\ 1..i \subseteq 1..Len(a)
  BY <1>2
<1>4. PICK p, q : p = SubSeq(b, 1, i) /\ q = SubSeq(a, 1, i)
  OBVIOUS
<1>5. p \in Seq(T) /\ Len(p) = i /\ \A k \in 1..i : p[k] = b[k]
  BY <1>2, <1>3, <1>4, PrefixIs
<1>6. q \in Seq(T) /\ Len(q) = i /\ \A k \in 1..i : q[k] = a[k]
  BY <1>4, PrefixIs
<1>7. Len(p) = Len(q) /\ \A k \in 1..Len(p) : p[k] = q[k]
  BY <1>2, <1>3, <1>5, <1>6
<1>8. p = q
  BY <1>5, <1>6, <1>7, SeqEqual
<1> QED BY <1>1, <1>4, <1>8

LEMMA ConcatPastIt ==
  ASSUME NEW T, NEW a \in Seq(T), NEW c \in Seq(T), NEW i \in 0..Len(c)
  PROVE  SubSeq(a \o c, 1, Len(a) + i) = a \o SubSeq(c, 1, i)
<1>1. PICK b, n, j : b = a \o c /\ n = Len(a) /\ j = Len(a) + i
  OBVIOUS
<1>2. /\ b \in Seq(T) /\ Len(b) = n + Len(c) /\ n \in Nat /\ Len(c) \in Nat /\ i \in Nat /\ i <= Len(c)
      /\ (\A k \in 1..n : b[k] = a[k]) /\ (\A k \in 1..Len(c) : b[n + k] = c[k])
  BY <1>1
<1>3. j \in 0..Len(b) /\ j = n + i
  BY <1>1, <1>2
<1>4. PICK p, q : p = SubSeq(b, 1, j) /\ q = SubSeq(c, 1, i)
  OBVIOUS
<1>5. p \in Seq(T) /\ Len(p) = j /\ \A k \in 1..j : p[k] = b[k]
  BY <1>2, <1>3, <1>4, PrefixIs
<1>6. q \in Seq(T) /\ Len(q) = i /\ \A k \in 1..i : q[k] = c[k]
  BY <1>4, PrefixIs
<1>7. PICK r : r = a \o q
  OBVIOUS
<1>8. /\ r \in Seq(T) /\ Len(r) = n + i /\ (\A k \in 1..n : r[k] = a[k])
      /\ \A k \in 1..i : r[n + k] = q[k]
  <2>1. q \in Seq(T)
    BY <1>6
  <2>2. /\ a \o q \in Seq(T) /\ Len(a \o q) = Len(a) + Len(q)
        /\ \A k \in 1..Len(a) : (a \o q)[k] = a[k]
        /\ \A k \in 1..Len(q) : (a \o q)[Len(a) + k] = q[k]
    BY <2>1, ConcatIs
  <2> QED BY <1>1, <1>6, <1>7, <2>2
<1>9. ASSUME NEW k \in 1..j PROVE p[k] = r[k]
  <2>1. CASE k <= n
    <3>1. k \in 1..n
      BY <1>2, <1>3, <2>1
    <3> QED BY <1>2, <1>5, <1>8, <3>1
  <2>2. CASE k > n
    <3>1. k - n \in 1..i /\ n + (k - n) = k
      BY <1>2, <1>3, <2>2
    <3>2. PICK h \in 1..i : n + h = k
      BY <3>1
    <3>3. h \in 1..Len(c)
      BY <1>2, <3>2
    <3>4. b[k] = c[h] /\ r[k] = q[h] /\ q[h] = c[h]
      BY <1>2, <1>6, <1>8, <3>2, <3>3
    <3> QED BY <1>5, <3>4
  <2> QED BY <1>2, <1>3, <2>1, <2>2
<1>10. Len(p) = Len(r) /\ \A k \in 1..Len(p) : p[k] = r[k]
  BY <1>3, <1>5, <1>8, <1>9
<1>11. p = r
  BY <1>5, <1>8, <1>10, SeqEqual
<1> QED BY <1>1, <1>4, <1>7, <1>11

-----------------------------------------------------------------------------
(* The conversion, block by block. *)
LEMMA RenderedLines ==
  ASSUME NEW block \in Block
  PROVE  /\ Rendered(block) \in Seq(Line) /\ block.lines \in Seq(Line)
         /\ block.kind = "code" => Rendered(block) = Append(Region(block.lines), Blank)
         /\ block.kind # "code" => Rendered(block) = Append(block.lines, Blank)
<1>1. PICK inner, kind : inner = block.lines /\ kind = block.kind
  OBVIOUS
<1>2. inner \in Seq(Line) /\ Blank \in Line
  BY <1>1, BlankFacts DEF Block
<1>3. CASE kind = "code"
  <2>1. PICK f : f = FenceAround(inner)
    OBVIOUS
  <2>2. f \in Line
    BY <1>2, <2>1, FenceFacts
  <2>3. PICK p, q : p = <<f>> /\ q = <<f, Blank>>
    OBVIOUS
  <2>4. p \in Seq(Line) /\ q \in Seq(Line) /\ q = Append(p, Blank)
    BY <1>2, <2>2, <2>3
  <2>5. PICK r : r = p \o inner
    OBVIOUS
  <2>6. r \in Seq(Line)
    BY <1>2, <2>4, <2>5
  <2>7. r \o p = Append(r, f) /\ r \o p \in Seq(Line)
    BY <2>2, <2>3, <2>4, <2>6
  <2>8. r \o q = Append(r \o p, Blank)
    BY <1>2, <2>4, <2>6, ConcatLast
  <2>9. Rendered(block) = r \o q
    BY <1>1, <1>3, <2>1, <2>3, <2>5 DEF Rendered
  <2>10. Region(inner) = Append(r, f)
    BY <2>1, <2>3, <2>5 DEF Region
  <2>11. Append(r \o p, Blank) \in Seq(Line)
    BY <1>2, <2>7
  <2> QED BY <1>1, <1>2, <1>3, <2>7, <2>8, <2>9, <2>10, <2>11
<1>4. CASE kind # "code"
  <2>1. Rendered(block) = inner \o <<Blank>>
    BY <1>1, <1>4 DEF Rendered
  <2>2. inner \o <<Blank>> = Append(inner, Blank) /\ Append(inner, Blank) \in Seq(Line)
    BY <1>2
  <2> QED BY <1>1, <1>2, <1>4, <2>1, <2>2
<1> QED BY <1>3, <1>4

LEMMA ConvertedNone == Converted(<<>>) = <<>>
<1>1. PICK ss : ss = [i \in DOMAIN <<>> |-> Rendered(<<>>[i])]
  OBVIOUS
<1>2. DOMAIN <<>> = {}
  OBVIOUS
<1>3. ss = <<>>
  <2>1. ss = [i \in 1..0 |-> Rendered(<<>>[i])] /\ 1..0 = {}
    BY <1>1, <1>2
  <2>2. ss \in [1..0 -> {}]
    BY <2>1
  <2>3. ss \in Seq({}) /\ Len(ss) = 0
    BY <2>2
  <2> QED BY <2>3
<1> QED BY <1>1, <1>3, FlattenNone DEF Converted

LEMMA RenderedAll ==
  ASSUME NEW bs \in Seq(Block)
  PROVE  [i \in DOMAIN bs |-> Rendered(bs[i])] \in Seq(Seq(Line))
<1>1. PICK n \in Nat : n = Len(bs) /\ DOMAIN bs = 1..n
  OBVIOUS
<1>2. \A i \in 1..n : Rendered(bs[i]) \in Seq(Line)
  BY <1>1, RenderedLines
<1>3. PICK ss : ss = [i \in DOMAIN bs |-> Rendered(bs[i])]
  OBVIOUS
<1>4. ss \in [1..n -> Seq(Line)]
  BY <1>1, <1>2, <1>3
<1> QED BY <1>3, <1>4

LEMMA ConvertedLast ==
  ASSUME NEW bs \in Seq(Block), NEW b \in Block
  PROVE  Converted(Append(bs, b)) = Converted(bs) \o Rendered(b)
<1>1. PICK cs, n : cs = Append(bs, b) /\ n = Len(bs)
  OBVIOUS
<1>2. /\ cs \in Seq(Block) /\ n \in Nat /\ Len(cs) = n + 1 /\ DOMAIN cs = 1..n + 1 /\ DOMAIN bs = 1..n
      /\ cs[n + 1] = b /\ \A i \in 1..n : cs[i] = bs[i]
  BY <1>1
<1>3. PICK ss, tt : /\ ss = [i \in DOMAIN bs |-> Rendered(bs[i])]
                    /\ tt = [i \in DOMAIN cs |-> Rendered(cs[i])]
  OBVIOUS
<1>4. ss \in Seq(Seq(Line)) /\ tt \in Seq(Seq(Line)) /\ Rendered(b) \in Seq(Line)
  BY <1>2, <1>3, RenderedAll, RenderedLines
<1>5. /\ DOMAIN ss = 1..n /\ DOMAIN tt = 1..n + 1 /\ Len(ss) = n /\ Len(tt) = n + 1
      /\ (\A i \in 1..n : ss[i] = Rendered(bs[i])) /\ \A i \in 1..n + 1 : tt[i] = Rendered(cs[i])
  BY <1>2, <1>3, <1>4
<1>6. PICK x, uu : x = Rendered(b) /\ uu = Append(ss, x)
  OBVIOUS
<1>7. /\ uu \in Seq(Seq(Line)) /\ Len(uu) = n + 1 /\ uu[n + 1] = x /\ \A i \in 1..n : uu[i] = ss[i]
  BY <1>4, <1>5, <1>6
<1>8. ASSUME NEW i \in 1..n + 1 PROVE tt[i] = uu[i]
  <2>1. CASE i = n + 1
    BY <1>2, <1>5, <1>6, <1>7, <2>1
  <2>2. CASE i # n + 1
    <3>1. i \in 1..n
      BY <1>2, <2>2
    <3> QED BY <1>2, <1>5, <1>7, <3>1
  <2> QED BY <2>1, <2>2
<1>9. Len(tt) = Len(uu) /\ \A i \in 1..Len(tt) : tt[i] = uu[i]
  BY <1>5, <1>7, <1>8
<1>10. tt = uu
  BY <1>4, <1>7, <1>9, SeqEqual
<1>11. FlattenSeq(uu) = FlattenSeq(ss) \o x
  BY <1>4, <1>6, FlattenLast
<1> QED BY <1>1, <1>3, <1>6, <1>10, <1>11 DEF Converted

-----------------------------------------------------------------------------
(* What a block puts into the markdown, and the state the scanner is in     *)
(* before and after each line: the block left open is of ticks, and its     *)
(* last line is followed by an empty one.                                   *)
Told(block, lines) ==
  IF block.kind = "code" THEN Region(block.lines) \in ToSet(Collected(lines).blocks)
  ELSE ToSet(block.lines) \subseteq ToSet(lines) /\ ReadIn(block.lines, lines)

After(lines, i) == Collected(SubSeq(lines, 1, i))
Closes(lines, i) ==
  Fenced(After(lines, i - 1)) =>
    /\ After(lines, i - 1).fence.ch = "tick"
    /\ ~Fenced(After(lines, i)) => i + 1 \in 1..Len(lines) /\ lines[i + 1] = Blank
Gapped(lines) == \A i \in 1..Len(lines) : Closes(lines, i)

LEMMA BlockFacts ==
  ASSUME NEW b \in WellformedBlocks
  PROVE  /\ b \in Block /\ b.lines \in Seq(Line) /\ Rendered(b) \in Seq(Line)
         /\ b.kind # "code" => Plain(b.lines)
         /\ b.kind = "code" /\ b.lines # <<>> => b.lines[1] # Blank
BY RenderedLines DEF WellformedBlocks, Plain

LEMMA BlockCollected ==
  ASSUME NEW a \in Seq(Line), ~Fenced(Collected(a)), NEW b \in WellformedBlocks
  PROVE  LET r == a \o Rendered(b) IN
         /\ ~Fenced(Collected(r)) /\ Told(b, r)
         /\ ToSet(Collected(a).blocks) \subseteq ToSet(Collected(r).blocks)
<1>1. PICK inner : inner = b.lines
  OBVIOUS
<1>2. inner \in Seq(Line) /\ Blank \in Line /\ ~FenceOpen(Blank) /\ b \in Block
  BY <1>1, BlockFacts, BlankFacts
<1>3. PICK r : r = a \o Rendered(b)
  OBVIOUS
<1>4. CASE b.kind = "code"
  <2>1. PICK g, c : g = Region(inner) /\ c = a \o g
    OBVIOUS
  <2>2. g \in Seq(Line) /\ c \in Seq(Line)
    BY <1>2, <2>1, RegionLines
  <2>3. Rendered(b) = Append(g, Blank)
    BY <1>1, <1>2, <1>4, <2>1, RenderedLines
  <2>4. r = Append(c, Blank)
    BY <1>2, <1>3, <2>1, <2>2, <2>3, ConcatLast
  <2>5. Collected(c).blocks = Append(Collected(a).blocks, g) /\ ~Fenced(Collected(c))
    BY <1>2, <2>1, RegionCollected
  <2>6. Collected(r) = Collected(c)
    BY <1>2, <2>2, <2>4, <2>5, NoneOpens
  <2>7. PICK old : old = Collected(a).blocks
    OBVIOUS
  <2>8. old \in Seq(Seq(Line))
    BY <2>7, CollectedState DEF CollectState
  <2>9. ToSet(Append(old, g)) = ToSet(old) \cup {g}
    BY <2>2, <2>8, AppendSet
  <2>10. Told(b, r)
    BY <1>1, <1>4, <2>1, <2>5, <2>6, <2>7, <2>9 DEF Told
  <2> QED BY <1>3, <2>5, <2>6, <2>7, <2>9, <2>10
<1>5. CASE b.kind # "code"
  <2>1. PICK c : c = a \o inner
    OBVIOUS
  <2>2. c \in Seq(Line) /\ ToSet(c) = ToSet(a) \cup ToSet(inner)
    BY <1>2, <2>1, ConcatSet
  <2>3. Plain(inner)
    BY <1>1, <1>5, BlockFacts
  <2>4. Collected(c) = Collected(a) /\ ReadIn(inner, c)
    BY <1>2, <2>1, <2>3, PlainRun
  <2>5. Rendered(b) = Append(inner, Blank)
    BY <1>1, <1>2, <1>5, RenderedLines
  <2>6. r = Append(c, Blank)
    BY <1>2, <1>3, <2>1, <2>5, ConcatLast
  <2>7. Collected(r) = Collected(c)
    BY <1>2, <2>2, <2>4, <2>6, NoneOpens
  <2>8. ToSet(r) = ToSet(c) \cup {Blank}
    BY <1>2, <2>2, <2>6, AppendSet
  <2>9. ToSet(Cleaned(c).out) \subseteq ToSet(Cleaned(r).out)
    BY <1>2, <2>2, <2>6, CleanMore DEF Cleans
  <2>10. ReadIn(inner, r)
    BY <2>4, <2>9 DEF ReadIn
  <2>11. Told(b, r)
    BY <1>1, <1>5, <2>2, <2>8, <2>10 DEF Told
  <2> QED BY <1>3, <2>4, <2>7, <2>11
<1> QED BY <1>4, <1>5

(* Before the lines of one more block, After is as it was; among them it is *)
(* what they make of the whole before.                                      *)
LEMMA AfterMore ==
  ASSUME NEW a \in Seq(Line), NEW c \in Seq(Line)
  PROVE  /\ \A i \in 0..Len(a) : After(a \o c, i) = After(a, i)
         /\ \A i \in 0..Len(c) : After(a \o c, Len(a) + i) = Collected(a \o SubSeq(c, 1, i))
<1>1. \A i \in 0..Len(a) : SubSeq(a \o c, 1, i) = SubSeq(a, 1, i)
  BY ConcatPrefix
<1>2. \A i \in 0..Len(c) : SubSeq(a \o c, 1, Len(a) + i) = a \o SubSeq(c, 1, i)
  BY ConcatPastIt
<1> QED BY <1>1, <1>2, Zenon DEF After

LEMMA PlainAfter ==
  ASSUME NEW a \in Seq(Line), ~Fenced(Collected(a)), NEW c \in Seq(Line), Plain(c),
         NEW i \in 0..Len(c)
  PROVE  ~Fenced(After(a \o c, Len(a) + i))
<1>1. PICK p : p = SubSeq(c, 1, i)
  OBVIOUS
<1>2. p \in Seq(Line) /\ Plain(p)
  BY <1>1, PrefixIs, PrefixSet DEF Plain
<1>3. Collected(a \o p) = Collected(a)
  BY <1>2, PlainRun
<1> QED BY <1>1, <1>3, AfterMore

(* The lines of a region: fenced from the first line to the one before the  *)
(* last.                                                                    *)
LEMMA RegionAfter ==
  ASSUME NEW a \in Seq(Line), ~Fenced(Collected(a)), NEW inner \in Seq(Line),
         NEW x \in Line, ~FenceOpen(x),
         NEW c, c = Append(Region(inner), x), NEW i \in 0..Len(c)
  PROVE  LET s == After(a \o c, Len(a) + i) IN
         IF i \in 1..Len(inner) + 1 THEN Fenced(s) /\ s.fence.ch = "tick" ELSE ~Fenced(s)
<1>1. PICK m, g, f : m = Len(inner) /\ g = Region(inner) /\ f = FenceAround(inner)
  OBVIOUS
<1>2. /\ g \in Seq(Line) /\ Len(g) = m + 2 /\ m \in Nat /\ g[1] = f
      /\ \A k \in 1..m : g[k + 1] = inner[k]
  <2>1. /\ Region(inner) \in Seq(Line) /\ Len(Region(inner)) = Len(inner) + 2
        /\ Region(inner)[1] = FenceAround(inner)
        /\ \A k \in 1..Len(inner) : Region(inner)[k + 1] = inner[k]
    BY RegionLines
  <2>2. Len(inner) \in Nat
    OBVIOUS
  <2> QED BY <1>1, <2>1, <2>2
<1>3. /\ c \in Seq(Line) /\ Len(c) = m + 3 /\ \A k \in 1..m + 2 : c[k] = g[k]
  <2>1. c \in Seq(Line) /\ Len(c) = Len(g) + 1 /\ \A k \in 1..Len(g) : c[k] = g[k]
    BY <1>1, <1>2
  <2>2. Len(g) + 1 = m + 3
    BY <1>2
  <2> QED BY <1>2, <2>1, <2>2
<1>4. PICK p : p = SubSeq(c, 1, i)
  OBVIOUS
<1>5. /\ p \in Seq(Line) /\ Len(p) = i /\ (\A k \in 1..i : p[k] = c[k])
      /\ i \in Nat /\ i <= m + 3
  BY <1>3, <1>4, PrefixIs
<1>6. After(a \o c, Len(a) + i) = Collected(a \o p)
  BY <1>3, <1>4, AfterMore
<1>7. CASE i = 0
  <2>1. p = <<>> /\ a \o <<>> = a
    <3>1. Len(p) = 0 /\ p \in Seq(Line)
      BY <1>5, <1>7
    <3> QED BY <3>1
  <2> QED BY <1>6, <1>7, <2>1
<1>8. CASE i \in 1..m + 1
  <2>1. PICK h, q, b : h = i - 1 /\ q = SubSeq(inner, 1, i - 1) /\ b = Append(a, f)
    OBVIOUS
  <2>2. h \in 0..m /\ i = h + 1 /\ h \in Nat
    BY <1>2, <1>8, <2>1
  <2>3. h \in 0..Len(inner) /\ q = SubSeq(inner, 1, h)
    BY <1>1, <2>1, <2>2
  <2>4. q \in Seq(Line) /\ Len(q) = h /\ \A k \in 1..h : q[k] = inner[k]
    BY <2>3, PrefixIs
  <2>5. ToSet(q) \subseteq ToSet(inner)
    BY <2>3, PrefixSet
  <2>6. f \in Line /\ b \in Seq(Line)
    BY <1>1, <2>1, FenceFacts
  <2>7. a \o p = b \o q
    <3>1. PICK o : o = <<f>>
      OBVIOUS
    <3>2. o \in Seq(Line) /\ Len(o) = 1 /\ o[1] = f /\ a \o o = Append(a, f)
      BY <2>6, <3>1
    <3>3. PICK w : w = o \o q
      OBVIOUS
    <3>4. /\ w \in Seq(Line) /\ Len(w) = 1 + h /\ w[1] = f /\ \A k \in 1..h : w[1 + k] = q[k]
      <4>1. o \in Seq(Line) /\ q \in Seq(Line) /\ Len(o) = 1 /\ Len(q) = h /\ h \in Nat
        BY <2>2, <2>4, <3>2
      <4>2. /\ w \in Seq(Line) /\ Len(w) = Len(o) + Len(q)
            /\ (\A k \in 1..Len(o) : w[k] = o[k]) /\ \A k \in 1..Len(q) : w[Len(o) + k] = q[k]
        <5>1. /\ o \o q \in Seq(Line) /\ Len(o \o q) = Len(o) + Len(q)
              /\ (\A k \in 1..Len(o) : (o \o q)[k] = o[k])
              /\ \A k \in 1..Len(q) : (o \o q)[Len(o) + k] = q[k]
          <6>1. o \in Seq(Line)
            BY <4>1
          <6>2. q \in Seq(Line)
            BY <4>1
          <6> QED BY <6>1, <6>2, ConcatIs
        <5> QED BY <3>3, <5>1, Zenon
      <4> QED BY <3>2, <4>1, <4>2
    <3>5. ASSUME NEW k \in 1..i PROVE p[k] = w[k]
      <4>0. p[k] = g[k]
        <5>1. k \in 1..m + 2
          BY <1>2, <1>8
        <5> QED BY <1>3, <1>5, <5>1
      <4>1. CASE k = 1
        BY <1>2, <3>4, <4>0, <4>1
      <4>2. CASE k # 1
        <5>1. k - 1 \in 1..h /\ 1 + (k - 1) = k
          BY <2>2, <4>2
        <5>2. PICK j \in 1..h : 1 + j = k
          BY <5>1
        <5>3. j \in 1..m /\ j + 1 = k
          BY <1>2, <2>2, <5>2
        <5>4. g[k] = inner[j] /\ w[k] = q[j] /\ q[j] = inner[j]
          BY <1>2, <2>4, <3>4, <5>2, <5>3
        <5> QED BY <4>0, <5>4
      <4> QED BY <4>1, <4>2
    <3>6. Len(p) = Len(w) /\ \A k \in 1..Len(p) : p[k] = w[k]
      BY <1>5, <2>2, <3>4, <3>5
    <3>7. p = w
      BY <1>5, <3>4, <3>6, SeqEqual
    <3>8. (a \o o) \o q = a \o (o \o q)
      <4>1. o \in Seq(Line)
        BY <3>2
      <4>2. q \in Seq(Line)
        BY <2>4
      <4>3. a \in Seq(Line)
        OBVIOUS
      <4> QED BY <4>1, <4>2, <4>3, ConcatLines, Zenon
    <3> QED BY <2>1, <3>2, <3>3, <3>7, <3>8
  <2>8. /\ Fenced(Collected(b)) /\ Collected(b).fence = FenceOf(f)
        /\ Inside(inner, FenceOf(f))
    BY <1>1, <2>1, RegionCollected
  <2>9. Inside(q, Collected(b).fence)
    BY <2>5, <2>8 DEF Inside
  <2>10. Collected(b \o q).fence = Collected(b).fence
    BY <2>4, <2>6, <2>8, <2>9, FencedRun
  <2>11. FenceOf(f).ch = "tick"
    BY <1>1, FenceFacts
  <2>12. Fenced(Collected(a \o p)) /\ Collected(a \o p).fence.ch = "tick"
    BY <2>7, <2>8, <2>10, <2>11 DEF Fenced
  <2> QED BY <1>1, <1>6, <1>8, <2>12
<1>9. CASE i = m + 2
  <2>1. i \in 0..Len(g) /\ Len(p) = Len(g) /\ \A k \in 1..Len(p) : p[k] = g[k]
    BY <1>2, <1>3, <1>5, <1>9
  <2>2. p = g
    BY <1>2, <1>5, <2>1, SeqEqual
  <2>3. ~Fenced(Collected(a \o g))
    BY <1>1, RegionCollected
  <2>4. i \notin 1..m + 1
    BY <1>2, <1>9
  <2> QED BY <1>1, <1>6, <2>2, <2>3, <2>4
<1>10. CASE i = m + 3
  <2>1. p = c
    BY <1>3, <1>4, <1>10, PrefixWhole
  <2>2. a \o c = Append(a \o g, x) /\ a \o g \in Seq(Line)
    BY <1>1, <1>2, ConcatLast
  <2>3. ~Fenced(Collected(a \o g))
    BY <1>1, RegionCollected
  <2>4. Collected(Append(a \o g, x)) = Collected(a \o g)
    BY <2>2, <2>3, NoneOpens
  <2>5. i \notin 1..m + 1
    BY <1>2, <1>10
  <2> QED BY <1>1, <1>6, <2>1, <2>2, <2>3, <2>4, <2>5
<1>11. i = 0 \/ i \in 1..m + 1 \/ i = m + 2 \/ i = m + 3
  BY <1>2, <1>5
<1> QED BY <1>7, <1>8, <1>9, <1>10, <1>11

LEMMA BlockGapped ==
  ASSUME NEW a \in Seq(Line), ~Fenced(Collected(a)), Gapped(a), NEW b \in WellformedBlocks
  PROVE  Gapped(a \o Rendered(b))
<1>1. PICK inner, c, r, n : inner = b.lines /\ c = Rendered(b) /\ r = a \o c /\ n = Len(a)
  OBVIOUS
<1>2. /\ inner \in Seq(Line) /\ c \in Seq(Line) /\ r \in Seq(Line) /\ n \in Nat /\ Len(c) \in Nat
      /\ b \in Block /\ Len(r) = n + Len(c)
      /\ (\A k \in 1..n : r[k] = a[k]) /\ (\A k \in 1..Len(c) : r[n + k] = c[k])
  <2>1. inner \in Seq(Line) /\ c \in Seq(Line) /\ b \in Block
    BY <1>1, BlockFacts
  <2>2. /\ r \in Seq(Line) /\ Len(r) = Len(a) + Len(c)
        /\ (\A k \in 1..Len(a) : r[k] = a[k]) /\ \A k \in 1..Len(c) : r[Len(a) + k] = c[k]
    <3>1. c \in Seq(Line)
      BY <2>1
    <3> QED BY <1>1, <3>1, ConcatIs
  <2> QED BY <1>1, <2>1, <2>2
<1>3. ASSUME NEW i \in 1..n PROVE Closes(r, i)
  <2>1. i \in 0..Len(a) /\ i - 1 \in 0..Len(a) /\ i \in 1..Len(a)
    BY <1>1, <1>2
  <2>2. After(r, i) = After(a, i) /\ After(r, i - 1) = After(a, i - 1)
    BY <1>1, <1>2, <2>1, AfterMore
  <2>3. Closes(a, i)
    BY <2>1 DEF Gapped
  <2>4. i + 1 \in 1..Len(a) => i + 1 \in 1..Len(r) /\ r[i + 1] = a[i + 1]
    BY <1>1, <1>2
  <2> QED BY <2>2, <2>3, <2>4 DEF Closes
<1>4. ASSUME NEW k \in 1..Len(c) PROVE Closes(r, n + k)
  <2>1. k \in 0..Len(c) /\ k - 1 \in 0..Len(c) /\ (n + k) - 1 = n + (k - 1)
    BY <1>2
  <2>2. CASE b.kind # "code"
    <3>1. c = Append(inner, Blank) /\ Plain(inner)
      BY <1>1, <1>2, <2>2, RenderedLines, BlockFacts
    <3>2. ToSet(c) = ToSet(inner) \cup {Blank}
      <4>1. inner \in Seq(Line)
        BY <1>2
      <4> QED BY <3>1, <4>1, BlankIsLine, AppendSet
    <3>3. Plain(c)
      BY <3>1, <3>2, BlankFacts DEF Plain
    <3>4. ~Fenced(After(r, n + (k - 1)))
      BY <1>1, <1>2, <2>1, <3>3, PlainAfter
    <3> QED BY <2>1, <3>4 DEF Closes
  <2>3. CASE b.kind = "code"
    <3>1. PICK m : m = Len(inner)
      OBVIOUS
    <3>2. c = Append(Region(inner), Blank)
      BY <1>1, <1>2, <2>3, RenderedLines
    <3>3. m \in Nat /\ Len(c) = m + 3 /\ c[m + 3] = Blank
      <4>1. PICK g : g = Region(inner)
        OBVIOUS
      <4>2. g \in Seq(Line) /\ Len(g) = m + 2 /\ m \in Nat
        BY <1>2, <3>1, <4>1, RegionLines
      <4>3. Blank \in Line
        BY BlankFacts
      <4>4. Len(c) = Len(g) + 1 /\ c[Len(g) + 1] = Blank
        BY <3>2, <4>1, <4>2, <4>3
      <4>5. Len(g) + 1 = m + 3
        BY <4>2
      <4> QED BY <4>2, <4>4, <4>5
    <3>4. \A i \in 0..Len(c) :
            IF i \in 1..m + 1
            THEN Fenced(After(r, n + i)) /\ After(r, n + i).fence.ch = "tick"
            ELSE ~Fenced(After(r, n + i))
      <4> SUFFICES ASSUME NEW i \in 0..Len(c)
                   PROVE  IF i \in 1..m + 1
                          THEN Fenced(After(r, n + i)) /\ After(r, n + i).fence.ch = "tick"
                          ELSE ~Fenced(After(r, n + i))
        OBVIOUS
      <4>1. inner \in Seq(Line) /\ Blank \in Line /\ ~FenceOpen(Blank)
        BY <1>2, BlankFacts
      <4>2. IF i \in 1..Len(inner) + 1
            THEN /\ Fenced(After(a \o c, Len(a) + i))
                 /\ After(a \o c, Len(a) + i).fence.ch = "tick"
            ELSE ~Fenced(After(a \o c, Len(a) + i))
        BY <3>2, <4>1, RegionAfter
      <4> QED BY <1>1, <3>1, <4>2
    <3>5. SUFFICES ASSUME Fenced(After(r, (n + k) - 1)) PROVE Closes(r, n + k)
      BY DEF Closes
    <3>6. k - 1 \in 1..m + 1
      BY <2>1, <3>4, <3>5
    <3>7. After(r, (n + k) - 1).fence.ch = "tick"
      BY <2>1, <3>4, <3>6
    <3>8. ASSUME ~Fenced(After(r, n + k)) PROVE (n + k) + 1 \in 1..Len(r) /\ r[(n + k) + 1] = Blank
      <4>1. k \notin 1..m + 1
        BY <2>1, <3>4, <3>8
      <4>2. k = m + 2
        BY <3>3, <3>6, <4>1
      <4>3. (n + k) + 1 = n + (m + 3) /\ m + 3 \in 1..Len(c)
        BY <1>2, <3>3, <4>2
      <4>4. r[n + (m + 3)] = Blank
        BY <1>2, <3>3, <4>3
      <4>5. n + (m + 3) \in 1..Len(r)
        BY <1>2, <3>3
      <4> QED BY <4>3, <4>4, <4>5
    <3> QED BY <3>7, <3>8 DEF Closes
  <2> QED BY <2>2, <2>3
<1>5. ASSUME NEW i \in 1..Len(r) PROVE Closes(r, i)
  <2>1. CASE i <= n
    <3>1. i \in 1..n
      BY <1>2, <2>1
    <3> QED BY <1>3, <3>1
  <2>2. CASE i > n
    <3>1. i - n \in 1..Len(c) /\ n + (i - n) = i
      BY <1>2, <2>2
    <3>2. PICK k \in 1..Len(c) : n + k = i
      BY <3>1
    <3> QED BY <1>4, <3>2
  <2> QED BY <1>2, <2>1, <2>2
<1> QED BY <1>1, <1>5 DEF Gapped

-----------------------------------------------------------------------------
(* The markdown of some blocks, before it is trimmed and after. *)
ConvertedAs(bs, r) ==
  /\ r \in Seq(Line) /\ ~Fenced(Collected(r)) /\ Gapped(r)
  /\ r = <<>> \/ \E q \in Seq(Line) : r = Append(q, Blank)
  /\ \A b \in ToSet(bs) : Told(b, r)

LEMMA ConvertedSound ==
  ASSUME NEW bs \in Seq(WellformedBlocks)
  PROVE  ConvertedAs(bs, Converted(bs))
<1> DEFINE S == {cs \in Seq(WellformedBlocks) : ConvertedAs(cs, Converted(cs))}
<1>1. <<>> \in S
  <2>1. <<>> \in Seq(WellformedBlocks) /\ <<>> \in Seq(Line) /\ Len(<<>>) = 0
    OBVIOUS
  <2>2. ~Fenced(Collected(<<>>))
    BY CollectedNone, CollectStartState
  <2>3. Gapped(<<>>)
    BY <2>1 DEF Gapped
  <2>4. ConvertedAs(<<>>, <<>>)
    BY <2>1, <2>2, <2>3, Empties DEF ConvertedAs
  <2> QED BY <2>1, <2>4, ConvertedNone
<1>2. \A cs \in S : \A b \in WellformedBlocks : Append(cs, b) \in S
  <2> SUFFICES ASSUME NEW cs \in S, NEW b \in WellformedBlocks PROVE Append(cs, b) \in S
    OBVIOUS
  <2>1. /\ cs \in Seq(WellformedBlocks) /\ Append(cs, b) \in Seq(WellformedBlocks)
        /\ ConvertedAs(cs, Converted(cs))
    OBVIOUS
  <2>2. PICK a, r : a = Converted(cs) /\ r = a \o Rendered(b)
    OBVIOUS
  <2>3. /\ a \in Seq(Line) /\ ~Fenced(Collected(a)) /\ Gapped(a)
        /\ \A c \in ToSet(cs) : Told(c, a)
    BY <2>1, <2>2 DEF ConvertedAs
  <2>4. Converted(Append(cs, b)) = r
    <3>1. cs \in Seq(Block) /\ b \in Block
      BY <2>1 DEF WellformedBlocks
    <3> QED BY <2>2, <3>1, ConvertedLast
  <2>5. Rendered(b) \in Seq(Line) /\ r \in Seq(Line)
    <3>1. Rendered(b) \in Seq(Line)
      BY BlockFacts
    <3> QED BY <2>2, <2>3, <3>1
  <2>6. /\ ~Fenced(Collected(r)) /\ Told(b, r)
        /\ ToSet(Collected(a).blocks) \subseteq ToSet(Collected(r).blocks)
    BY <2>2, <2>3, BlockCollected
  <2>7. Gapped(r)
    BY <2>2, <2>3, BlockGapped
  <2>8. \E q \in Seq(Line) : r = Append(q, Blank)
    <3>1. PICK p \in Seq(Line) : Rendered(b) = Append(p, Blank)
      BY BlockFacts, RenderedLines, RegionLines
    <3>2. a \o p \in Seq(Line) /\ Blank \in Line
      <4>1. a \in Seq(Line)
        BY <2>3
      <4> QED BY <4>1, BlankIsLine
    <3>3. r = Append(a \o p, Blank)
      BY <2>2, <2>3, <3>1, <3>2, ConcatLast
    <3> QED BY <3>2, <3>3
  <2>9. ASSUME NEW c \in ToSet(cs) PROVE Told(c, r)
    <3>1. Told(c, a)
      BY <2>3
    <3>2. ToSet(a) \subseteq ToSet(r)
      BY <2>2, <2>3, <2>5, ConcatSet
    <3>3. ToSet(Cleaned(a).out) \subseteq ToSet(Cleaned(r).out)
      BY <2>2, <2>3, <2>5, CleanGrows
    <3> QED BY <2>6, <3>1, <3>2, <3>3 DEF Told, ReadIn
  <2>10. ToSet(Append(cs, b)) = ToSet(cs) \cup {b}
    BY <2>1, AppendSet
  <2>11. ConvertedAs(Append(cs, b), r)
    BY <2>5, <2>6, <2>7, <2>8, <2>9, <2>10 DEF ConvertedAs
  <2> QED BY <2>1, <2>4, <2>11
<1>3. S \subseteq Seq(WellformedBlocks)
  OBVIOUS
<1> HIDE DEF S
<1>4. S = Seq(WellformedBlocks)
  BY <1>1, <1>2, <1>3, ByTheLast
<1> QED BY <1>4 DEF S

TrimmedAs(bs, m) ==
  /\ m \in Seq(Line) /\ ~Fenced(Collected(m))
  /\ \A i \in 1..Len(m) : Fenced(After(m, i - 1)) =>
       /\ After(m, i - 1).fence.ch = "tick"
       /\ ~Fenced(After(m, i)) => i = Len(m) \/ m[i + 1] = Blank
  /\ \A b \in ToSet(bs) :
       IF b.kind = "code" THEN Region(b.lines) \in ToSet(Collected(m).blocks)
       ELSE ReadIn(b.lines, m) /\ \A x \in ToSet(b.lines) : x # Blank => x \in ToSet(m)

LEMMA MarkdownSound ==
  ASSUME NEW bs \in Seq(WellformedBlocks)
  PROVE  TrimmedAs(bs, HtmlToMarkdown(bs))
<1>1. PICK r : r = Converted(bs)
  OBVIOUS
<1>2. ConvertedAs(bs, r)
  BY <1>1, ConvertedSound
<1>3. /\ r \in Seq(Line) /\ ~Fenced(Collected(r)) /\ Gapped(r)
      /\ r = <<>> \/ \E q \in Seq(Line) : r = Append(q, Blank)
      /\ \A b \in ToSet(bs) : Told(b, r)
  BY <1>2 DEF ConvertedAs
<1>4. HtmlToMarkdown(bs) = Trimmed(r)
  BY <1>1 DEF HtmlToMarkdown
<1>5. CASE r = <<>>
  <2>1. Trimmed(r) = r
    BY <1>5 DEF Trimmed
  <2>2. Len(r) = 0
    BY <1>5
  <2>3. 1..Len(r) = {}
    BY <2>2
  <2>4. TrimmedAs(bs, r)
    BY <1>3, <2>3 DEF TrimmedAs, Told
  <2> QED BY <1>4, <2>1, <2>4
<1>6. CASE r # <<>>
  <2>1. PICK q \in Seq(Line) : r = Append(q, Blank)
    BY <1>3, <1>6
  <2>2. PICK e : e = <<Blank>>
    OBVIOUS
  <2>3. Blank \in Line /\ e \in Seq(Line) /\ r = q \o e
    <3>1. <<Blank>> \in Seq(Line) /\ q \o <<Blank>> = Append(q, Blank)
      BY BlankIsLine, AppendIs
    <3> QED BY <2>1, <2>2, <3>1, BlankIsLine
  <2>4. /\ Len(q) \in Nat /\ Len(r) = Len(q) + 1 /\ r[Len(q) + 1] = Blank
        /\ \A k \in 1..Len(q) : r[k] = q[k]
    <3>1. /\ Len(q) \in Nat /\ Len(Append(q, Blank)) = Len(q) + 1
          /\ Append(q, Blank)[Len(q) + 1] = Blank
          /\ \A k \in 1..Len(q) : Append(q, Blank)[k] = q[k]
      BY BlankIsLine, AppendIs
    <3> QED BY <2>1, <3>1
  <2>5. \A i \in 0..Len(q) : SubSeq(r, 1, i) = SubSeq(q, 1, i)
    BY <2>3, ConcatPrefix
  <2>6. Trimmed(r) = q
    <3>1. Last(r) = Blank
      BY <2>4 DEF Last
    <3>2. Front(r) = SubSeq(r, 1, Len(q))
      <4>1. Len(r) - 1 = Len(q)
        BY <2>4
      <4> QED BY <4>1 DEF Front
    <3>3. Len(q) \in 0..Len(q)
      BY <2>4
    <3>4. SubSeq(q, 1, Len(q)) = q
      BY PrefixWhole
    <3> QED BY <1>6, <2>5, <3>1, <3>2, <3>3, <3>4 DEF Trimmed
  <2>7. ~Fenced(Collected(q))
    <3> SUFFICES ASSUME Fenced(Collected(q)) PROVE FALSE
      OBVIOUS
    <3>1. Collected(q).fence \in Fences /\ Collected(q).fence # NoFence
      BY CollectedState DEF CollectState, Fenced
    <3>2. ~FenceClose(Blank, Collected(q).fence)
      BY <3>1, BlankFacts
    <3>3. Collects(Collected(r), Collected(q), Blank)
      BY <2>1, <2>3, OneMore
    <3>4. Collected(r).fence = Collected(q).fence
      BY <3>2, <3>3 DEF Collects
    <3> QED BY <1>3, <3>1, <3>4 DEF Fenced
  <2>8. Collected(r) = Collected(q)
    BY <2>1, <2>3, <2>7, BlankFacts, NoneOpens
  <2>9. Cleaned(r).out = Cleaned(q).out
    BY <2>1, <2>3, <2>7, CleanMore, SameFence DEF Cleans
  <2>10. ASSUME NEW i \in 1..Len(q), Fenced(After(q, i - 1))
         PROVE  /\ After(q, i - 1).fence.ch = "tick"
                /\ ~Fenced(After(q, i)) => i = Len(q) \/ q[i + 1] = Blank
    <3>1. i \in 0..Len(q) /\ i - 1 \in 0..Len(q) /\ i \in 1..Len(r)
      BY <2>4
    <3>2. After(r, i) = After(q, i) /\ After(r, i - 1) = After(q, i - 1)
      BY <2>5, <3>1 DEF After
    <3>3. Closes(r, i)
      BY <1>3, <3>1 DEF Gapped
    <3>4. i # Len(q) => i + 1 \in 1..Len(q)
      BY <2>4
    <3>5. i # Len(q) => r[i + 1] = q[i + 1]
      BY <2>4, <3>4
    <3> QED BY <2>10, <3>2, <3>3, <3>5 DEF Closes
  <2>11. ToSet(r) = ToSet(q) \cup {Blank}
    <3>1. ToSet(Append(q, Blank)) = ToSet(q) \cup {Blank}
      BY BlankIsLine, AppendSet
    <3> QED BY <2>1, <3>1
  <2>12. ASSUME NEW b \in ToSet(bs)
         PROVE  IF b.kind = "code" THEN Region(b.lines) \in ToSet(Collected(q).blocks)
                ELSE ReadIn(b.lines, q) /\ \A x \in ToSet(b.lines) : x # Blank => x \in ToSet(q)
    <3>1. Told(b, r)
      BY <1>3
    <3> QED BY <2>8, <2>9, <2>11, <3>1 DEF Told, ReadIn
  <2>13. TrimmedAs(bs, q)
    BY <2>7, <2>10, <2>12 DEF TrimmedAs
  <2> QED BY <1>4, <2>6, <2>13
<1> QED BY <1>5, <1>6

(* A block of code of the whole page that is found in the main content is   *)
(* inside a fence there too.                                                *)
LEMMA FoundIsFenced ==
  ASSUME NEW bs, NEW m, TrimmedAs(bs, m), NEW code \in Seq(Line), code # <<>> => code[1] # Blank,
         HoldsBlock(m, Region(code))
  PROVE  Holds(Collected(m), code)
<1>1. PICK g, f, n : g = Region(code) /\ f = FenceAround(code) /\ n = Len(code)
  OBVIOUS
<1>2. /\ m \in Seq(Line) /\ g \in Seq(Line) /\ n \in Nat /\ Len(g) = n + 2 /\ g[1] = f
      /\ g[n + 2] = f /\ (\A i \in 1..n : g[i + 1] = code[i]) /\ f \in Line /\ f # Blank
      /\ Len(m) \in Nat
  <2>1. /\ Region(code) \in Seq(Line) /\ Len(Region(code)) = Len(code) + 2
        /\ Region(code)[1] = FenceAround(code) /\ Region(code)[Len(code) + 2] = FenceAround(code)
        /\ \A i \in 1..Len(code) : Region(code)[i + 1] = code[i]
    <3>1. code \in Seq(Line) /\ code \o code \in Seq(Line)
      OBVIOUS
    <3> QED BY <3>1, RegionLines
  <2>2. f \in Line /\ f # Blank
    BY <1>1, FenceFacts
  <2>3. m \in Seq(Line) /\ Len(code) \in Nat
    BY DEF TrimmedAs
  <2>4. Len(m) \in Nat
    BY <2>3
  <2> QED BY <1>1, <2>1, <2>2, <2>3, <2>4
<1>3. PICK i \in 1..Len(m) : i + (n + 2) - 1 <= Len(m) /\ SubSeq(m, i, i + (n + 2) - 1) = g
  BY <1>1, <1>2 DEF HoldsBlock
<1>4. PICK h, u, v : h = i + n + 1 /\ u = SubSeq(m, 1, i - 1) /\ v = SubSeq(m, i + n + 2, Len(m))
  OBVIOUS
<1>5. /\ i \in Nat /\ i - 1 \in 0..Len(m) /\ i \in 1..Len(m) /\ h \in i..Len(m) /\ h = i + (n + 2) - 1
      /\ i + 1 <= Len(m) /\ h + 1 = i + n + 2
  BY <1>2, <1>3, <1>4
<1>6. u \in Seq(Line) /\ v \in Seq(Line)
  <2>1. \A k \in (i + n + 2)..Len(m) : m[k] \in Line
    BY <1>2, <1>5
  <2> QED BY <1>2, <1>4, <1>5, <2>1, PrefixIs, SubSeqProperties
<1>7. m = (u \o g) \o v
  <2>1. SubSeq(m, 1, i - 1) \o SubSeq(m, (i - 1) + 1, h) = SubSeq(m, 1, h)
    <3>1. 1 \in 1..Len(m) + 1 /\ i - 1 \in 1 - 1..Len(m) /\ h \in i - 1..Len(m)
      BY <1>2, <1>5
    <3> QED BY <1>2, <3>1, ConcatAdjacentSubSeq
  <2>2. SubSeq(m, 1, h) \o SubSeq(m, h + 1, Len(m)) = SubSeq(m, 1, Len(m))
    <3>1. 1 \in 1..Len(m) + 1 /\ h \in 1 - 1..Len(m) /\ Len(m) \in h..Len(m)
      BY <1>2, <1>5
    <3> QED BY <1>2, <3>1, ConcatAdjacentSubSeq
  <2>3. SubSeq(m, 1, Len(m)) = m
    BY <1>2, PrefixWhole
  <2>4. (i - 1) + 1 = i
    BY <1>5
  <2> QED BY <1>3, <1>4, <1>5, <2>1, <2>2, <2>3, <2>4
<1>8. After(m, i - 1) = Collected(u)
  BY <1>4 DEF After
<1>9. CASE ~Fenced(Collected(u))
  <2>1. PICK old : old = Collected(u).blocks
    OBVIOUS
  <2>2. old \in Seq(Seq(Line))
    BY <1>6, <2>1, CollectedState DEF CollectState
  <2>3. Collected(u \o g).blocks = Append(old, g)
    BY <1>1, <1>6, <1>9, <2>1, RegionCollected
  <2>4. ToSet(Append(old, g)) = ToSet(old) \cup {g}
    BY <1>2, <2>2, AppendSet
  <2>5. HoldsBlock(g, code)
    <3>1. PICK p : p = <<f>>
      OBVIOUS
    <3>2. p \in Seq(Line)
      BY <1>2, <3>1
    <3>3. HoldsBlock(Append(p \o code, f), code)
      BY <1>2, <3>2, HeldInside
    <3>4. g = Append(p \o code, f)
      BY <1>1, <3>1 DEF Region
    <3> QED BY <3>3, <3>4
  <2>6. Holds(Collected(u \o g), code)
    BY <2>3, <2>4, <2>5 DEF Holds
  <2>7. u \o g \in Seq(Line)
    BY <1>2, <1>6
  <2> QED BY <1>6, <1>7, <2>6, <2>7, HoldsOn
<1>10. CASE Fenced(Collected(u))
  <2>1. /\ Collected(u).fence.ch = "tick"
        /\ ~Fenced(After(m, i)) => i = Len(m) \/ m[i + 1] = Blank
    BY <1>5, <1>8, <1>10 DEF TrimmedAs
  <2>2. m[i] = f /\ m[i + 1] # Blank
    <3>1. \A k \in 1..n + 2 : g[k] = m[i + k - 1]
      <4>1. \A k \in i..h : m[k] \in Line
        BY <1>2, <1>5
      <4>2. SubSeq(m, i, h) = [k \in 1..(1 + h - i) |-> m[i + k - 1]]
        BY <1>2, <1>5
      <4>3. 1 + h - i = n + 2
        BY <1>2, <1>5
      <4> QED BY <1>3, <1>5, <4>2, <4>3
    <3>2. 1 \in 1..n + 2 /\ 2 \in 1..n + 2 /\ i + 1 - 1 = i /\ i + 2 - 1 = i + 1
      BY <1>2, <1>5
    <3>3. m[i] = f /\ m[i + 1] = g[2]
      BY <1>2, <3>1, <3>2
    <3>4. g[2] # Blank
      <4>1. CASE n = 0
        <5>1. n + 2 = 2
          BY <4>1
        <5> QED BY <1>2, <5>1
      <4>2. CASE n # 0
        <5>1. 1 \in 1..n /\ 1 + 1 = 2
          BY <1>2, <4>2
        <5>2. g[2] = code[1] /\ code # <<>>
          BY <1>1, <1>2, <4>2, <5>1
        <5> QED BY <5>2
      <4> QED BY <4>1, <4>2
    <3> QED BY <3>3, <3>4
  <2>3. After(m, i) = Collected(Append(u, f))
    <3>1. SubSeq(m, 1, i) = SubSeq(m, 1, i - 1) \o <<m[i]>>
      <4>1. 1 \in 1..Len(m) /\ i \in 1..Len(m)
        BY <1>2, <1>5
      <4> QED BY <1>2, <4>1, SubSeqRecursiveSecond
    <3>2. u \o <<f>> = Append(u, f)
      BY <1>2, <1>6
    <3> QED BY <1>4, <2>2, <3>1, <3>2 DEF After
  <2>4. ~FenceClose(f, Collected(u).fence)
    <3> SUFFICES ASSUME FenceClose(f, Collected(u).fence) PROVE FALSE
      OBVIOUS
    <3>1. ~Fenced(Collected(Append(u, f)))
      BY <1>2, <1>6, <1>10, OneMore DEF Collects
    <3>2. i # Len(m)
      BY <1>2, <1>5
    <3> QED BY <2>1, <2>2, <2>3, <3>1, <3>2
  <2>5. Holds(Collected(u \o g), code)
    BY <1>1, <1>6, <1>10, <2>1, <2>4, RegionSwallowed
  <2>6. u \o g \in Seq(Line)
    BY <1>2, <1>6
  <2> QED BY <1>6, <1>7, <2>5, <2>6, HoldsOn
<1> QED BY <1>9, <1>10

(* What is served shows some blocks if the markdown it is cleaned from has   *)
(* their regions, rows and answers.                                          *)
LEMMA ShowsIfHeld ==
  ASSUME NEW m \in Seq(Line), NEW bs,
         \A code \in CodeOf(bs) : code \in Seq(Line) /\ Holds(Collected(m), code),
         RowsOf(bs) \subseteq TableRows(m),
         \A x \in AnswersOf(bs) : Read(x) \in ToSet(CleanMarkdown(m))
  PROVE  Shows(CleanMarkdown(m), bs)
<1>1. \A code \in CodeOf(bs) : \E block \in FencedBlocks(CleanMarkdown(m)) : HoldsBlock(block, code)
  BY FencesStay DEF Holds, FencedBlocks
<1>2. TableRows(m) \subseteq TableRows(CleanMarkdown(m))
  BY BarsStay DEF TableRows, IsRow
<1> QED BY <1>1, <1>2 DEF Shows

(* Code, rows and answers of the blocks a markdown is of. *)
LEMMA RegionHolds ==
  ASSUME NEW s, NEW inner \in Seq(Line), Region(inner) \in ToSet(s.blocks)
  PROVE  Holds(s, inner)
<1>1. PICK p, f : f = FenceAround(inner) /\ p = <<f>>
  OBVIOUS
<1>2. f \in Line
  BY <1>1, FenceFacts
<1>3. p \in Seq(Line)
  BY <1>1, <1>2
<1>4. HoldsBlock(Append(p \o inner, f), inner)
  BY <1>2, <1>3, HeldInside
<1>5. HoldsBlock(Region(inner), inner)
  BY <1>1, <1>4 DEF Region
<1> QED BY <1>5 DEF Holds

LEMMA OwnRows ==
  ASSUME NEW bs, NEW m, TrimmedAs(bs, m)
  PROVE  RowsOf(bs) \subseteq TableRows(m)
<1> SUFFICES ASSUME NEW x \in RowsOf(bs) PROVE x \in TableRows(m)
  OBVIOUS
<1>1. PICK b \in ToSet(bs) : b.kind = "table" /\ x \in ToSet(b.lines) /\ IsRow(x)
  BY DEF RowsOf
<1>2. b.kind # "code"
  BY <1>1
<1>3. x.ch = "bar"
  BY <1>1 DEF IsRow
<1>4. Blank.ch = ""
  BY DEF Blank
<1>5. x # Blank
  BY <1>3, <1>4
<1>6. x \in ToSet(m)
  BY <1>1, <1>2, <1>5 DEF TrimmedAs
<1> QED BY <1>1, <1>6 DEF TableRows

LEMMA OwnAnswers ==
  ASSUME NEW bs, NEW m, TrimmedAs(bs, m),
         NEW b \in ToSet(bs), b.kind = "answer", NEW x \in ToSet(b.lines), x.ch # ""
  PROVE  Read(x) \in ToSet(CleanMarkdown(m))
<1>1. ReadIn(b.lines, m)
  BY DEF TrimmedAs
<1> QED BY <1>1 DEF ReadIn, CleanMarkdown

LEMMA OwnCode ==
  ASSUME NEW bs, NEW m, TrimmedAs(bs, m), NEW b \in ToSet(bs), b.kind = "code",
         b.lines \in Seq(Line)
  PROVE  Holds(Collected(m), b.lines)
BY RegionHolds DEF TrimmedAs

(* Nothing is lost of a well-formed page, whatever main_content_markdown     *)
(* decides.                                                                  *)
LEMMA PageComplete ==
  ASSUME NEW page, WellformedPage(page)
  PROVE  Complete(page)
<1>1. PICK side, main, bs : side = page.side /\ main = page.main /\ bs = side \o main
  OBVIOUS
<1>2. /\ side \in Seq(WellformedBlocks) /\ main \in Seq(WellformedBlocks)
      /\ bs \in Seq(WellformedBlocks) /\ ToSet(bs) = ToSet(side) \cup ToSet(main)
  <2>1. side \in Seq(WellformedBlocks) /\ main \in Seq(WellformedBlocks)
    BY <1>1 DEF WellformedPage
  <2> QED BY <1>1, <2>1, ConcatSet
<1>3. \A b \in ToSet(bs) : b \in WellformedBlocks
  BY <1>2, ElementsOf
<1>4. PICK all : all = HtmlToMarkdown(bs)
  OBVIOUS
<1>5. TrimmedAs(bs, all) /\ all \in Seq(Line) /\ all = Baseline(page)
  <2>1. TrimmedAs(bs, all)
    BY <1>2, <1>4, MarkdownSound
  <2> QED BY <1>1, <1>4, <2>1 DEF TrimmedAs, Baseline
<1>6. CASE ~KeepExtracted(page)
  <2>1. MainContentMarkdown(page) = all
    BY <1>5, <1>6 DEF MainContentMarkdown
  <2>2. \A code \in CodeOf(bs) : code \in Seq(Line) /\ Holds(Collected(all), code)
    BY <1>3, <1>5, OwnCode, BlockFacts DEF CodeOf
  <2>3. RowsOf(bs) \subseteq TableRows(all)
    BY <1>5, OwnRows
  <2>4. ASSUME NEW x \in AnswersOf(bs) PROVE Read(x) \in ToSet(CleanMarkdown(all))
    <3>1. PICK b \in ToSet(bs) : b.kind = "answer" /\ x \in ToSet(b.lines) /\ x.ch # ""
      BY DEF AnswersOf
    <3> QED BY <1>5, <3>1, OwnAnswers
  <2>5. Shows(CleanMarkdown(all), bs)
    BY <1>5, <2>2, <2>3, <2>4, ShowsIfHeld
  <2> QED BY <1>1, <2>1, <2>5 DEF Complete
<1>7. CASE KeepExtracted(page)
  <2>1. PICK m : m = HtmlToMarkdown(main)
    OBVIOUS
  <2>2. MainContentMarkdown(page) = m
    BY <1>1, <1>7, <2>1 DEF MainContentMarkdown
  <2>3. /\ \A block \in FencedBlocks(all) : HoldsBlock(m, block)
        /\ TableRows(all) \subseteq TableRows(m) /\ ~ThreadOutside(page)
    BY <1>1, <1>5, <1>7, <2>1 DEF KeepExtracted
  <2>4. TrimmedAs(main, m) /\ m \in Seq(Line)
    BY <1>2, <2>1, MarkdownSound DEF TrimmedAs
  <2>5. ASSUME NEW code \in CodeOf(bs) PROVE code \in Seq(Line) /\ Holds(Collected(m), code)
    <3>1. PICK b \in ToSet(bs) : b.kind = "code" /\ code = b.lines
      BY DEF CodeOf
    <3>2. code \in Seq(Line) /\ (code # <<>> => code[1] # Blank)
      BY <1>3, <3>1, BlockFacts
    <3>3. Region(code) \in ToSet(Collected(all).blocks)
      BY <1>5, <3>1 DEF TrimmedAs
    <3>4. HoldsBlock(m, Region(code))
      BY <2>3, <3>3 DEF FencedBlocks
    <3> QED BY <2>4, <3>2, <3>4, FoundIsFenced
  <2>6. RowsOf(bs) \subseteq TableRows(m)
    BY <1>5, <2>3, OwnRows
  <2>7. ASSUME NEW x \in AnswersOf(bs) PROVE Read(x) \in ToSet(CleanMarkdown(m))
    <3>1. PICK b \in ToSet(bs) : b.kind = "answer" /\ x \in ToSet(b.lines) /\ x.ch # ""
      BY DEF AnswersOf
    <3>2. b \notin ToSet(side)
      BY <1>1, <2>3, <3>1 DEF ThreadOutside
    <3>3. b \in ToSet(main)
      BY <1>2, <3>2
    <3> QED BY <2>4, <3>1, <3>3, OwnAnswers
  <2>8. Shows(CleanMarkdown(m), bs)
    BY <2>4, <2>5, <2>6, <2>7, ShowsIfHeld
  <2> QED BY <1>1, <2>2, <2>8 DEF Complete
<1> QED BY <1>6, <1>7

(* So no static answer is a page of which something is lost. *)
LEMMA AnswerComplete ==
  ASSUME NEW r, WellformedPage(r.page), StaticOutcome(r).to = "page"
  PROVE  StaticOutcome(r).complete
<1>1. StaticOutcome(r) \in {Handover, Failed, Page(r.type = "html" => Complete(r.page))}
  BY DEF StaticOutcome
<1>2. Handover.to # "page" /\ Failed.to # "page"
  BY DEF Handover, Failed
<1>3. StaticOutcome(r) = Page(r.type = "html" => Complete(r.page))
  BY <1>1, <1>2
<1>4. Complete(r.page)
  BY PageComplete
<1>5. Page(r.type = "html" => Complete(r.page)).complete = (r.type = "html" => Complete(r.page))
  BY DEF Page
<1>6. Page(r.type = "html" => Complete(r.page)).complete
  BY <1>4, <1>5
<1> QED BY <1>3, <1>6

-----------------------------------------------------------------------------
(* Fetch.                                                                  *)
USE DEF Hosts, Urls, Callers, Timed, Untimed, PCs, Results

(* One call moves or ends, the others stay. *)
LEMMA MoveType ==
  ASSUME TypeOK, NEW c \in Calls, NEW at \in PCs, Move(c, at)
  PROVE  /\ pc' \in [Calls -> PCs] /\ since' \in [Calls -> Nat]
         /\ start' = start /\ result' = result
         /\ waited' \in [Calls -> Int]
         /\ now >= since[c] => waited' \in [Calls -> Nat]
BY DEF TypeOK, Move, Waits

LEMMA EndType ==
  ASSUME TypeOK, NEW c \in Calls, NEW r \in Results, End(c, r)
  PROVE  /\ pc' \in [Calls -> PCs] /\ url' \in [Calls -> Urls] /\ host' \in [Calls -> Hosts]
         /\ hops' \in [Calls -> Nat] /\ since' \in [Calls -> Nat] /\ start' \in [Calls -> Nat]
         /\ result' \in [Calls -> Results]
         /\ now >= since[c] => waited' \in [Calls -> Nat]
BY DEF TypeOK, End, Waits

(* A connection reaches an address the resolver or the host itself gave.   *)
LEMMA Connected ==
  ASSUME TypeOK, NEW c \in Calls, Connect(c)
  PROVE  /\ reached' \subseteq {"public", "private"}
         /\ PublicOnly /\ host[c] # "private" /\ PublicOnlyReached => PublicOnlyReached'
<1>1. PICK answer \in Answers \ {{}} : \E a \in Resolve(host[c], answer) :
        reached' = reached \cup {a}
  BY DEF Connect
<1>2. PICK a \in Resolve(host[c], answer) : reached' = reached \cup {a}
  BY <1>1
<1>3. answer \subseteq {"public", "private"} /\ host[c] \in Hosts
  BY DEF Answers, TypeOK
<1>4. CASE host[c] = "name"
  BY <1>2, <1>3, <1>4 DEF Resolve, Forbidden, TypeOK, PublicOnlyReached
<1>5. CASE host[c] # "name"
  BY <1>2, <1>3, <1>5 DEF Resolve, TypeOK, PublicOnlyReached
<1> QED BY <1>4, <1>5

LEMMA Reserved ==
  ASSUME FetchAssumption, TypeOK, NEW c \in Callers, ReserveSlot(c)
  PROVE  /\ nextFree' \in Nat /\ slot' \in [Callers -> Nat \cup {-1}]
         /\ slot'[c] >= nextFree /\ nextFree' = slot'[c] + Gap
         /\ \A d \in Callers \ {c} : slot'[d] = slot[d]
BY DEF FetchAssumption, TypeOK, ReserveSlot, Max2, gate
-----------------------------------------------------------------------------
(* The time of a call: what it has used up before its last wait, but for   *)
(* waits without a timeout, is at most one static request, and a wait with *)
(* a timeout is not over it.                                               *)
InTime(c) ==
  /\ start[c] <= since[c] /\ since[c] <= now
  /\ pc[c] = "idle" => waited[c] = 0
  /\ pc[c] \in {"static", "index"} => since[c] = start[c] /\ waited[c] = 0
  /\ pc[c] \in {"lookup", "slot", "api", "browser"} =>
       since[c] - start[c] <= StaticTimeout + waited[c]
  /\ pc[c] \in Timed => now <= since[c] + Limit(pc[c])
  /\ pc[c] # "done" => result[c] = "none"

TimeInv == TypeOK /\ (\A c \in Calls : InTime(c)) /\ CutOnlyAfterWaiting

(* No host a private one, under the policy. *)
HostInv == PublicOnly => \A c \in Calls : host[c] # "private"

(* The slots given lie a gap before the next. *)
GateInv ==
  /\ \A c \in Callers : slot[c] # -1 => slot[c] + Gap <= nextFree
  /\ GateRate
-----------------------------------------------------------------------------
LEMMA InitAll ==
  ASSUME FetchAssumption, Init
  PROVE  TimeInv /\ HostInv /\ PublicOnlyReached /\ GateInv
<1>1. TypeOK
  BY DEF FetchAssumption, Init, TypeOK, Site
<1>2. \A c \in Calls : InTime(c)
  BY DEF FetchAssumption, Init, InTime
<1> QED
  BY <1>1, <1>2 DEF FetchAssumption, Init, TimeInv, CutOnlyAfterWaiting, HostInv,
                    PublicOnlyReached, GateInv, GateRate
-----------------------------------------------------------------------------
(* A call that goes from a wait to the next. *)
LEMMA MoveTime ==
  ASSUME FetchAssumption, TimeInv, TypeOK', NEW c \in Calls, NEW at \in PCs, Move(c, at), now' = now,
         \/ pc[c] \in {"static", "index"} /\ at \in {"lookup", "slot"}
         \/ pc[c] \in {"lookup", "slot"} /\ at \in {"api", "browser"}
  PROVE  TimeInv'
<1>1. \A d \in Calls \ {c} : InTime(d)'
  <2> TAKE d \in Calls \ {c}
  <2>1. /\ pc'[d] = pc[d] /\ since'[d] = since[d] /\ start'[d] = start[d]
        /\ waited'[d] = waited[d] /\ result'[d] = result[d]
    BY DEF TimeInv, TypeOK, Move
  <2> QED BY <2>1 DEF TimeInv, InTime
<1>2. InTime(c)'
  <2>1. /\ pc'[c] = at /\ since'[c] = now /\ start'[c] = start[c]
        /\ waited'[c] = Waits(c) /\ result'[c] = result[c]
    BY DEF TimeInv, TypeOK, Move
  <2>2. start[c] \in Nat /\ since[c] \in Nat /\ now \in Nat /\ waited[c] \in Nat
    BY DEF TimeInv, TypeOK
  <2>3. Limit(at) \in Nat /\ StaticTimeout \in Nat
    BY DEF FetchAssumption, Limit
  <2>4. InTime(c)
    BY DEF TimeInv
  <2>5. CASE pc[c] \in {"static", "index"}
    BY <2>1, <2>2, <2>3, <2>4, <2>5 DEF InTime, Waits, Limit
  <2>6. CASE pc[c] \in {"lookup", "slot"}
    BY <2>1, <2>2, <2>3, <2>4, <2>6 DEF InTime, Waits
  <2> QED BY <2>5, <2>6
<1>3. CutOnlyAfterWaiting'
  <2> SUFFICES ASSUME NEW d \in Calls, result'[d] = "cut"
      PROVE  waited'[d] + StaticTimeout + Max2(StaticTimeout, BrowserTimeout) >= ToolTimeout
    BY DEF CutOnlyAfterWaiting
  <2>1. result[d] = "cut"
    BY DEF Move
  <2>2. d # c
    BY <2>1 DEF TimeInv, InTime
  <2>3. waited'[d] = waited[d]
    BY <2>2 DEF TimeInv, TypeOK, Move
  <2> QED BY <2>1, <2>3 DEF TimeInv, CutOnlyAfterWaiting
<1> QED BY <1>1, <1>2, <1>3 DEF TimeInv

(* A call that ends; if it is cut, it has waited long enough. *)
LEMMA EndTime ==
  ASSUME FetchAssumption, TimeInv, TypeOK', NEW c \in Calls, NEW r \in Results, End(c, r), now' = now,
         r = "cut" =>
           Waits(c) + StaticTimeout + Max2(StaticTimeout, BrowserTimeout) >= ToolTimeout
  PROVE  TimeInv'
<1>1. \A d \in Calls \ {c} :
        /\ pc'[d] = pc[d] /\ since'[d] = since[d] /\ start'[d] = start[d]
        /\ waited'[d] = waited[d] /\ result'[d] = result[d]
  BY DEF TimeInv, TypeOK, End
<1>2. /\ pc'[c] = "done" /\ since'[c] = 0 /\ start'[c] = 0
      /\ waited'[c] = Waits(c) /\ result'[c] = r
  BY DEF TimeInv, TypeOK, End
<1>3. \A d \in Calls : InTime(d)'
  <2> TAKE d \in Calls
  <2>1. CASE d = c
    BY <1>2, <2>1 DEF TimeInv, TypeOK, InTime
  <2>2. CASE d # c
    BY <1>1, <2>2 DEF TimeInv, InTime
  <2> QED BY <2>1, <2>2
<1>4. CutOnlyAfterWaiting'
  BY <1>1, <1>2 DEF TimeInv, CutOnlyAfterWaiting
<1> QED BY <1>3, <1>4 DEF TimeInv

(* A step of no call's time. *)
LEMMA SameTime ==
  ASSUME TimeInv, TypeOK', now' = now, UNCHANGED <<pc, timing, result>>
  PROVE  TimeInv'
BY DEF TimeInv, InTime, CutOnlyAfterWaiting, timing

(* An action of a call that is not the loop's cut ends it with another     *)
(* result.                                                                 *)
LEMMA EndsUncut ==
  ASSUME FetchAssumption, TimeInv, NEW c \in Calls, NEW r \in Results \ {"cut"}, End(c, r),
         UNCHANGED <<site, now, gate>>, reached' \subseteq {"public", "private"}
  PROVE  TimeInv'
<1>1. now >= since[c] /\ TypeOK
  BY DEF TimeInv, InTime
<1>2. TypeOK'
  BY <1>1, EndType DEF TypeOK, gate
<1> QED BY <1>2, EndTime

LEMMA Moves ==
  ASSUME FetchAssumption, TimeInv, NEW c \in Calls, NEW at \in PCs, Move(c, at), UNCHANGED <<site, now>>,
         url' \in [Calls -> Urls], host' \in [Calls -> Hosts], hops' \in [Calls -> Nat],
         \/ pc[c] \in {"static", "index"} /\ at \in {"lookup", "slot"}
         \/ pc[c] \in {"lookup", "slot"} /\ at \in {"api", "browser"},
         nextFree' \in Nat, slot' \in [Callers -> Nat \cup {-1}],
         reached' \subseteq {"public", "private"}
  PROVE  TimeInv'
<1>1. now >= since[c] /\ TypeOK
  BY DEF TimeInv, InTime
<1>2. TypeOK'
  BY <1>1, MoveType DEF TypeOK
<1> QED BY <1>2, MoveTime

LEMMA FailsTime ==
  ASSUME FetchAssumption, TimeInv, NEW c \in Calls, NEW r \in {"refused", "failed"}, Fails(c, r),
         UNCHANGED <<site, now, gate>>, reached' \subseteq {"public", "private"}
  PROVE  TimeInv'
<1>1. PICK s \in {"refused", "failed", "api"} : End(c, s)
  BY DEF Fails
<1> QED BY <1>1, EndsUncut
-----------------------------------------------------------------------------
LEMMA TimeStep ==
  ASSUME FetchAssumption, TimeInv, [Next]_vars
  PROVE  TimeInv'
<1> USE DEF to, gate
<1>1. TypeOK
  BY DEF TimeInv
<1>2. reached \subseteq {"public", "private"}
  BY <1>1 DEF TypeOK
<1>3. ASSUME NEW c \in Calls, Call(c)
      PROVE  TimeInv'
  <2>1. ASSUME NEW u \in Urls, Start(c, u)
        PROVE  TimeInv'
    <3>1. CASE u = "invalid" \/ ~CheckUrlHost(u)
      <4>1. PICK r \in {"failed", "refused"} : End(c, r)
        BY <2>1, <3>1 DEF Start
      <4> QED BY <1>2, <2>1, <4>1, EndsUncut DEF Start
    <3>2. CASE ~(u = "invalid" \/ ~CheckUrlHost(u))
      <4>1. /\ pc' = [pc EXCEPT ![c] = IF u = "crate" THEN "index" ELSE "static"]
            /\ start' = [start EXCEPT ![c] = now] /\ since' = [since EXCEPT ![c] = now]
            /\ url' = [url EXCEPT ![c] = u]
            /\ host' = [host EXCEPT ![c] = IF u \in Hosts THEN u ELSE "name"]
            /\ UNCHANGED <<hops, waited, result, site, now, gate, reached>> /\ pc[c] = "idle"
        BY <2>1, <3>2 DEF Start
      <4>2. TypeOK'
        BY <1>1, <4>1 DEF TypeOK
      <4>3. \A d \in Calls : InTime(d)'
        <5> TAKE d \in Calls
        <5>1. CASE d = c
          <6>1. /\ pc'[c] \in {"index", "static"} /\ start'[c] = now /\ since'[c] = now
                /\ waited'[c] = waited[c] /\ result'[c] = result[c] /\ InTime(c)
            BY <1>1, <4>1 DEF TypeOK, TimeInv
          <6>2. waited[c] = 0 /\ result[c] = "none"
            BY <4>1, <6>1 DEF InTime
          <6> QED BY <1>1, <4>1, <5>1, <6>1, <6>2 DEF TypeOK, InTime, FetchAssumption, Limit
        <5>2. CASE d # c
          <6>1. /\ pc'[d] = pc[d] /\ start'[d] = start[d] /\ since'[d] = since[d]
            BY <1>1, <4>1, <5>2 DEF TypeOK
          <6> QED BY <4>1, <6>1 DEF TimeInv, InTime
        <5> QED BY <5>1, <5>2
      <4> QED BY <4>1, <4>2, <4>3 DEF TimeInv, CutOnlyAfterWaiting
    <3> QED BY <3>1, <3>2
  <2>2. ASSUME NEW h \in Hosts, Redirect(c, h)
        PROVE  TimeInv'
    <3>1. UNCHANGED <<site, now, gate>> /\ reached' \subseteq {"public", "private"}
      BY <1>1, <2>2, Connected DEF Redirect
    <3>2. CASE Fails(c, "failed") \/ Fails(c, "refused")
      BY <3>1, <3>2, FailsTime
    <3>3. CASE Follow(c, h)
      <4>1. TypeOK'
        BY <1>1, <3>1, <3>3 DEF TypeOK, Follow, timing
      <4> QED BY <3>1, <3>3, <4>1, SameTime DEF Follow
    <3> QED BY <2>2, <3>2, <3>3 DEF Redirect
  <2>3. CASE Refused(c)
    <3>1. PICK r \in {"refused", "failed"} : Fails(c, r)
      BY <2>3 DEF Refused
    <3> QED BY <1>2, <2>3, <3>1, FailsTime DEF Refused
  <2>4. CASE SendFails(c) \/ RequestTimesOut(c)
    <3>1. Fails(c, "failed") /\ UNCHANGED <<site, now, gate, reached>>
      BY <2>4 DEF SendFails, RequestTimesOut
    <3> QED BY <1>2, <3>1, FailsTime
  <2>5. CASE Answered(c)
    <3>1. UNCHANGED <<site, now, gate>> /\ reached' \subseteq {"public", "private"} /\ pc[c] = "static"
      BY <1>1, <2>5, Connected DEF Answered
    <3>2. CASE Move(c, "lookup") /\ UNCHANGED to
      BY <1>1, <3>1, <3>2, Moves DEF TypeOK
    <3>3. CASE \E r \in Results \ {"cut"} : End(c, r)
      BY <3>1, <3>3, EndsUncut
    <3> QED BY <2>5, <3>2, <3>3 DEF Answered
  <2>6. CASE Spawn(c)
    <3>1. CASE Move(c, "browser") /\ UNCHANGED to
      BY <1>1, <1>2, <2>6, <3>1, Moves DEF TypeOK, Spawn
    <3>2. CASE \E r \in Results \ {"cut"} : End(c, r)
      BY <1>2, <2>6, <3>2, EndsUncut DEF Spawn
    <3> QED BY <2>6, <3>1, <3>2 DEF Spawn
  <2>7. CASE BrowserEnds(c) \/ BrowserTimesOut(c)
    <3>1. PICK r \in {"browser", "failed"} : End(c, r)
      BY <2>7 DEF BrowserEnds, BrowserTimesOut
    <3> QED BY <1>2, <2>7, <3>1, EndsUncut DEF BrowserEnds, BrowserTimesOut
  <2>8. CASE IndexAnswered(c)
    <3>1. UNCHANGED <<site, now>> /\ reached' \subseteq {"public", "private"} /\ pc[c] = "index"
      BY <1>1, <2>8, Connected DEF IndexAnswered
    <3>2. CASE Move(c, "slot") /\ ReserveSlot(c) /\ UNCHANGED to
      <4>1. nextFree' \in Nat /\ slot' \in [Callers -> Nat \cup {-1}]
        BY <1>1, <3>2, Reserved
      <4> QED BY <1>1, <3>1, <3>2, <4>1, Moves DEF TypeOK
    <3>3. CASE End(c, "failed") /\ UNCHANGED gate
      BY <3>1, <3>3, EndsUncut
    <3> QED BY <2>8, <3>2, <3>3 DEF IndexAnswered
  <2>9. CASE SendApi(c)
    <3>1. /\ url' \in [Calls -> Urls] /\ host' \in [Calls -> Hosts] /\ hops' \in [Calls -> Nat]
          /\ nextFree' \in Nat /\ slot' \in [Callers -> Nat \cup {-1}]
      BY <1>1, <2>9 DEF SendApi, TypeOK
    <3> QED BY <1>2, <2>9, <3>1, Moves DEF SendApi
  <2>10. CASE ApiAnswered(c)
    <3>1. UNCHANGED <<site, now, gate>> /\ reached' \subseteq {"public", "private"} /\ End(c, "api")
      BY <1>1, <2>10, Connected DEF ApiAnswered
    <3> QED BY <3>1, EndsUncut
  <2>11. CASE Cut(c)
    <3>1. /\ pc[c] \notin {"idle", "done"} /\ now >= start[c] + ToolTimeout
          /\ End(c, "cut") /\ UNCHANGED <<site, now, gate, reached>> /\ InTime(c)
      BY <2>11 DEF Cut, TimeInv
    <3>2. TypeOK'
      BY <1>1, <3>1, EndType DEF TypeOK, InTime
    <3>3. /\ start[c] \in Nat /\ since[c] \in Nat /\ now \in Nat /\ waited[c] \in Nat /\ pc[c] \in PCs
          /\ StaticTimeout \in Nat /\ BrowserTimeout \in Nat /\ ToolTimeout \in Nat
          /\ StaticTimeout + BrowserTimeout < ToolTimeout
      BY <1>1 DEF TypeOK, FetchAssumption
    <3>4. CASE pc[c] \in {"static", "index"}
      BY <3>1, <3>3, <3>4 DEF InTime, Limit
    <3>5. CASE pc[c] \in {"lookup", "slot"}
      <4>1. Waits(c) + StaticTimeout >= ToolTimeout
        BY <3>1, <3>3, <3>5 DEF InTime, Waits
      <4>2. Waits(c) \in Int /\ Max2(StaticTimeout, BrowserTimeout) \in Nat
        BY <3>3 DEF Waits, Max2
      <4>3. Waits(c) + StaticTimeout + Max2(StaticTimeout, BrowserTimeout) >= ToolTimeout
        BY <3>3, <4>1, <4>2
      <4> QED BY <3>1, <3>2, <4>3, EndTime
    <3>6. CASE pc[c] \in {"api", "browser"}
      <4>1. /\ Limit(pc[c]) <= Max2(StaticTimeout, BrowserTimeout) /\ Limit(pc[c]) \in Nat
            /\ Max2(StaticTimeout, BrowserTimeout) \in Nat
        BY <3>3, <3>6 DEF Limit, Max2
      <4>2. Waits(c) + StaticTimeout + Max2(StaticTimeout, BrowserTimeout) >= ToolTimeout
        BY <3>1, <3>3, <3>6, <4>1 DEF InTime, Waits
      <4> QED BY <3>1, <3>2, <4>2, EndTime
    <3> QED BY <3>1, <3>3, <3>4, <3>5, <3>6
  <2> QED BY <1>3, <2>1, <2>2, <2>3, <2>4, <2>5, <2>6, <2>7, <2>8, <2>9, <2>10, <2>11 DEF Call
<1>4. ASSUME NEW l \in SearchLegs, LegAsks(l)
      PROVE  TimeInv'
  <2>1. TypeOK'
    BY <1>1, <1>4, Reserved DEF LegAsks, TypeOK, timing
  <2> QED BY <1>4, <2>1, SameTime DEF LegAsks
<1>5. CASE Tick
  <2>1. TypeOK'
    BY <1>1, <1>5 DEF TypeOK, Tick, timing
  <2>2. \A c \in Calls : InTime(c)'
    <3> TAKE c \in Calls
    <3>1. InTime(c) /\ ~Due(c)
      BY <1>5 DEF TimeInv, Tick
    <3>2. /\ start[c] \in Nat /\ since[c] \in Nat /\ now \in Nat /\ waited[c] \in Nat
          /\ pc[c] \in Timed => Limit(pc[c]) \in Nat
      BY <1>1 DEF TypeOK, FetchAssumption, Limit
    <3> QED BY <1>5, <3>1, <3>2 DEF InTime, Due, Tick, timing
  <2> QED BY <1>5, <2>1, <2>2 DEF TimeInv, CutOnlyAfterWaiting, Tick, timing
<1>6. CASE UNCHANGED vars
  BY <1>6 DEF TimeInv, TypeOK, InTime, CutOnlyAfterWaiting, vars, timing
<1> QED BY <1>3, <1>4, <1>5, <1>6 DEF Next
-----------------------------------------------------------------------------
(* The host of a call is one it may be sent to: the URL's own and each     *)
(* redirect's were judged, and a name is judged by its resolver.           *)
LEMMA PublicStep ==
  ASSUME TypeOK, HostInv, PublicOnlyReached, [Next]_vars
  PROVE  HostInv' /\ PublicOnlyReached'
<1> USE DEF to
<1>1. ASSUME NEW c \in Calls, Call(c)
      PROVE  HostInv' /\ PublicOnlyReached'
  <2>1. ASSUME NEW r, End(c, r)
        PROVE  HostInv'
    BY <2>1 DEF TypeOK, End, HostInv
  <2>2. ASSUME NEW r, Fails(c, r)
        PROVE  HostInv'
    BY <2>1, <2>2 DEF Fails
  <2>3. Connect(c) => PublicOnlyReached'
    BY Connected DEF HostInv, PublicOnlyReached
  <2>4. reached' = reached => PublicOnlyReached'
    BY DEF PublicOnlyReached
  <2>5. UNCHANGED to => HostInv'
    BY DEF HostInv
  <2>6. ASSUME NEW u \in Urls, Start(c, u)
        PROVE  HostInv' /\ PublicOnlyReached'
    BY <2>1, <2>4, <2>6 DEF Start, TypeOK, HostInv, CheckUrlHost, Forbidden
  <2>7. ASSUME NEW h \in Hosts, Redirect(c, h)
        PROVE  HostInv' /\ PublicOnlyReached'
    <3>1. CheckUrlHost(h) /\ Follow(c, h) => HostInv'
      BY DEF Follow, TypeOK, HostInv, CheckUrlHost, Forbidden
    <3> QED BY <2>2, <2>3, <2>7, <3>1 DEF Redirect
  <2>8. CASE SendApi(c)
    BY <2>4, <2>8 DEF SendApi, TypeOK, HostInv
  <2>9. CASE Refused(c) \/ SendFails(c) \/ RequestTimesOut(c)
    BY <2>2, <2>4, <2>9 DEF Refused, SendFails, RequestTimesOut
  <2>10. CASE Answered(c) \/ IndexAnswered(c) \/ ApiAnswered(c)
    BY <2>1, <2>3, <2>5, <2>10 DEF Answered, IndexAnswered, ApiAnswered
  <2>11. CASE Spawn(c) \/ BrowserEnds(c) \/ BrowserTimesOut(c) \/ Cut(c)
    BY <2>1, <2>4, <2>5, <2>11 DEF Spawn, BrowserEnds, BrowserTimesOut, Cut
  <2> QED BY <1>1, <2>6, <2>7, <2>8, <2>9, <2>10, <2>11 DEF Call
<1>2. ASSUME UNCHANGED <<host, reached>>
      PROVE  HostInv' /\ PublicOnlyReached'
  BY <1>2 DEF HostInv, PublicOnlyReached
<1>3. \A l \in SearchLegs : LegAsks(l) => UNCHANGED <<host, reached>>
  BY DEF LegAsks
<1>4. Tick => UNCHANGED <<host, reached>>
  BY DEF Tick
<1> QED BY <1>1, <1>2, <1>3, <1>4 DEF Next, vars

(* Slots are only given past the last, whoever asks. *)
LEMMA GateStep ==
  ASSUME FetchAssumption, TypeOK, GateInv, [Next]_vars
  PROVE  GateInv'
<1>1. ASSUME NEW c \in Callers, ReserveSlot(c)
      PROVE  GateInv'
  <2>1. /\ nextFree' \in Nat /\ nextFree \in Nat /\ Gap \in Nat
        /\ slot' \in [Callers -> Nat \cup {-1}] /\ slot \in [Callers -> Nat \cup {-1}]
        /\ slot'[c] >= nextFree /\ nextFree' = slot'[c] + Gap
        /\ \A d \in Callers \ {c} : slot'[d] = slot[d]
    BY <1>1, Reserved DEF TypeOK, FetchAssumption
  <2>2. \A d \in Callers \ {c} : slot'[d] # -1 => slot'[d] + Gap <= slot'[c]
    BY <2>1 DEF GateInv
  <2>3. \A d \in Callers : slot'[d] # -1 => slot'[d] + Gap <= nextFree'
    BY <2>1, <2>2
  <2>4. GateRate'
    <3> SUFFICES ASSUME NEW x \in Callers, NEW y \in Callers, x # y, slot'[x] # -1, slot'[y] # -1
        PROVE  slot'[x] + Gap <= slot'[y] \/ slot'[y] + Gap <= slot'[x]
      BY DEF GateRate
    <3>1. CASE x = c \/ y = c
      BY <2>2, <3>1
    <3>2. CASE x # c /\ y # c
      BY <2>1, <3>2 DEF GateInv, GateRate
    <3> QED BY <3>1, <3>2
  <2> QED BY <2>3, <2>4 DEF GateInv
<1>2. ASSUME UNCHANGED gate
      PROVE  GateInv'
  BY <1>2 DEF gate, GateInv, GateRate
<1>3. ASSUME NEW c \in Calls, Call(c)
      PROVE  UNCHANGED gate \/ ReserveSlot(c)
  BY <1>3 DEF Call, Start, Redirect, Refused, SendFails, RequestTimesOut, Answered, Spawn,
              BrowserEnds, BrowserTimesOut, IndexAnswered, SendApi, ApiAnswered, Cut
<1> QED BY <1>1, <1>2, <1>3 DEF Next, LegAsks, Tick, vars
-----------------------------------------------------------------------------
(* Every reachable state is well typed. *)
THEOREM TypeCorrect == Spec => []TypeOK
<1>1. TimeInv /\ [Next]_vars => TimeInv'
  BY FetchAssumption, TimeStep
<1>2. Init => TimeInv
  BY FetchAssumption, InitAll
<1>3. TimeInv => TypeOK
  BY DEF TimeInv
<1> QED BY <1>1, <1>2, <1>3, PTL DEF Spec

(* A fetch is cut by the agent loop only after waits without a timeout: the *)
(* timeouts of fetcher.rs and obscura.rs fit in the tool call's.           *)
THEOREM TimeoutsFit == Spec => []CutOnlyAfterWaiting
<1>1. TimeInv /\ [Next]_vars => TimeInv'
  BY FetchAssumption, TimeStep
<1>2. Init => TimeInv
  BY FetchAssumption, InitAll
<1>3. TimeInv => CutOnlyAfterWaiting
  BY DEF TimeInv
<1> QED BY <1>1, <1>2, <1>3, PTL DEF Spec

(* The static client connects to no private address, through any chain of  *)
(* redirects and any answers of the resolver (egress.rs).                  *)
THEOREM OnlyPublic == Spec => []PublicOnlyReached
<1>1. TypeOK /\ HostInv /\ PublicOnlyReached /\ [Next]_vars => HostInv' /\ PublicOnlyReached'
  BY PublicStep
<1>2. Init => HostInv /\ PublicOnlyReached
  BY FetchAssumption, InitAll
<1> QED BY <1>1, <1>2, TypeCorrect, PTL DEF Spec

(* The slots of the crates.io gate lie at least a gap apart (crates_io.rs). *)
THEOREM GateSpaced == Spec => []GateRate
<1>1. TypeOK /\ GateInv /\ [Next]_vars => GateInv'
  BY FetchAssumption, GateStep
<1>2. Init => GateInv
  BY FetchAssumption, InitAll
<1>3. GateInv => GateRate
  BY DEF GateInv
<1> QED BY <1>1, <1>2, <1>3, TypeCorrect, PTL DEF Spec
-----------------------------------------------------------------------------
(* A page is served as partial only if the static answer is one, and the   *)
(* answer is the same for as long as the process runs.                     *)
KeptInv == site \in Bodies /\ NothingLost

LEMMA KeptStep ==
  ASSUME \A body \in Bodies : body.to = "page" => body.complete,
         TypeOK, KeptInv, [Next]_vars
  PROVE  KeptInv'
<1>1. ASSUME NEW c \in Calls, NEW r, r # "partial", End(c, r)
      PROVE  NothingLost'
  BY <1>1 DEF TypeOK, End, KeptInv, NothingLost
<1>2. ASSUME NEW c \in Calls, NEW r, r # "partial", Fails(c, r)
      PROVE  NothingLost'
  BY <1>1, <1>2 DEF Fails
<1>3. ASSUME UNCHANGED result
      PROVE  NothingLost'
  BY <1>3 DEF KeptInv, NothingLost
<1>4. \A c \in Calls, at \in PCs : Move(c, at) => UNCHANGED result
  BY DEF Move
<1>5. site.to = "page" => site.complete
  BY DEF KeptInv
<1>6. ASSUME NEW c \in Calls, Call(c)
      PROVE  NothingLost' /\ UNCHANGED site
  <2>1. ASSUME NEW u \in Urls, Start(c, u) PROVE NothingLost' /\ UNCHANGED site
    BY <1>1, <1>3, <2>1 DEF Start
  <2>2. ASSUME NEW h \in Hosts, Redirect(c, h) PROVE NothingLost' /\ UNCHANGED site
    BY <1>2, <1>3, <2>2 DEF Redirect, Follow
  <2>3. CASE Refused(c) \/ SendFails(c) \/ RequestTimesOut(c)
    BY <1>2, <2>3 DEF Refused, SendFails, RequestTimesOut
  <2>4. CASE Answered(c)
    BY <1>1, <1>3, <1>4, <1>5, <2>4 DEF Answered
  <2>5. CASE Spawn(c) \/ BrowserEnds(c) \/ BrowserTimesOut(c) \/ Cut(c)
    BY <1>1, <1>3, <1>4, <2>5 DEF Spawn, BrowserEnds, BrowserTimesOut, Cut
  <2>6. CASE IndexAnswered(c) \/ SendApi(c) \/ ApiAnswered(c)
    BY <1>1, <1>3, <1>4, <2>6 DEF IndexAnswered, SendApi, ApiAnswered
  <2> QED BY <1>6, <2>1, <2>2, <2>3, <2>4, <2>5, <2>6 DEF Call
<1>7. ASSUME UNCHANGED <<site, result>> PROVE KeptInv'
  BY <1>3, <1>7 DEF KeptInv
<1>8. \A l \in SearchLegs : LegAsks(l) => UNCHANGED <<site, result>>
  BY DEF LegAsks
<1>9. Tick => UNCHANGED <<site, result>>
  BY DEF Tick
<1> QED BY <1>6, <1>7, <1>8, <1>9 DEF Next, vars, KeptInv

(* A page served from its main content keeps the code, the tables and the  *)
(* answers of the whole page, as the agent reads them after the cleanup    *)
(* (fetcher.rs, extract.rs, clean.rs), for pages of any number of blocks   *)
(* of any length, if only code opens a fence and code does not begin with  *)
(* an empty line.                                                          *)
THEOREM NothingIsLost ==
  ASSUME \A body \in Bodies : \E r : WellformedPage(r.page) /\ body = StaticOutcome(r)
  PROVE  Spec => []NothingLost
<1>1. \A body \in Bodies : body.to = "page" => body.complete
  BY AnswerComplete
<1>2. Init => KeptInv
  BY DEF Init, KeptInv, NothingLost
<1>3. TypeOK /\ KeptInv /\ [Next]_vars => KeptInv'
  BY <1>1, KeptStep
<1>4. KeptInv => NothingLost
  BY DEF KeptInv
<1> QED BY <1>2, <1>3, <1>4, TypeCorrect, PTL DEF Spec
=============================================================================
