----------------------------- MODULE SearchCache -----------------------------
(***************************************************************************)
(* The search cache (src/src/web/search/cache.rs, web/cache_dir.rs): one   *)
(* file per cache key under <cache_root>/search, which the legs of every   *)
(* process look up, store and evict without a lock.                        *)
(*                                                                         *)
(* A step is one operation on the file system, or one walk over the        *)
(* directory.  Two keys never hash to the same file name here.             *)
(***************************************************************************)
EXTENDS Integers, FiniteSetsExt, Functions

CONSTANTS
  Keys,        \* (engine, normalized Query, recency, page), each a file name
  Ttl,         \* ttl_secs of the key's recency
  Sizes,       \* lengths the entry of each key may have
  Cap,         \* SEARCH_CACHE_MAX_BYTES
  StaleTemp,   \* STALE_TEMP_SECS
  Legs, Procs,
  Pids,        \* process ids, which may be used again
  MaxClock,    \* bound on the wall clock
  MaxWrites,   \* bound on the temp files written by all
  MaxKills     \* bound on the processes killed

ASSUME CacheAssumption ==
  /\ IsFiniteSet(Keys) /\ Ttl \in [Keys -> Nat]
  /\ Sizes \in [Keys -> SUBSET (Nat \ {0})] /\ Cap \in Nat /\ StaleTemp \in Nat
  /\ IsFiniteSet(Procs) /\ IsFiniteSet(Pids)
  /\ Cardinality(Procs) <= Cardinality(Pids)
  /\ MaxClock \in Nat \ {0} /\ MaxWrites \in Nat /\ MaxKills \in Nat

VARIABLES
  clock,       \* SystemTime, which may step back
  home,        \* the process of each leg
  pid,
  counter,     \* TEMP_COUNTER
  kills, writes, \* bounded
  files,       \* the entries: a function on the keys that have one
  temps,       \* the *.tmp-<pid>-<n> files: a function on their names
  leg,
  orphans,     \* history: temps whose writer was killed
  covering,    \* history: passes begun after the last rename, none refused
  alone,       \* history: passes no other rename or removal has crossed
  settled      \* history: a covering pass has ended since the last rename

procs == <<pid, counter, kills, writes>>
history == <<orphans, covering, alone, settled>>
cache == <<clock, home, procs, files, temps, leg, history>>

-----------------------------------------------------------------------------
Time == 0..MaxClock
Length == {1} \cup UNION {Sizes[k] : k \in Keys}
Content == [body : {"entry", "torn", "corrupt"}, at : Time, len : Length]
Torn == [body |-> "torn", at |-> 0, len |-> 1]
Corrupt == [body |-> "corrupt", at |-> 0, len |-> 1]

(* A leg holds the key it looks up, the temp file it writes, or what its   *)
(* pass over the directory has read: the files seen and their total.       *)
Idle == [pc |-> "idle"]

(* with_extension keeps the stem of the entry: the key is part of the name. *)
MutTempName(k, l) == <<k, pid[home[l]], 0>>
TempName(k, l) == <<k, pid[home[l]], counter[home[l]]>>

Target(name) == name[1]
Has(l, pcs) == leg[l].pc \in pcs

(* The bytes of a directory, each an entry's key and a place in its file. *)
Body(dir, k) == {k} \X (1..dir[k].len)
Bytes(dir) == Cardinality(UNION {Body(dir, k) : k \in DOMAIN dir})

With(f, x, y) == [z \in DOMAIN f \cup {x} |-> IF z = x THEN y ELSE f[z]]
Without(f, S) == Restrict(f, DOMAIN f \ S)
Step(l, next) == leg' = [leg EXCEPT ![l] = next]

(* What a leg is writing, wherever its own write stands. *)
Writing(l) == IF Has(l, {"write", "rename"}) THEN {leg[l].temp} ELSE {}

Expired(k, at) == clock - at > Ttl[k]

Hit(k) == k \in DOMAIN files /\ files[k].body = "entry" /\ ~Expired(k, files[k].at)

CacheInit ==
  /\ clock = 1
  /\ home \in [Legs -> Procs]
  /\ pid \in [Procs -> Pids] /\ IsInjective(pid)
  /\ counter = [p \in Procs |-> 0] /\ kills = 0 /\ writes = 0
  /\ \E K \in SUBSET Keys :
       files \in {f \in [K -> Content] : \A k \in K : f[k] \in {Corrupt} \cup
                  [body : {"entry"}, at : {0}, len : Sizes[k]]}
  /\ temps = <<>>
  /\ leg = [l \in Legs |-> Idle]
  /\ orphans = {} /\ covering = {} /\ alone = {} /\ settled = FALSE

-----------------------------------------------------------------------------
(* A leg starts with the lookup, before any gate of the governor.  It may  *)
(* miss what is there: the cache is off, or the file cannot be read.       *)
Lookup(l) ==
  /\ Has(l, {"idle"})
  /\ \E k \in Keys : \/ Hit(k) /\ Step(l, [pc |-> "hit", key |-> k])
                     \/ Step(l, [pc |-> "live", key |-> k])
  /\ UNCHANGED <<clock, home, procs, files, temps, history>>

(* A hit returns its rows; an error or an answer without rows is not       *)
(* stored, and neither is anything while the cache is off.                 *)
Return(l) ==
  /\ Has(l, {"hit", "live"})
  /\ Step(l, Idle)
  /\ UNCHANGED <<clock, home, procs, files, temps, history>>

(* Rows came: write_atomic opens its temp file, truncating one of that name. *)
Create(l) ==
  /\ Has(l, {"live"})
  /\ writes < MaxWrites /\ writes' = writes + 1
  /\ counter' = [counter EXCEPT ![home[l]] = @ + 1]
  /\ LET name == TempName(leg[l].key, l)
     IN \E n \in Sizes[leg[l].key] :
          LET file == [body |-> "entry", at |-> clock, len |-> n]
          IN /\ temps' = With(temps, name, [file |-> Torn, mtime |-> clock])
             /\ Step(l, [pc |-> "write", temp |-> name, file |-> file])
             /\ orphans' = orphans \ {name}
  /\ UNCHANGED <<clock, home, pid, kills, files, covering, alone, settled>>

(* The last byte is written, to a file another pass may have unlinked. *)
Fill(l) ==
  /\ Has(l, {"write"})
  /\ Step(l, [leg[l] EXCEPT !.pc = "rename"])
  /\ temps' = [t \in DOMAIN temps |->
                 IF t = leg[l].temp THEN [file |-> leg[l].file, mtime |-> clock] ELSE temps[t]]
  /\ UNCHANGED <<clock, home, procs, files, history>>

Rename(l) ==
  /\ Has(l, {"rename"}) /\ leg[l].temp \in DOMAIN temps
  /\ files' = With(files, Target(leg[l].temp), temps[leg[l].temp].file)
  /\ temps' = Without(temps, {leg[l].temp})
  /\ Step(l, [pc |-> "measure"])
  /\ covering' = {} /\ alone' = {} /\ settled' = FALSE
  /\ UNCHANGED <<clock, home, procs, orphans>>

(* The write or the rename fails, and write_atomic removes its temp file. *)
WriteFails(l) ==
  /\ Has(l, {"write", "rename"})
  /\ temps' = Without(temps, {leg[l].temp})
  /\ Step(l, Idle)
  /\ UNCHANGED <<clock, home, procs, files, history>>

-----------------------------------------------------------------------------
(* enforce_cap, pass 1: remove stale temps, add up the sizes. *)
Stale(t) == clock - temps[t].mtime > StaleTemp

Done(l, covers) ==
  /\ Step(l, Idle)
  /\ settled' = (settled \/ covers)
  /\ alone' = alone \ {l} /\ covering' = covering \ {l}

Measure(l) ==
  /\ Has(l, {"measure"})
  /\ \E gone \in SUBSET {t \in DOMAIN temps : Stale(t)} : temps' = Without(temps, gone)
  /\ IF Bytes(files) <= Cap
     THEN Done(l, TRUE)
     ELSE /\ covering' = covering \cup {l} /\ alone' = alone \cup {l}
          /\ Step(l, [pc |-> "date", total |-> Bytes(files),
                      seen |-> [k \in DOMAIN files |-> [len |-> files[k].len, at |-> 0]]])
          /\ UNCHANGED settled
  /\ UNCHANGED <<clock, home, procs, files, orphans>>

(* The directory cannot be read. *)
NotMeasured(l) ==
  /\ Has(l, {"measure"})
  /\ Step(l, Idle)
  /\ UNCHANGED <<clock, home, procs, files, temps, history>>

(* Pass 2: read each entry's time; what cannot be read counts as oldest. *)
Recorded(k) == IF k \in DOMAIN files /\ files[k].body = "entry" THEN files[k].at ELSE 0

Evicting(seen, total) == [pc |-> "evict", seen |-> seen, total |-> total]

Date(l) ==
  /\ Has(l, {"date"})
  /\ LET seen == leg[l].seen
     IN Step(l, Evicting([k \in DOMAIN seen |-> [len |-> seen[k].len, at |-> Recorded(k)]],
                         leg[l].total))
  /\ UNCHANGED <<clock, home, procs, files, temps, history>>

MutOldest(seen) == {k \in DOMAIN seen : \A j \in DOMAIN seen : seen[k].at >= seen[j].at}
Oldest(seen) == {k \in DOMAIN seen : \A j \in DOMAIN seen : seen[k].at <= seen[j].at}

MutOver(l) == leg[l].total > Cap + 1
Over(l) == leg[l].total > Cap

Evict(l) ==
  /\ Has(l, {"evict"}) /\ Over(l)
  /\ \E k \in Oldest(leg[l].seen) :
       LET rest == Without(leg[l].seen, {k})
       IN \/ /\ k \in DOMAIN files
             /\ files' = Without(files, {k})
             /\ Step(l, Evicting(rest, leg[l].total - leg[l].seen[k].len))
             /\ alone' = alone \cap {l}
             /\ UNCHANGED covering
          \/ /\ Step(l, Evicting(rest, leg[l].total))  \* refused, or gone
             /\ covering' = IF k \in DOMAIN files THEN covering \ {l} ELSE covering
             /\ alone' = alone \ {l}
             /\ UNCHANGED files
  /\ UNCHANGED <<clock, home, procs, temps, orphans, settled>>

Evicted(l) ==
  /\ Has(l, {"evict"})
  /\ ~Over(l) \/ leg[l].seen = <<>>
  /\ Done(l, l \in covering)
  /\ UNCHANGED <<clock, home, procs, files, temps, orphans>>

-----------------------------------------------------------------------------
(* A process dies, and the next one of its user may get any free process id. *)
Kill(p) ==
  LET dead == {l \in Legs : home[l] = p}
  IN /\ kills < MaxKills /\ kills' = kills + 1
     /\ \E free \in Pids \ {pid[q] : q \in Procs \ {p}} : pid' = [pid EXCEPT ![p] = free]
     /\ counter' = [counter EXCEPT ![p] = 0]
     /\ leg' = [l \in Legs |-> IF l \in dead THEN Idle ELSE leg[l]]
     /\ orphans' = orphans \cup UNION {Writing(l) : l \in dead}
     /\ covering' = covering \ dead /\ alone' = alone \ dead
     /\ UNCHANGED <<clock, home, writes, files, temps, settled>>

Clock ==
  /\ clock' \in {clock - 1, clock + 1} \cap Time
  /\ UNCHANGED <<home, procs, files, temps, leg, history>>

CacheNext ==
  \/ \E l \in Legs :
       \/ Lookup(l) \/ Return(l)
       \/ Create(l) \/ Fill(l) \/ Rename(l) \/ WriteFails(l)
       \/ Measure(l) \/ NotMeasured(l) \/ Date(l) \/ Evict(l) \/ Evicted(l)
  \/ \E p \in Procs : Kill(p)
  \/ Clock

CacheSpec == CacheInit /\ [][CacheNext]_cache

-----------------------------------------------------------------------------
(* write_atomic: readers never see a torn file.  A leg about to rename its *)
(* temp file finds in it what it wrote itself, whole, if it finds it, also *)
(* when two legs store one key and when a process id is used again.        *)
PublishedWhole ==
  /\ \A k \in DOMAIN files : files[k].body # "torn"
  /\ \A l \in Legs : Has(l, {"rename"}) /\ leg[l].temp \in DOMAIN temps =>
       temps[leg[l].temp].file = leg[l].file

(* enforce_cap: once a pass that saw every entry has ended, and until the  *)
(* next store, the directory is within the cap, although other passes and  *)
(* other processes remove entries the pass still counts.                   *)
CapKept == settled => Bytes(files) <= Cap

(* enforce_cap evicts oldest first and no more than the cap asks for,      *)
(* unless another leg stored or removed an entry during the pass.          *)
EvictsOldest ==
  [][\A l \in alone, k \in DOMAIN files :
       Has(l, {"evict"}) /\ leg'[l] # leg[l] /\ k \notin DOMAIN files' =>
         /\ Bytes(files) > Cap
         /\ \A j \in DOMAIN files : Recorded(k) <= Recorded(j)]_cache

(* write_atomic leaves a temp file behind only where a process was killed  *)
(* while it wrote it: not when a write or a rename failed, and not when a  *)
(* pass took the file for an orphan and removed it during the write.       *)
NoLitter == DOMAIN temps \subseteq orphans \cup UNION {Writing(l) : l \in Legs}
=============================================================================
