---------------------------- MODULE GovernorProofs ----------------------------
(***************************************************************************)
(* Theorems about Governor, for every number of processes, legs, engines   *)
(* and permits, every cap, gap and suspension length, with or without a    *)
(* cache root and with writes that may be lost.  First the types and the   *)
(* clamp, then the budget, then what a sync keeps of the file: its clocks  *)
(* and its suspensions; last, what pace makes of them: the suspensions it  *)
(* honours and the gaps it keeps.                                          *)
(***************************************************************************)
EXTENDS Governor, FiniteSetTheorems, TLAPS

(* Dividing a natural number by a positive one gives a natural number. *)
LEMMA DivType ==
  ASSUME NEW a \in Nat, NEW b \in Nat \ {0}
  PROVE  a \div b \in Nat
  OBVIOUS

(* The clock conversions stay in Time. *)
LEMMA ConversionType ==
  ASSUME NEW t \in Time
  PROVE  ToDisk(t) \in Time /\ FromDisk(t) \in Time
<1>1. ToDisk(t) \in Time
  BY DivType, GovernorAssumption DEF ToDisk, Time, None
<1>2. FromDisk(t) \in Time
  BY GovernorAssumption DEF FromDisk, Time, None
<1> QED BY <1>1, <1>2

(* An entry read from engines.json is well typed, and so is one written.   *)
LEMMA EntryType ==
  ASSUME now \in Nat
  PROVE  /\ \A entry \in Entry : ViewFromDisk(entry) \in Entry
         /\ \A view \in View : DiskFromView(view) \in Entry
<1>1. ASSUME NEW entry \in Entry PROVE ViewFromDisk(entry) \in Entry
  <2>1. ToDisk(SuspensionCap) \in Time
    BY ConversionType, GovernorAssumption DEF SuspensionCap, Time
  <2>2. EarlierOf(entry.until, ToDisk(SuspensionCap)) \in Time
    BY <2>1 DEF EarlierOf, Entry
  <2> QED BY <2>2, ConversionType DEF ViewFromDisk, Entry
<1>2. ASSUME NEW view \in View PROVE DiskFromView(view) \in Entry
  BY ConversionType DEF DiskFromView, Entry, View
<1> QED BY <1>1, <1>2

(* Merging keeps the type and the request count and clamps the suspension. *)
LEMMA MergeProperties ==
  ASSUME now \in Nat, NEW view \in View, NEW remote \in Entry
  PROVE  /\ MergeView(view, remote) \in View
         /\ MergeView(view, remote).count = view.count
         /\ MergeView(view, remote).until <= SuspensionCap
<1> DEFINE success == LaterOf(view.success, remote.success)
           Alive(s) == s.until > now /\ (success = None \/ s.at >= success)
           winner == IF Alive(remote) /\ ~(Alive(view) /\ view.until >= remote.until)
                     THEN remote ELSE view
           kept == Alive(winner)
           until == IF kept THEN EarlierOf(winner.until, SuspensionCap) ELSE None
           at == IF kept THEN winner.at ELSE None
<1>1. SuspensionCap \in Nat
  BY GovernorAssumption DEF SuspensionCap
<1>2. success \in Time /\ LaterOf(view.request, remote.request) \in Time
  BY DEF LaterOf, View, Entry
<1>3. winner.until \in Time /\ winner.at \in Time
  BY DEF View, Entry
<1>4. until \in Time /\ at \in Time /\ until <= SuspensionCap
  <2> HIDE DEF winner, kept
  <2> QED BY <1>1, <1>3 DEF EarlierOf, Time, None
<1>5. MergeView(view, remote) =
        [until |-> until, at |-> at,
         request |-> LaterOf(view.request, remote.request),
         success |-> success, count |-> view.count]
  BY DEF MergeView
<1> HIDE DEF until, at, success
<1> QED BY <1>2, <1>4, <1>5 DEF View

(* What sync finds in the views of p, before the caller mutates them.      *)
LEMMA MergedProperties ==
  ASSUME TypeOK, NEW p \in Proc
  PROVE  /\ Merged(p) \in [Engine -> View]
         /\ \A e \in Engine : Merged(p)[e].count = views[p][e].count
         /\ SuspensionBounded => \A e \in Engine : Merged(p)[e].until <= SuspensionCap
<1>1. CASE CacheRoot
  <2>1. ASSUME NEW e \in Engine
        PROVE  /\ MergeView(views[p][e], ViewFromDisk(disk[e])) \in View
               /\ MergeView(views[p][e], ViewFromDisk(disk[e])).count = views[p][e].count
               /\ MergeView(views[p][e], ViewFromDisk(disk[e])).until <= SuspensionCap
    BY EntryType, MergeProperties DEF TypeOK
  <2> QED BY <1>1, <2>1 DEF Merged
<1>2. CASE ~CacheRoot
  BY <1>2 DEF Merged, TypeOK, SuspensionBounded
<1> QED BY <1>1, <1>2

(* Publishing well-typed views keeps the views and the file well typed.    *)
LEMMA PublishType ==
  ASSUME TypeOK, NEW p \in Proc, NEW m \in [Engine -> View], Publish(p, m)
  PROVE  /\ views' \in [Proc -> [Engine -> View]]
         /\ disk' \in [Engine -> Entry] /\ since' \in [Engine -> Nat]
<1>1. views' \in [Proc -> [Engine -> View]]
  BY DEF Publish, TypeOK
<1>2. disk' \in [Engine -> Entry]
  BY EntryType DEF Publish, TypeOK
<1>3. since' \in [Engine -> Nat]
  BY DEF Publish, TypeOK
<1> QED BY <1>1, <1>2, <1>3

-----------------------------------------------------------------------------
LEMMA IdleType == IdleLeg \in LegState
  BY DEF IdleLeg, LegState, PC, Time, None

(* Moving or finishing a leg keeps the legs well typed.                    *)
LEMMA MoveType ==
  ASSUME TypeOK, NEW p \in Proc, NEW l \in Leg
  PROVE  /\ \A pc \in PC : Goto(p, l, pc) => leg' \in [Proc -> [Leg -> LegState]]
         /\ Finish(p, l) => leg' \in [Proc -> [Leg -> LegState]]
         /\ Refuse(p, l) => leg' \in [Proc -> [Leg -> LegState]]
<1>1. ASSUME NEW pc \in PC, Goto(p, l, pc) PROVE leg' \in [Proc -> [Leg -> LegState]]
  <2>1. leg[p][l] \in LegState
    BY DEF TypeOK
  <2>2. [leg[p][l] EXCEPT !.pc = pc] \in LegState
    BY <2>1 DEF LegState
  <2>3. leg' = [leg EXCEPT ![p][l] = [leg[p][l] EXCEPT !.pc = pc]]
    BY <1>1 DEF Goto
  <2> QED BY <2>2, <2>3 DEF TypeOK
<1>2. ASSUME Finish(p, l) PROVE leg' \in [Proc -> [Leg -> LegState]]
  BY <1>2, IdleType DEF Finish, TypeOK
<1>3. "partial" \in PC
  BY DEF PC
<1>4. ASSUME Refuse(p, l) PROVE leg' \in [Proc -> [Leg -> LegState]]
  BY <1>1, <1>2, <1>3, <1>4 DEF Refuse
<1> QED BY <1>1, <1>2, <1>4

(* The initial state is well typed. *)
LEMMA InitType == Init => TypeOK
<1> SUFFICES ASSUME Init PROVE TypeOK
  OBVIOUS
<1>1. disk \in [Engine -> Entry] /\ since \in [Engine -> Nat]
  BY GovernorAssumption DEF Init, Entry, NoEntry, Time, None
<1>2. views \in [Proc -> [Engine -> View]]
  BY DEF Init, NoView, View, Time, None
<1>3. leg \in [Proc -> [Leg -> LegState]]
  BY IdleType DEF Init
<1>4. now \in Nat /\ loaded \in [Proc -> BOOLEAN]
      /\ starts \in [Proc -> [Engine -> Seq(Nat)]]
  BY DEF Init
<1> QED BY <1>1, <1>2, <1>3, <1>4 DEF TypeOK

(* Every step of a leg keeps the types. *)
LEMMA LegStepType ==
  ASSUME TypeOK, NEW p \in Proc, NEW l \in Leg, LegStep(p, l)
  PROVE  TypeOK'
<1> DEFINE e == LegEngine[l]
<1>e. e \in Engine
  BY GovernorAssumption
<1>m. Merged(p) \in [Engine -> View]
  BY MergedProperties
<1>n. now \in Nat /\ None \in Time /\ now \in Time
  BY DEF TypeOK, Time, None
<1>l. leg[p][l] \in LegState
  BY DEF TypeOK
<1>1. CASE Begin(p, l)
  BY <1>1, MoveType DEF Begin, TypeOK, PC
<1>2. CASE Load(p, l)
  BY <1>2, <1>m, MoveType, PublishType DEF Load, TypeOK, PC
<1>3. CASE Precheck(p, l)
  BY <1>3, MoveType DEF Precheck, TypeOK, PC
<1>4. CASE Acquire(p, l)
  BY <1>4, MoveType DEF Acquire, TypeOK, PC
<1>5. CASE Refresh(p, l)
  BY <1>5, <1>m, <1>n, <1>l, PublishType DEF Refresh, TypeOK, LegState, PC
<1>6. CASE CheckSuspended(p, l)
  BY <1>6, MoveType DEF CheckSuspended, TypeOK, PC
<1>7. CASE CheckBudget(p, l)
  BY <1>7, MoveType DEF CheckBudget, TypeOK, PC
<1>8. CASE ReadLast(p, l)
  <2>1. PICK gap \in MinGap..MaxGap :
          leg' = [leg EXCEPT ![p][l].pc = "sleep",
                             ![p][l].wake =
                               IF views[p][e].request = None THEN now
                               ELSE LaterOf(now, EarlierOf(views[p][e].request, now) + gap)]
    BY <1>8 DEF ReadLast, Gaps
  <2>2. (IF views[p][e].request = None THEN now
         ELSE LaterOf(now, EarlierOf(views[p][e].request, now) + gap)) \in Nat
    <3>1. views[p][e].request \in Time
      BY <1>e DEF TypeOK, View
    <3> QED BY <3>1, <1>n, GovernorAssumption DEF LaterOf, EarlierOf, Time, None
  <2>3. leg' \in [Proc -> [Leg -> LegState]]
    BY <2>1, <2>2, <1>l DEF LegState, PC, TypeOK
  <2> QED BY <1>8, <2>3 DEF ReadLast, TypeOK
<1>9. CASE Reserve(p, l)
  <2>1. [Merged(p) EXCEPT ![e].request = now, ![e].count = @ + 1] \in [Engine -> View]
    BY <1>m, <1>e, <1>n DEF View
  <2>2. /\ views' \in [Proc -> [Engine -> View]]
        /\ disk' \in [Engine -> Entry] /\ since' \in [Engine -> Nat]
    BY <1>9, <2>1, PublishType DEF Reserve
  <2>3. Remember(starts[p][e], e) \in Seq(Nat)
    <3>1. starts[p][e] \in Seq(Nat)
      BY <1>e DEF TypeOK
    <3> QED BY <3>1, <1>e, <1>n, GovernorAssumption DEF Remember
  <2>4. starts' \in [Proc -> [Engine -> Seq(Nat)]]
    BY <1>9, <2>3, <1>e DEF Reserve, TypeOK
  <2>5. leg' \in [Proc -> [Leg -> LegState]]
    BY <1>9, <1>l DEF Reserve, TypeOK, LegState, PC
  <2> QED BY <1>9, <2>2, <2>4, <2>5 DEF Reserve, TypeOK
<1>10. CASE NextPage(p, l)
  BY <1>10, <1>l, <1>n DEF NextPage, TypeOK, LegState, PC
<1>11. CASE Succeed(p, l)
  <2>1. [Merged(p) EXCEPT ![e].success = now, ![e].until = None, ![e].at = None]
          \in [Engine -> View]
    BY <1>m, <1>e, <1>n DEF View
  <2> QED BY <1>11, <2>1, MoveType, PublishType DEF Succeed, TypeOK
<1>12. CASE Fail(p, l)
  <2>1. ASSUME NEW d \in ErrorSuspension
        PROVE  [Merged(p) EXCEPT ![e] = WithFailure(@, d)] \in [Engine -> View]
    <3>1. now + EarlierOf(d, MaxSuspension) \in Time
      BY <1>n, GovernorAssumption DEF EarlierOf, Time
    <3>2. WithFailure(Merged(p)[e], d) \in View
      BY <3>1, <1>m, <1>e, <1>n DEF WithFailure, View
    <3> QED BY <3>2, <1>m, <1>e
  <2>2. /\ views' \in [Proc -> [Engine -> View]]
        /\ disk' \in [Engine -> Entry] /\ since' \in [Engine -> Nat]
    BY <1>12, <2>1, PublishType DEF Fail, TypeOK
  <2> QED BY <1>12, <2>2, MoveType DEF Fail, TypeOK
<1>13. CASE TransportFail(p, l)
  <2>1. ASSUME leg' = [leg EXCEPT ![p][l].pc = "backoff", ![p][l].retried = TRUE,
                                  ![p][l].wake = now + Backoff]
        PROVE  leg' \in [Proc -> [Leg -> LegState]]
    <3>1. now + Backoff \in Nat
      BY <1>n, GovernorAssumption
    <3>2. [leg[p][l] EXCEPT !.pc = "backoff", !.retried = TRUE, !.wake = now + Backoff]
            \in LegState
      BY <3>1, <1>l DEF LegState, PC
    <3>3. leg' = [leg EXCEPT ![p][l] =
                    [leg[p][l] EXCEPT !.pc = "backoff", !.retried = TRUE,
                                      !.wake = now + Backoff]]
      BY <2>1
    <3> QED BY <3>2, <3>3 DEF TypeOK
  <2> QED BY <1>13, <2>1, MoveType DEF TransportFail, TypeOK
<1>14. CASE Retry(p, l)
  BY <1>14, <1>l DEF Retry, TypeOK, LegState, PC
<1>15. CASE Abort(p, l)
  BY <1>15, MoveType DEF Abort, TypeOK
<1> QED
  BY <1>1, <1>2, <1>3, <1>4, <1>5, <1>6, <1>7, <1>8, <1>9, <1>10, <1>11, <1>12,
     <1>13, <1>14, <1>15 DEF LegStep

(* A killed process starts again well typed. *)
LEMMA RestartType ==
  ASSUME TypeOK, NEW p \in Proc, Restart(p)
  PROVE  TypeOK'
<1>1. NoView \in View
  BY DEF NoView, View, Time, None
<1> QED BY <1>1, IdleType DEF Restart, TypeOK

LEMMA NextType == TypeOK /\ [Next]_vars => TypeOK'
<1> SUFFICES ASSUME TypeOK, [Next]_vars PROVE TypeOK'
  OBVIOUS
<1>1. CASE \E p \in Proc, l \in Leg : LegStep(p, l)
  BY <1>1, LegStepType
<1>2. CASE \E p \in Proc : Restart(p)
  BY <1>2, RestartType
<1>3. CASE Tick
  BY <1>3 DEF Tick, TypeOK
<1>4. CASE UNCHANGED vars
  BY <1>4 DEF vars, TypeOK
<1> QED BY <1>1, <1>2, <1>3, <1>4 DEF Next

(* Type correctness of the governor's state, file and history.             *)
THEOREM TypeCorrect == Spec => []TypeOK
  BY InitType, NextType, PTL DEF Spec

-----------------------------------------------------------------------------
(* Publishing clamped views keeps every suspension clamped.                *)
LEMMA PublishBounded ==
  ASSUME TypeOK, SuspensionBounded, now' = now, NEW p \in Proc,
         NEW m \in [Engine -> View], \A e \in Engine : m[e].until <= SuspensionCap,
         Publish(p, m)
  PROVE  SuspensionBounded'
<1>1. views' = [views EXCEPT ![p] = m]
  BY DEF Publish
<1>2. ASSUME NEW q \in Proc, NEW e \in Engine
      PROVE  views'[q][e].until <= SuspensionCap
  BY <1>1 DEF TypeOK, SuspensionBounded
<1> QED BY <1>2 DEF SuspensionBounded, SuspensionCap

LEMMA LegStepBounded ==
  ASSUME TypeOK, SuspensionBounded, NEW p \in Proc, NEW l \in Leg, LegStep(p, l)
  PROVE  SuspensionBounded'
<1> DEFINE e == LegEngine[l]
<1>e. e \in Engine
  BY GovernorAssumption
<1>n. now \in Nat /\ None \in Time /\ now \in Time
      /\ SuspensionCap \in Nat /\ None <= SuspensionCap
  BY GovernorAssumption DEF TypeOK, Time, None, SuspensionCap
<1>m. /\ Merged(p) \in [Engine -> View]
      /\ \A f \in Engine : Merged(p)[f].until <= SuspensionCap
  BY MergedProperties
<1>1. CASE Load(p, l)
  BY <1>1, <1>m, PublishBounded DEF Load
<1>2. CASE Refresh(p, l)
  BY <1>2, <1>m, PublishBounded DEF Refresh
<1>3. CASE Reserve(p, l)
  <2> DEFINE m == [Merged(p) EXCEPT ![e].request = now, ![e].count = @ + 1]
  <2>1. m \in [Engine -> View] /\ \A f \in Engine : m[f].until <= SuspensionCap
    BY <1>m, <1>e, <1>n DEF View
  <2>2. Publish(p, m) /\ now' = now
    BY <1>3 DEF Reserve
  <2> HIDE DEF m
  <2> QED BY <2>1, <2>2, PublishBounded
<1>4. CASE Succeed(p, l)
  <2> DEFINE m == [Merged(p) EXCEPT ![e].success = now, ![e].until = None, ![e].at = None]
  <2>1. m \in [Engine -> View] /\ \A f \in Engine : m[f].until <= SuspensionCap
    BY <1>m, <1>e, <1>n DEF View
  <2>2. Publish(p, m) /\ now' = now
    BY <1>4 DEF Succeed
  <2> HIDE DEF m
  <2> QED BY <2>1, <2>2, PublishBounded
<1>5. CASE Fail(p, l)
  <2>1. PICK d \in ErrorSuspension :
          IF EarlierOf(d, MaxSuspension) = 0 THEN UNCHANGED <<disk, since, views>>
          ELSE Publish(p, [Merged(p) EXCEPT ![e] = WithFailure(@, d)])
    BY <1>5 DEF Fail
  <2> DEFINE m == [Merged(p) EXCEPT ![e] = WithFailure(@, d)]
             candidate == now + EarlierOf(d, MaxSuspension)
  <2>2. candidate \in Time /\ candidate <= SuspensionCap
    BY <1>n, GovernorAssumption DEF EarlierOf, Time, SuspensionCap
  <2>3. WithFailure(Merged(p)[e], d) \in View /\ WithFailure(Merged(p)[e], d).until <= SuspensionCap
    BY <2>2, <1>m, <1>e, <1>n DEF WithFailure, View
  <2>4. m \in [Engine -> View] /\ \A f \in Engine : m[f].until <= SuspensionCap
    BY <2>3, <1>m, <1>e
  <2>5. CASE UNCHANGED <<disk, since, views>>
    BY <1>5, <2>5 DEF Fail, SuspensionBounded, SuspensionCap
  <2>6. CASE Publish(p, m)
    <3> HIDE DEF m
    <3> QED BY <1>5, <2>4, <2>6, PublishBounded DEF Fail
  <2> QED BY <2>1, <2>5, <2>6
<1>6. CASE UNCHANGED <<now, views>>
  BY <1>6 DEF SuspensionBounded, SuspensionCap
<1> QED
  BY <1>1, <1>2, <1>3, <1>4, <1>5, <1>6
     DEF LegStep, Begin, Precheck, Acquire, CheckSuspended, CheckBudget, ReadLast,
         NextPage, TransportFail, Retry, Abort

LEMMA NextBounded == TypeOK /\ SuspensionBounded /\ [Next]_vars => SuspensionBounded'
<1> SUFFICES ASSUME TypeOK, SuspensionBounded, [Next]_vars PROVE SuspensionBounded'
  OBVIOUS
<1>1. CASE \E p \in Proc, l \in Leg : LegStep(p, l)
  BY <1>1, LegStepBounded
<1>2. CASE \E p \in Proc : Restart(p)
  BY <1>2, GovernorAssumption
     DEF Restart, TypeOK, SuspensionBounded, SuspensionCap, NoView, None
<1>3. CASE Tick
  <2>1. ASSUME NEW p \in Proc, NEW e \in Engine
        PROVE  views'[p][e].until <= SuspensionCap'
    <3>1. views[p][e].until \in Time
      BY DEF TypeOK, View
    <3>2. views[p][e].until <= now + MaxSuspension /\ now \in Nat
      BY DEF SuspensionBounded, SuspensionCap, TypeOK
    <3>3. views[p][e].until <= now + 1 + MaxSuspension
      BY <3>1, <3>2, GovernorAssumption DEF Time, None
    <3> QED BY <1>3, <3>3 DEF Tick, SuspensionCap
  <2> QED BY <2>1 DEF SuspensionBounded
<1>4. CASE UNCHANGED vars
  BY <1>4 DEF vars, SuspensionBounded, SuspensionCap
<1> QED BY <1>1, <1>2, <1>3, <1>4 DEF Next

(* Whatever Retry-After a response carries and whatever a hand-edited file *)
(* holds, no process keeps an engine suspended beyond the largest          *)
(* configured suspension.                                                  *)
THEOREM SuspensionStaysBounded == Spec => []SuspensionBounded
<1>1. Init => SuspensionBounded
  BY GovernorAssumption DEF Init, SuspensionBounded, SuspensionCap, NoView, None
<1> QED BY <1>1, NextBounded, TypeCorrect, PTL DEF Spec

-----------------------------------------------------------------------------
(* The sets the budget argument counts are finite, and every leg between   *)
(* the check and the reservation holds a permit.                           *)
LEMMA CountedSets ==
  ASSUME TypeOK, NEW p \in Proc, NEW e \in Engine
  PROVE  /\ IsFiniteSet(Holders(p, e)) /\ Cardinality(Holders(p, e)) \in Nat
         /\ IsFiniteSet(Passed(p, e)) /\ Cardinality(Passed(p, e)) \in Nat
         /\ Cardinality(Passed(p, e)) <= Cardinality(Holders(p, e))
         /\ views[p][e].count \in Nat
<1>1. IsFiniteSet(Holders(p, e)) /\ IsFiniteSet(Passed(p, e))
  BY FS_Subset, GovernorAssumption DEF Holders, Passed
<1>2. Passed(p, e) \subseteq Holders(p, e)
  BY DEF Passed, Holders, PermitPC, PC
<1>3. Cardinality(Passed(p, e)) <= Cardinality(Holders(p, e))
  BY <1>1, <1>2, FS_Subset
<1>4. views[p][e].count \in Nat
  BY DEF TypeOK, View
<1> QED BY <1>1, <1>3, <1>4, FS_CardinalityType

(* A step in which no leg takes a permit, none passes the checks and no    *)
(* request is counted keeps both bounds.                                   *)
LEMMA NarrowStep ==
  ASSUME TypeOK, TypeOK', BudgetInv,
         \A p \in Proc, l \in Leg :
           /\ leg'[p][l].pc \in PermitPC => leg[p][l].pc \in PermitPC
           /\ leg'[p][l].pc \in {"last", "sleep"} => leg[p][l].pc \in {"last", "sleep"},
         \A p \in Proc, e \in Engine : views'[p][e].count <= views[p][e].count
  PROVE  BudgetInv'
<1>1. ASSUME NEW p \in Proc, NEW e \in Engine
      PROVE  /\ Cardinality(Holders(p, e)') <= Concurrency[e]
             /\ views'[p][e].count + Cardinality(Passed(p, e)')
                  <= RequestCap + Concurrency[e] - 1
  <2>1. Holders(p, e)' \subseteq Holders(p, e) /\ Passed(p, e)' \subseteq Passed(p, e)
    BY DEF Holders, Passed
  <2>2. /\ Cardinality(Holders(p, e)') <= Cardinality(Holders(p, e))
        /\ Cardinality(Passed(p, e)') <= Cardinality(Passed(p, e))
        /\ Cardinality(Holders(p, e)') \in Nat /\ Cardinality(Passed(p, e)') \in Nat
    BY <2>1, CountedSets, FS_Subset, FS_CardinalityType
  <2>3. views'[p][e].count \in Nat
    BY DEF TypeOK, View
  <2> QED
    BY <2>2, <2>3, CountedSets, GovernorAssumption
       DEF BudgetInv, PermitBound, ReservationBound
<1> QED BY <1>1 DEF BudgetInv, PermitBound, ReservationBound

(* Syncing does not touch a request count.                                 *)
LEMMA PublishCounts ==
  ASSUME TypeOK, NEW p \in Proc, NEW m \in [Engine -> View], Publish(p, m),
         \A e \in Engine : m[e].count = views[p][e].count
  PROVE  \A q \in Proc, e \in Engine : views'[q][e].count <= views[q][e].count
<1>1. views' = [views EXCEPT ![p] = m]
  BY DEF Publish
<1>2. ASSUME NEW q \in Proc, NEW e \in Engine
      PROVE  views'[q][e].count = views[q][e].count
  BY <1>1 DEF TypeOK
<1>3. \A q \in Proc, e \in Engine : views[q][e].count \in Nat
  BY DEF TypeOK, View
<1> QED BY <1>2, <1>3

(* The moves of one leg, as pc values. *)
LEMMA MovePC ==
  ASSUME TypeOK, NEW p \in Proc, NEW l \in Leg
  PROVE  /\ \A pc \in PC : Goto(p, l, pc) =>
              \A q \in Proc, k \in Leg :
                leg'[q][k].pc = IF q = p /\ k = l THEN pc ELSE leg[q][k].pc
         /\ Finish(p, l) =>
              \A q \in Proc, k \in Leg :
                leg'[q][k].pc = IF q = p /\ k = l THEN "idle" ELSE leg[q][k].pc
<1>1. ASSUME NEW pc \in PC, Goto(p, l, pc), NEW q \in Proc, NEW k \in Leg
      PROVE  leg'[q][k].pc = IF q = p /\ k = l THEN pc ELSE leg[q][k].pc
  <2>1. leg' = [leg EXCEPT ![p][l] = [leg[p][l] EXCEPT !.pc = pc]]
    BY <1>1 DEF Goto
  <2>2. [leg[p][l] EXCEPT !.pc = pc].pc = pc
    BY DEF TypeOK, LegState
  <2> QED BY <2>1, <2>2 DEF TypeOK
<1>2. ASSUME Finish(p, l), NEW q \in Proc, NEW k \in Leg
      PROVE  leg'[q][k].pc = IF q = p /\ k = l THEN "idle" ELSE leg[q][k].pc
  BY <1>2 DEF Finish, TypeOK, IdleLeg
<1> QED BY <1>1, <1>2

(* Every step that takes no permit and passes no check. *)
LEMMA QuietStepBudget ==
  ASSUME TypeOK, TypeOK', BudgetInv, NEW p \in Proc, NEW l \in Leg,
         \/ Begin(p, l) \/ Load(p, l) \/ Precheck(p, l) \/ Refresh(p, l)
         \/ CheckSuspended(p, l) \/ ReadLast(p, l) \/ NextPage(p, l)
         \/ Succeed(p, l) \/ Fail(p, l) \/ TransportFail(p, l)
         \/ Retry(p, l) \/ Abort(p, l)
  PROVE  BudgetInv'
<1> DEFINE From(pc) == leg[p][l].pc = pc
           To(pc) == \A q \in Proc, k \in Leg :
                       leg'[q][k].pc = IF q = p /\ k = l THEN pc ELSE leg[q][k].pc
           Quiet == \A q \in Proc, k \in Leg :
                      /\ leg'[q][k].pc \in PermitPC => leg[q][k].pc \in PermitPC
                      /\ leg'[q][k].pc \in {"last", "sleep"}
                           => leg[q][k].pc \in {"last", "sleep"}
           Uncounted == \A q \in Proc, e \in Engine :
                          views'[q][e].count <= views[q][e].count
<1>e. LegEngine[l] \in Engine
  BY GovernorAssumption
<1>m. /\ Merged(p) \in [Engine -> View]
      /\ \A f \in Engine : Merged(p)[f].count = views[p][f].count
  BY MergedProperties
<1>v. UNCHANGED views => Uncounted
  BY DEF TypeOK, View
<1>i. To("idle") => Quiet
  BY DEF PermitPC
<1>1. CASE Begin(p, l)
  <2>1. From("idle") /\ (To("precheck") \/ To("load"))
    BY <1>1, MovePC DEF Begin, PC
  <2>2. Quiet
    BY <2>1 DEF PermitPC
  <2> QED BY <1>1, <1>v, <2>2, NarrowStep DEF Begin
<1>2. CASE Load(p, l)
  <2>1. To("precheck")
    BY <1>2, MovePC DEF Load, PC
  <2>2. Quiet
    BY <2>1 DEF PermitPC
  <2>3. Uncounted
    BY <1>2, <1>m, PublishCounts DEF Load
  <2> QED BY <2>2, <2>3, NarrowStep
<1>3. CASE Precheck(p, l)
  <2>1. To("idle") \/ To("acquire")
    BY <1>3, MovePC DEF Precheck, PC
  <2>2. Quiet
    BY <2>1, <1>i DEF PermitPC
  <2> QED BY <1>3, <1>v, <2>2, NarrowStep DEF Precheck
<1>4. CASE Refresh(p, l)
  <2>1. From("refresh") /\ To("suspended")
    BY <1>4 DEF Refresh, TypeOK, LegState
  <2>2. Quiet
    BY <2>1 DEF PermitPC, PC
  <2>3. Uncounted
    BY <1>4, <1>m, PublishCounts DEF Refresh
  <2> QED BY <2>2, <2>3, NarrowStep
<1>5. CASE CheckSuspended(p, l)
  <2>1. From("suspended") /\ (To("idle") \/ To("partial") \/ To("budget"))
    BY <1>5, MovePC DEF CheckSuspended, Refuse, PC
  <2>2. Quiet
    BY <2>1, <1>i DEF PermitPC, PC
  <2> QED BY <1>5, <1>v, <2>2, NarrowStep DEF CheckSuspended
<1>6. CASE ReadLast(p, l)
  <2>1. From("last") /\ To("sleep")
    <3>1. PICK wake : leg' = [leg EXCEPT ![p][l].pc = "sleep", ![p][l].wake = wake]
      BY <1>6 DEF ReadLast
    <3>2. leg' = [leg EXCEPT ![p][l] = [leg[p][l] EXCEPT !.pc = "sleep", !.wake = wake]]
      BY <3>1
    <3>3. [leg[p][l] EXCEPT !.pc = "sleep", !.wake = wake].pc = "sleep"
      BY DEF TypeOK, LegState
    <3> QED BY <1>6, <3>2, <3>3 DEF ReadLast, TypeOK
  <2>2. Quiet
    BY <2>1 DEF PermitPC, PC
  <2> QED BY <1>6, <1>v, <2>2, NarrowStep DEF ReadLast
<1>7. CASE NextPage(p, l)
  <2>1. From("wire") /\ To("refresh")
    BY <1>7 DEF NextPage, TypeOK, LegState
  <2>2. Quiet
    BY <2>1 DEF PermitPC, PC
  <2> QED BY <1>7, <1>v, <2>2, NarrowStep DEF NextPage
<1>8. CASE Succeed(p, l)
  <2> DEFINE m == [Merged(p) EXCEPT ![LegEngine[l]].success = now,
                                    ![LegEngine[l]].until = None,
                                    ![LegEngine[l]].at = None]
  <2>1. m \in [Engine -> View] /\ \A f \in Engine : m[f].count = views[p][f].count
    <3>1. now \in Time /\ None \in Time
      BY DEF TypeOK, Time, None
    <3>2. m \in [Engine -> View]
      BY <1>m, <1>e, <3>1 DEF View
    <3>3. \A f \in Engine : m[f].count = Merged(p)[f].count
      BY <1>m, <1>e DEF View
    <3> QED BY <1>m, <3>2, <3>3
  <2>2. Publish(p, m) /\ To("idle")
    BY <1>8, MovePC DEF Succeed
  <2> HIDE DEF m
  <2>3. Uncounted
    BY <2>1, <2>2, PublishCounts
  <2> QED BY <2>2, <2>3, <1>i, NarrowStep
<1>9. CASE Fail(p, l)
  <2>1. PICK d \in ErrorSuspension :
          IF EarlierOf(d, MaxSuspension) = 0 THEN UNCHANGED <<disk, since, views>>
          ELSE Publish(p, [Merged(p) EXCEPT ![LegEngine[l]] = WithFailure(@, d)])
    BY <1>9 DEF Fail
  <2> DEFINE m == [Merged(p) EXCEPT ![LegEngine[l]] = WithFailure(@, d)]
  <2>2. /\ WithFailure(Merged(p)[LegEngine[l]], d) \in View
        /\ WithFailure(Merged(p)[LegEngine[l]], d).count = Merged(p)[LegEngine[l]].count
    <3>1. now + EarlierOf(d, MaxSuspension) \in Time /\ now \in Time
      BY GovernorAssumption DEF EarlierOf, Time, TypeOK
    <3> QED BY <3>1, <1>m, <1>e DEF WithFailure, View
  <2>3. m \in [Engine -> View] /\ \A f \in Engine : m[f].count = views[p][f].count
    BY <2>2, <1>m, <1>e
  <2>4. To("idle")
    BY <1>9, MovePC DEF Fail
  <2>5. Uncounted
    <3>1. CASE UNCHANGED <<disk, since, views>>
      BY <3>1, <1>v
    <3>2. CASE Publish(p, m)
      <4> HIDE DEF m
      <4> QED BY <2>3, <3>2, PublishCounts
    <3> QED BY <2>1, <3>1, <3>2
  <2> QED BY <2>4, <2>5, <1>i, NarrowStep
<1>10. CASE TransportFail(p, l)
  <2>1. From("wire") /\ (To("idle") \/ To("backoff"))
    <3>1. CASE Finish(p, l)
      BY <1>10, <3>1, MovePC DEF TransportFail
    <3>2. CASE leg' = [leg EXCEPT ![p][l].pc = "backoff", ![p][l].retried = TRUE,
                                  ![p][l].wake = now + Backoff]
      <4>1. leg' = [leg EXCEPT ![p][l] =
                      [leg[p][l] EXCEPT !.pc = "backoff", !.retried = TRUE,
                                        !.wake = now + Backoff]]
        BY <3>2
      <4>2. [leg[p][l] EXCEPT !.pc = "backoff", !.retried = TRUE,
                              !.wake = now + Backoff].pc = "backoff"
        BY DEF TypeOK, LegState
      <4>3. To("backoff")
        BY <4>1, <4>2 DEF TypeOK
      <4> QED BY <1>10, <4>3 DEF TransportFail
    <3> QED BY <1>10, <3>1, <3>2 DEF TransportFail
  <2>2. Quiet
    BY <2>1, <1>i DEF PermitPC, PC
  <2> QED BY <1>10, <1>v, <2>2, NarrowStep DEF TransportFail
<1>11. CASE Retry(p, l)
  <2>1. From("backoff") /\ To("refresh")
    BY <1>11 DEF Retry, TypeOK, LegState
  <2>2. Quiet
    BY <2>1 DEF PermitPC, PC
  <2> QED BY <1>11, <1>v, <2>2, NarrowStep DEF Retry
<1>12. CASE Abort(p, l)
  BY <1>12, <1>i, <1>v, MovePC, NarrowStep DEF Abort
<1> QED
  BY <1>1, <1>2, <1>3, <1>4, <1>5, <1>6, <1>7, <1>8, <1>9, <1>10, <1>11, <1>12

(* A leg takes a permit only while one is free. *)
LEMMA AcquireBudget ==
  ASSUME TypeOK, TypeOK', BudgetInv, NEW p \in Proc, NEW l \in Leg, Acquire(p, l)
  PROVE  BudgetInv'
<1>1. \A q \in Proc, k \in Leg :
        leg'[q][k].pc = IF q = p /\ k = l THEN "refresh" ELSE leg[q][k].pc
  BY MovePC DEF Acquire, PC
<1>2. ASSUME NEW q \in Proc, NEW e \in Engine
      PROVE  Cardinality(Holders(q, e)') <= Concurrency[e]
  <2>1. CASE q = p /\ e = LegEngine[l]
    <3>1. Holders(q, e)' = Holders(q, e) \cup {l}
      BY <1>1, <2>1 DEF Holders, PermitPC, PC
    <3>2. /\ IsFiniteSet(Holders(q, e))
          /\ Cardinality(Holders(q, e)) \in Nat
          /\ Cardinality(Holders(q, e)) < Concurrency[e]
      BY <2>1, CountedSets DEF Acquire
    <3>3. Cardinality(Holders(q, e)')
            \in {Cardinality(Holders(q, e)), Cardinality(Holders(q, e)) + 1}
      BY <3>1, <3>2, FS_AddElement
    <3> QED BY <3>2, <3>3, GovernorAssumption
  <2>2. CASE ~(q = p /\ e = LegEngine[l])
    <3>1. Holders(q, e)' = Holders(q, e)
      BY <1>1, <2>2 DEF Holders
    <3> QED BY <3>1 DEF BudgetInv, PermitBound
  <2> QED BY <2>1, <2>2
<1>3. ASSUME NEW q \in Proc, NEW e \in Engine
      PROVE  views'[q][e].count + Cardinality(Passed(q, e)')
               <= RequestCap + Concurrency[e] - 1
  <2>1. Passed(q, e)' = Passed(q, e)
    BY <1>1 DEF Passed, Acquire
  <2> QED BY <2>1 DEF BudgetInv, ReservationBound, Acquire
<1> QED BY <1>2, <1>3 DEF BudgetInv, PermitBound, ReservationBound

(* A leg passes the budget check only below the cap, and its siblings that *)
(* passed before it are at most Concurrency - 1.                           *)
LEMMA CheckBudgetBudget ==
  ASSUME TypeOK, TypeOK', BudgetInv, NEW p \in Proc, NEW l \in Leg, CheckBudget(p, l)
  PROVE  BudgetInv'
<1>1. CASE OverBudget(p, LegEngine[l])
  <2>1. \A q \in Proc, k \in Leg :
          /\ leg'[q][k].pc \in PermitPC => leg[q][k].pc \in PermitPC
          /\ leg'[q][k].pc \in {"last", "sleep"} => leg[q][k].pc \in {"last", "sleep"}
    BY <1>1, MovePC DEF CheckBudget, Refuse, PermitPC, PC
  <2>2. \A q \in Proc, e \in Engine : views'[q][e].count <= views[q][e].count
    BY DEF CheckBudget, TypeOK, View
  <2> QED BY <2>1, <2>2, NarrowStep
<1>2. CASE ~OverBudget(p, LegEngine[l])
  <2>1. \A q \in Proc, k \in Leg :
          leg'[q][k].pc = IF q = p /\ k = l THEN "last" ELSE leg[q][k].pc
    BY <1>2, MovePC DEF CheckBudget, PC
  <2>2. leg[p][l].pc = "budget"
    BY DEF CheckBudget
  <2>3. \A q \in Proc, e \in Engine : Holders(q, e)' = Holders(q, e)
    BY <2>1, <2>2 DEF Holders, PermitPC, PC
  <2>4. ASSUME NEW q \in Proc, NEW e \in Engine
        PROVE  views'[q][e].count + Cardinality(Passed(q, e)')
                 <= RequestCap + Concurrency[e] - 1
    <3>1. CASE q = p /\ e = LegEngine[l]
      <4>1. Passed(q, e)' \subseteq Holders(q, e)
        BY <2>1, <2>2 DEF Passed, Holders, PermitPC, PC
      <4>2. /\ Cardinality(Passed(q, e)') <= Cardinality(Holders(q, e))
            /\ Cardinality(Passed(q, e)') \in Nat
        BY <4>1, CountedSets, FS_Subset, FS_CardinalityType
      <4>3. views'[q][e].count = views[q][e].count /\ views[q][e].count < RequestCap
            /\ views[q][e].count \in Nat
        BY <1>2, <3>1, CountedSets, GovernorAssumption DEF OverBudget, CheckBudget
      <4>4. Cardinality(Holders(q, e)) <= Concurrency[e]
            /\ Cardinality(Holders(q, e)) \in Nat
        BY CountedSets DEF BudgetInv, PermitBound
      <4> QED BY <4>2, <4>3, <4>4, GovernorAssumption
    <3>2. CASE ~(q = p /\ e = LegEngine[l])
      <4>1. Passed(q, e)' = Passed(q, e)
        BY <2>1, <3>2 DEF Passed
      <4> QED BY <4>1 DEF BudgetInv, ReservationBound, CheckBudget
    <3> QED BY <3>1, <3>2
  <2> QED BY <2>3, <2>4 DEF BudgetInv, PermitBound, ReservationBound
<1> QED BY <1>1, <1>2

(* A reservation turns one leg that passed the check into one request.     *)
LEMMA ReserveBudget ==
  ASSUME TypeOK, TypeOK', BudgetInv, NEW p \in Proc, NEW l \in Leg, Reserve(p, l)
  PROVE  BudgetInv'
<1> DEFINE m == [Merged(p) EXCEPT ![LegEngine[l]].request = now,
                                  ![LegEngine[l]].count = @ + 1]
<1>e. LegEngine[l] \in Engine
  BY GovernorAssumption
<1>1. leg[p][l].pc = "sleep" /\ Publish(p, m)
  BY DEF Reserve
<1>2. \A q \in Proc, k \in Leg :
        leg'[q][k].pc = IF q = p /\ k = l THEN "wire" ELSE leg[q][k].pc
  BY DEF Reserve, TypeOK, LegState
<1>3. \A e \in Engine :
        m[e].count = IF e = LegEngine[l] THEN views[p][e].count + 1 ELSE views[p][e].count
  BY <1>e, MergedProperties DEF View
<1>4. \A q \in Proc, e \in Engine :
        views'[q][e].count = IF q = p /\ e = LegEngine[l]
                             THEN views[q][e].count + 1 ELSE views[q][e].count
  <2> HIDE DEF m
  <2> QED BY <1>1, <1>3 DEF Publish, TypeOK
<1>5. \A q \in Proc, e \in Engine : Holders(q, e)' = Holders(q, e)
  BY <1>1, <1>2 DEF Holders, PermitPC, PC
<1>6. ASSUME NEW q \in Proc, NEW e \in Engine
      PROVE  views'[q][e].count + Cardinality(Passed(q, e)')
               = views[q][e].count + Cardinality(Passed(q, e))
  <2>1. CASE q = p /\ e = LegEngine[l]
    <3>1. l \in Passed(q, e) /\ Passed(q, e)' = Passed(q, e) \ {l}
      BY <1>1, <1>2, <2>1 DEF Passed
    <3>2. Cardinality(Passed(q, e)') = Cardinality(Passed(q, e)) - 1
      BY <3>1, CountedSets, FS_RemoveElement
    <3> QED BY <1>4, <2>1, <3>2, CountedSets
  <2>2. CASE ~(q = p /\ e = LegEngine[l])
    <3>1. Passed(q, e)' = Passed(q, e)
      BY <1>2, <2>2 DEF Passed
    <3> QED BY <1>4, <2>2, <3>1
  <2> QED BY <2>1, <2>2
<1> QED BY <1>5, <1>6 DEF BudgetInv, PermitBound, ReservationBound

LEMMA NextBudget == TypeOK /\ BudgetInv /\ [Next]_vars => BudgetInv'
<1> SUFFICES ASSUME TypeOK, BudgetInv, [Next]_vars PROVE BudgetInv'
  OBVIOUS
<1>t. TypeOK'
  BY NextType
<1>1. CASE \E p \in Proc, l \in Leg : LegStep(p, l)
  BY <1>1, <1>t, QuietStepBudget, AcquireBudget, CheckBudgetBudget, ReserveBudget
     DEF LegStep
<1>2. CASE \E p \in Proc : Restart(p)
  <2>1. \A p \in Proc, l \in Leg : leg'[p][l].pc \in {"idle", leg[p][l].pc}
    BY <1>2 DEF Restart, IdleLeg, TypeOK
  <2>2. \A p \in Proc, e \in Engine : views'[p][e].count <= views[p][e].count
    <3>1. \A p \in Proc, e \in Engine : views'[p][e].count \in {0, views[p][e].count}
      BY <1>2 DEF Restart, NoView, TypeOK
    <3> QED BY <3>1, CountedSets
  <2> QED BY <2>1, <2>2, <1>t, NarrowStep DEF PermitPC
<1>3. CASE UNCHANGED <<views, leg>>
  BY <1>3 DEF BudgetInv, PermitBound, ReservationBound, Holders, Passed
<1> QED BY <1>1, <1>2, <1>3 DEF Next, Tick, vars

LEMMA InitBudget == Init => BudgetInv
<1> SUFFICES ASSUME Init, NEW p \in Proc, NEW e \in Engine
             PROVE  /\ Cardinality(Holders(p, e)) <= Concurrency[e]
                    /\ views[p][e].count + Cardinality(Passed(p, e))
                         <= RequestCap + Concurrency[e] - 1
  BY DEF BudgetInv, PermitBound, ReservationBound
<1>1. Holders(p, e) = {} /\ Passed(p, e) = {}
  BY DEF Init, IdleLeg, Holders, Passed, PermitPC
<1>2. views[p][e].count = 0
  BY DEF Init, NoView
<1> QED BY <1>1, <1>2, FS_EmptySet, GovernorAssumption

(* No engine has more legs past acquire than permits, and the requests     *)
(* counted plus those about to be counted stay within the documented       *)
(* overshoot: the inductive form of the budget.                            *)
THEOREM BudgetInvariant == Spec => []BudgetInv
  BY InitBudget, NextBudget, TypeCorrect, PTL DEF Spec

(* However many legs race through the budget check, a process sends an     *)
(* engine at most RequestCap + Concurrency - 1 requests.                   *)
THEOREM BudgetHolds == Spec => []BudgetBound
<1>1. TypeOK /\ BudgetInv => BudgetBound
  <2> SUFFICES ASSUME TypeOK, BudgetInv, NEW p \in Proc, NEW e \in Engine
               PROVE  views[p][e].count <= RequestCap + Concurrency[e] - 1
    BY DEF BudgetBound
  <2> QED BY CountedSets, GovernorAssumption DEF BudgetInv, ReservationBound
<1> QED BY <1>1, BudgetInvariant, TypeCorrect, PTL

-----------------------------------------------------------------------------
(* The clock conversions: the way out and back loses less than a           *)
(* millisecond, the way in and back nothing, and neither reorders.         *)
LEMMA RoundTrip ==
  ASSUME NEW t \in Time
  PROVE  /\ ToDisk(FromDisk(t)) = t
         /\ FromDisk(ToDisk(t)) <= t
         /\ t # None => t < FromDisk(ToDisk(t)) + Res
<1>r. Res \in Nat \ {0}
  BY GovernorAssumption
<1>1. CASE t = None
  BY <1>1 DEF ToDisk, FromDisk, None
<1>2. CASE t \in Nat
  <2>1. ToDisk(t) = t \div Res /\ FromDisk(t) = t * Res
    BY <1>2 DEF ToDisk, FromDisk, None
  <2>2. t \div Res \in Nat /\ t * Res \in Nat
    BY <1>r, <1>2, DivType
  <2>3. FromDisk(t \div Res) = (t \div Res) * Res /\ ToDisk(t * Res) = (t * Res) \div Res
    BY <2>2 DEF ToDisk, FromDisk, None
  <2>4. (t \div Res) * Res <= t
    BY <1>r, <1>2
  <2>5. (t * Res) \div Res = t
    BY <1>r, <1>2
  <2>6. t < (t \div Res) * Res + Res
    BY <1>r, <1>2
  <2> QED BY <2>1, <2>3, <2>4, <2>5, <2>6
<1> QED BY <1>1, <1>2 DEF Time

LEMMA ToDiskOrder ==
  ASSUME NEW t \in Time, NEW u \in Time, t <= u
  PROVE  ToDisk(t) <= ToDisk(u)
<1>1. CASE t \in Nat
  <2>1. u \in Nat
    BY <1>1 DEF Time, None
  <2>2. t \div Res <= u \div Res
    BY <1>1, <2>1, GovernorAssumption
  <2> QED BY <1>1, <2>1, <2>2 DEF ToDisk, None
<1>2. CASE t = None
  BY <1>2, ConversionType DEF ToDisk, Time, None
<1> QED BY <1>1, <1>2 DEF Time

LEMMA FromDiskOrder ==
  ASSUME NEW t \in Time, NEW u \in Time, t <= u
  PROVE  FromDisk(t) <= FromDisk(u)
<1>1. CASE t \in Nat
  <2>1. u \in Nat
    BY <1>1 DEF Time, None
  <2>2. t * Res <= u * Res
    BY <1>1, <2>1, GovernorAssumption
  <2> QED BY <1>1, <2>1, <2>2 DEF FromDisk, None
<1>2. CASE t = None
  BY <1>2, ConversionType DEF FromDisk, Time, None
<1> QED BY <1>1, <1>2 DEF Time

(* A merge keeps the suspension of a side while it runs, unless a success  *)
(* came after it.                                                          *)
LEMMA MergeKeeps ==
  ASSUME now \in Nat, NEW view \in View, NEW remote \in Entry,
         NEW merged, merged = MergeView(view, remote)
  PROVE  /\ merged.request = LaterOf(view.request, remote.request)
         /\ merged.success = LaterOf(view.success, remote.success)
         /\ merged.at \in {view.at, remote.at, None}
         /\ view.until > now =>
              merged.success > view.at \/ merged.until >= EarlierOf(view.until, SuspensionCap)
         /\ remote.until > now =>
              merged.success > remote.at \/ merged.until >= EarlierOf(remote.until, SuspensionCap)
<1> DEFINE success == LaterOf(view.success, remote.success)
           Alive(s) == s.until > now /\ (success = None \/ s.at >= success)
           winner == IF Alive(remote) /\ ~(Alive(view) /\ view.until >= remote.until)
                     THEN remote ELSE view
           kept == Alive(winner)
           until == IF kept THEN EarlierOf(winner.until, SuspensionCap) ELSE None
           at == IF kept THEN winner.at ELSE None
<1>1. merged = [until |-> until, at |-> at, request |-> LaterOf(view.request, remote.request),
                success |-> success, count |-> view.count]
  BY DEF MergeView
<1>2. at \in {view.at, remote.at, None}
  OBVIOUS
<1>3. /\ success \in Time /\ SuspensionCap \in Nat /\ now \in Nat
      /\ view.at \in Time /\ remote.at \in Time
      /\ view.until \in Time /\ remote.until \in Time
  BY GovernorAssumption DEF LaterOf, View, Entry, SuspensionCap
<1>4. ASSUME view.until > now, ~(success > view.at)
      PROVE  until >= EarlierOf(view.until, SuspensionCap)
  <2>1. Alive(view)
    BY <1>3, <1>4 DEF Time, None
  <2>2. kept /\ winner.until >= view.until /\ winner.until \in Time
    BY <1>3, <2>1 DEF Time, None
  <2> HIDE DEF kept, winner
  <2> QED BY <1>3, <2>2 DEF EarlierOf, Time, None
<1>5. ASSUME remote.until > now, ~(success > remote.at)
      PROVE  until >= EarlierOf(remote.until, SuspensionCap)
  <2>1. Alive(remote)
    BY <1>3, <1>5 DEF Time, None
  <2>2. kept /\ winner.until >= remote.until /\ winner.until \in Time
    BY <1>3, <2>1 DEF Time, None
  <2> HIDE DEF kept, winner
  <2> QED BY <1>3, <2>2 DEF EarlierOf, Time, None
<1>6. /\ merged.until = until /\ merged.at = at /\ merged.success = success
      /\ merged.request = LaterOf(view.request, remote.request)
  <2> HIDE DEF until, at, success
  <2> QED BY <1>1
<1> HIDE DEF until, at
<1> QED BY <1>2, <1>4, <1>5, <1>6

(* What sync finds for e in the views of p: the clocks of the view and of  *)
(* the file never go back, and a suspension that either side has running   *)
(* stays unless a success came after it.                                   *)
LEMMA MergedKeeps ==
  ASSUME TypeOK, NEW p \in Proc, NEW e \in Engine
  PROVE  /\ Merged(p)[e] \in View
         /\ Merged(p)[e].request >= views[p][e].request
         /\ Merged(p)[e].success >= views[p][e].success
         /\ Merged(p)[e].request \in {views[p][e].request, FromDisk(disk[e].request)}
         /\ Merged(p)[e].success \in {views[p][e].success, FromDisk(disk[e].success)}
         /\ Merged(p)[e].at \in {views[p][e].at, FromDisk(disk[e].at), None}
         /\ views[p][e].until > now =>
              \/ CacheRoot /\ Merged(p)[e].success > views[p][e].at
              \/ Merged(p)[e].until >= EarlierOf(views[p][e].until, SuspensionCap)
         /\ CacheRoot =>
              /\ Merged(p)[e].request >= FromDisk(disk[e].request)
              /\ Merged(p)[e].success >= FromDisk(disk[e].success)
              /\ ReadAt(e, now) > now =>
                   \/ Merged(p)[e].success > FromDisk(disk[e].at)
                   \/ Merged(p)[e].until >= ReadAt(e, now)
<1> DEFINE v == views[p][e]
           r == ViewFromDisk(disk[e])
           m == Merged(p)[e]
<1>1. v \in View /\ r \in Entry /\ now \in Nat /\ m \in View
  BY EntryType, MergedProperties DEF TypeOK
<1>2. /\ r.until = ReadAt(e, now) /\ r.at = FromDisk(disk[e].at)
      /\ r.request = FromDisk(disk[e].request) /\ r.success = FromDisk(disk[e].success)
  BY DEF ViewFromDisk, ReadAt, SuspensionCap
<1>3. /\ v.request \in Time /\ v.success \in Time /\ r.request \in Time /\ r.success \in Time
      /\ v.until \in Time /\ r.until \in Time
  BY <1>1 DEF View, Entry
<1>4. CASE CacheRoot
  <2>1. m = MergeView(v, r)
    BY <1>4 DEF Merged
  <2>2. r.until <= SuspensionCap
    <3>1. SuspensionCap \in Nat /\ ToDisk(SuspensionCap) \in Time /\ disk[e].until \in Time
      BY <1>1, ConversionType, GovernorAssumption DEF SuspensionCap, Time, TypeOK, Entry
    <3>2. EarlierOf(disk[e].until, ToDisk(SuspensionCap)) \in Time
          /\ EarlierOf(disk[e].until, ToDisk(SuspensionCap)) <= ToDisk(SuspensionCap)
      BY <3>1 DEF EarlierOf, Time, None
    <3>3. r.until <= FromDisk(ToDisk(SuspensionCap))
      BY <1>2, <3>1, <3>2, FromDiskOrder DEF ReadAt, SuspensionCap
    <3>4. FromDisk(ToDisk(SuspensionCap)) <= SuspensionCap
          /\ FromDisk(ToDisk(SuspensionCap)) \in Time
      BY <3>1, RoundTrip, ConversionType DEF Time
    <3> QED BY <1>3, <3>1, <3>3, <3>4 DEF Time, None
  <2>3. /\ m.request = LaterOf(v.request, r.request)
        /\ m.success = LaterOf(v.success, r.success)
        /\ m.at \in {v.at, r.at, None}
        /\ v.until > now => m.success > v.at \/ m.until >= EarlierOf(v.until, SuspensionCap)
        /\ r.until > now => m.success > r.at \/ m.until >= EarlierOf(r.until, SuspensionCap)
    <3> HIDE DEF v, r, m
    <3> QED BY <1>1, <2>1, MergeKeeps
  <2>4. EarlierOf(r.until, SuspensionCap) = r.until
    BY <2>2 DEF EarlierOf
  <2> HIDE DEF v, r, m
  <2>5. /\ m.request >= v.request /\ m.success >= v.success
        /\ m.request >= r.request /\ m.success >= r.success
        /\ m.request \in {v.request, r.request} /\ m.success \in {v.success, r.success}
    BY <1>3, <2>3 DEF LaterOf, Time, None
  <2> USE DEF v, m
  <2> QED BY <1>1, <1>2, <1>4, <2>3, <2>4, <2>5
<1>5. CASE ~CacheRoot
  <2>1. m = v
    BY <1>5 DEF Merged
  <2>2. m.until >= EarlierOf(v.until, SuspensionCap)
    BY <1>1, <1>3, <2>1, GovernorAssumption DEF EarlierOf, SuspensionCap, Time, None
  <2>3. m.request >= v.request /\ m.success >= v.success
    BY <1>3, <2>1 DEF Time, None
  <2> QED BY <1>1, <1>5, <2>1, <2>2, <2>3
<1> QED BY <1>4, <1>5

-----------------------------------------------------------------------------
(* What a leg does to the view it merged before it publishes it: a start,  *)
(* a success, or a failure that never shortens the suspension.             *)
Mutates(merged, mutated) ==
  /\ mutated.request \in {merged.request, now}
  /\ \/ /\ mutated.until = merged.until /\ mutated.at = merged.at
        /\ mutated.success = merged.success
     \/ mutated.until = None /\ mutated.at = None /\ mutated.success = now
     \/ /\ mutated.until >= merged.until /\ mutated.at = now
        /\ mutated.success = merged.success

(* Every step of a leg leaves views and file alone or syncs them so.       *)
LEMMA StepSyncs ==
  ASSUME TypeOK, NEW p \in Proc, NEW l \in Leg, LegStep(p, l)
  PROVE  /\ now' = now
         /\ \/ UNCHANGED <<disk, since, views>>
            \/ \E m \in [Engine -> View] :
                 Publish(p, m) /\ \A e \in Engine : Mutates(Merged(p)[e], m[e])
<1> DEFINE f == LegEngine[l]
           Syncs(m) == /\ m \in [Engine -> View] /\ Publish(p, m)
                       /\ \A e \in Engine : Mutates(Merged(p)[e], m[e])
<1>e. f \in Engine
  BY GovernorAssumption
<1>n. now \in Nat /\ None \in Time /\ now \in Time
  BY DEF TypeOK, Time, None
<1>m. Merged(p) \in [Engine -> View] /\ \A e \in Engine : Merged(p)[e] \in View
  BY MergedProperties
<1>1. CASE Load(p, l) \/ Refresh(p, l)
  <2>1. \A e \in Engine : Mutates(Merged(p)[e], Merged(p)[e])
    BY DEF Mutates
  <2>2. Syncs(Merged(p)) /\ now' = now
    BY <1>1, <1>m, <2>1 DEF Load, Refresh
  <2> QED BY <2>2
<1>2. CASE Reserve(p, l)
  <2> DEFINE m == [Merged(p) EXCEPT ![f].request = now, ![f].count = @ + 1]
  <2>1. m \in [Engine -> View]
    BY <1>m, <1>e, <1>n DEF View
  <2>2. ASSUME NEW e \in Engine PROVE Mutates(Merged(p)[e], m[e])
    BY <1>m, <1>e DEF Mutates, View
  <2>3. Publish(p, m) /\ now' = now
    BY <1>2 DEF Reserve
  <2> HIDE DEF m
  <2>4. Syncs(m)
    BY <2>1, <2>2, <2>3
  <2> QED BY <2>3, <2>4
<1>3. CASE Succeed(p, l)
  <2> DEFINE m == [Merged(p) EXCEPT ![f].success = now, ![f].until = None, ![f].at = None]
  <2>1. m \in [Engine -> View]
    BY <1>m, <1>e, <1>n DEF View
  <2>2. ASSUME NEW e \in Engine PROVE Mutates(Merged(p)[e], m[e])
    BY <1>m, <1>e DEF Mutates, View
  <2>3. Publish(p, m) /\ now' = now
    BY <1>3 DEF Succeed
  <2> HIDE DEF m
  <2>4. Syncs(m)
    BY <2>1, <2>2, <2>3
  <2> QED BY <2>3, <2>4
<1>4. CASE Fail(p, l)
  <2>1. PICK d \in ErrorSuspension :
          IF EarlierOf(d, MaxSuspension) = 0 THEN UNCHANGED <<disk, since, views>>
          ELSE Publish(p, [Merged(p) EXCEPT ![f] = WithFailure(@, d)])
    BY <1>4 DEF Fail
  <2> DEFINE m == [Merged(p) EXCEPT ![f] = WithFailure(@, d)]
             w == WithFailure(Merged(p)[f], d)
  <2>2. now + EarlierOf(d, MaxSuspension) \in Time
    BY <1>n, GovernorAssumption DEF EarlierOf, Time
  <2>3. w \in View
    BY <2>2, <1>m, <1>e, <1>n DEF WithFailure, View
  <2>4. Mutates(Merged(p)[f], w)
    <3>1. Merged(p)[f].until \in Time
      BY <1>m, <1>e DEF View
    <3>2. CASE w = Merged(p)[f]
      BY <3>2 DEF Mutates
    <3>3. CASE w # Merged(p)[f]
      <4>1. /\ w = [Merged(p)[f] EXCEPT !.until = now + EarlierOf(d, MaxSuspension), !.at = now]
            /\ \/ Merged(p)[f].until = None
               \/ now + EarlierOf(d, MaxSuspension) > Merged(p)[f].until
        BY <3>3 DEF WithFailure
      <4>2. /\ w.until = now + EarlierOf(d, MaxSuspension) /\ w.at = now
            /\ w.request = Merged(p)[f].request /\ w.success = Merged(p)[f].success
        BY <4>1, <1>m, <1>e DEF View
      <4>3. w.until >= Merged(p)[f].until
        BY <2>2, <3>1, <4>1, <4>2 DEF Time, None
      <4> HIDE DEF w
      <4> QED BY <4>2, <4>3 DEF Mutates
    <3> QED BY <3>2, <3>3
  <2>5. m \in [Engine -> View]
    BY <2>3, <1>m, <1>e
  <2>6. ASSUME NEW e \in Engine PROVE Mutates(Merged(p)[e], m[e])
    <3>1. CASE e = f
      BY <3>1, <2>4, <1>m, <1>e
    <3>2. CASE e # f
      BY <3>2, <1>m DEF Mutates
    <3> QED BY <3>1, <3>2
  <2>7. UNCHANGED <<disk, since, views>> \/ Publish(p, m)
    BY <2>1
  <2>8. now' = now
    BY <1>4 DEF Fail
  <2> HIDE DEF m
  <2> QED BY <2>5, <2>6, <2>7, <2>8
<1>5. CASE UNCHANGED <<now, disk, since, views>>
  BY <1>5
<1> QED
  BY <1>1, <1>2, <1>3, <1>4, <1>5
     DEF LegStep, Begin, Precheck, Acquire, CheckSuspended, CheckBudget, ReadLast,
         NextPage, TransportFail, Retry, Abort

-----------------------------------------------------------------------------
(* No recorded clock lies ahead, a suspension is not younger than its      *)
(* place in the file, and without a cache root there is no file.           *)
ClockInv ==
  /\ \A p \in Proc, e \in Engine :
       views[p][e].at <= now /\ views[p][e].request <= now /\ views[p][e].success <= now
  /\ \A e \in Engine :
       /\ FromDisk(disk[e].at) <= since[e] /\ FromDisk(disk[e].at) <= now
       /\ FromDisk(disk[e].request) <= now /\ FromDisk(disk[e].success) <= now
       /\ ~CacheRoot => disk[e].until = None

(* What publishing changes. *)
LEMMA Published ==
  ASSUME TypeOK, NEW p \in Proc, NEW m \in [Engine -> View], Publish(p, m)
  PROVE  /\ \A q \in Proc, e \in Engine :
              views'[q][e] = IF q = p THEN m[e] ELSE views[q][e]
         /\ \/ UNCHANGED <<disk, since>>
            \/ CacheRoot /\ \A e \in Engine :
                 /\ disk'[e] = DiskFromView(m[e])
                 /\ \/ since'[e] = now
                    \/ SameSuspension(disk'[e], disk[e]) /\ since'[e] = since[e]
<1>1. views' = [views EXCEPT ![p] = m]
  BY DEF Publish
<1>2. ASSUME NEW q \in Proc, NEW e \in Engine
      PROVE  views'[q][e] = IF q = p THEN m[e] ELSE views[q][e]
  BY <1>1 DEF TypeOK
<1>3. CASE disk' = [e \in Engine |-> DiskFromView(m[e])] /\ CacheRoot
           /\ since' = [e \in Engine |-> IF SameSuspension(disk'[e], disk[e])
                                         THEN since[e] ELSE now]
  <2>1. ASSUME NEW e \in Engine
        PROVE  /\ disk'[e] = DiskFromView(m[e])
               /\ \/ since'[e] = now
                  \/ SameSuspension(disk'[e], disk[e]) /\ since'[e] = since[e]
    <3>1. since'[e] = IF SameSuspension(disk'[e], disk[e]) THEN since[e] ELSE now
      BY <1>3
    <3> QED BY <1>3, <3>1
  <2> QED BY <1>2, <1>3, <2>1
<1> QED BY <1>2, <1>3 DEF Publish

(* The times of a view before and after a leg's mutation. *)
LEMMA MutatedTimes ==
  ASSUME TypeOK, ClockInv, NEW p \in Proc, NEW m \in [Engine -> View], NEW e \in Engine,
         Mutates(Merged(p)[e], m[e])
  PROVE  /\ m[e].at \in Time /\ m[e].request \in Time /\ m[e].success \in Time
         /\ m[e].until \in Time
         /\ m[e].at <= now /\ m[e].request <= now /\ m[e].success <= now
         /\ m[e].request >= Merged(p)[e].request /\ m[e].success >= Merged(p)[e].success
         /\ \/ m[e].until >= Merged(p)[e].until
            \/ m[e].success = now
<1> DEFINE v == views[p][e]
           w == Merged(p)[e]
           d == disk[e]
<1>1. m[e] \in View /\ v \in View /\ w \in View /\ d \in Entry /\ now \in Nat
  BY MergedProperties DEF TypeOK
<1>2. /\ w.at \in {v.at, FromDisk(d.at), None}
      /\ w.request \in {v.request, FromDisk(d.request)}
      /\ w.success \in {v.success, FromDisk(d.success)}
  BY MergedKeeps
<1>3. /\ v.at <= now /\ v.request <= now /\ v.success <= now
      /\ FromDisk(d.at) <= now /\ FromDisk(d.request) <= now /\ FromDisk(d.success) <= now
  BY DEF ClockInv
<1> HIDE DEF v, w, d
<1>4. w.at <= now /\ w.request <= now /\ w.success <= now
      /\ w.at \in Time /\ w.request \in Time /\ w.success \in Time /\ w.until \in Time
  BY <1>1, <1>2, <1>3 DEF None, View
<1>5. Mutates(w, m[e])
  BY DEF w
<1>6. m[e].at \in Time /\ m[e].request \in Time /\ m[e].success \in Time /\ m[e].until \in Time
  BY <1>1 DEF View
<1>7. /\ m[e].at <= now /\ m[e].request <= now /\ m[e].success <= now
      /\ m[e].request >= w.request /\ m[e].success >= w.success
      /\ m[e].until >= w.until \/ m[e].success = now
  BY <1>1, <1>4, <1>5, <1>6 DEF Mutates, Time, None
<1> QED BY <1>6, <1>7 DEF w

LEMMA SyncClocks ==
  ASSUME TypeOK, ClockInv, now' = now, NEW p \in Proc, NEW m \in [Engine -> View],
         Publish(p, m), \A e \in Engine : Mutates(Merged(p)[e], m[e])
  PROVE  ClockInv'
<1>n. now \in Nat
  BY DEF TypeOK
<1>1. ASSUME NEW q \in Proc, NEW e \in Engine
      PROVE  /\ views'[q][e].at <= now /\ views'[q][e].request <= now
             /\ views'[q][e].success <= now
  <2>1. m[e].at <= now /\ m[e].request <= now /\ m[e].success <= now
    BY MutatedTimes
  <2>2. views'[q][e] = IF q = p THEN m[e] ELSE views[q][e]
    BY Published
  <2> QED BY <2>1, <2>2 DEF ClockInv
<1>2. ASSUME NEW e \in Engine
      PROVE  /\ FromDisk(disk'[e].at) <= since'[e] /\ FromDisk(disk'[e].at) <= now
             /\ FromDisk(disk'[e].request) <= now /\ FromDisk(disk'[e].success) <= now
             /\ ~CacheRoot => disk'[e].until = None
  <2>1. CASE UNCHANGED <<disk, since>>
    BY <2>1 DEF ClockInv
  <2>2. CASE /\ CacheRoot /\ disk'[e] = DiskFromView(m[e])
             /\ \/ since'[e] = now
                \/ SameSuspension(disk'[e], disk[e]) /\ since'[e] = since[e]
    <3>1. /\ m[e].at \in Time /\ m[e].request \in Time /\ m[e].success \in Time
          /\ m[e].at <= now /\ m[e].request <= now /\ m[e].success <= now
      BY MutatedTimes
    <3>2. /\ disk'[e].at = ToDisk(m[e].at) /\ disk'[e].request = ToDisk(m[e].request)
          /\ disk'[e].success = ToDisk(m[e].success)
      BY <2>2 DEF DiskFromView
    <3>3. ASSUME NEW t \in Time, t <= now PROVE FromDisk(ToDisk(t)) <= now
      <4>1. FromDisk(ToDisk(t)) \in Time /\ FromDisk(ToDisk(t)) <= t
        BY ConversionType, RoundTrip
      <4> QED BY <4>1, <3>3, <1>n DEF Time, None
    <3>4. /\ FromDisk(disk'[e].at) <= now
          /\ FromDisk(disk'[e].request) <= now /\ FromDisk(disk'[e].success) <= now
      BY <3>1, <3>2, <3>3
    <3>5. SameSuspension(disk'[e], disk[e]) => FromDisk(disk'[e].at) <= since[e]
      BY DEF SameSuspension, ClockInv
    <3> QED BY <2>2, <3>4, <3>5
  <2> QED BY <2>1, <2>2, Published
<1> QED BY <1>1, <1>2 DEF ClockInv

LEMMA NextClocks == TypeOK /\ ClockInv /\ [Next]_vars => ClockInv'
<1> SUFFICES ASSUME TypeOK, ClockInv, [Next]_vars PROVE ClockInv'
  OBVIOUS
<1>1. CASE \E p \in Proc, l \in Leg : LegStep(p, l)
  <2>1. PICK p \in Proc, l \in Leg : LegStep(p, l)
    BY <1>1
  <2>2. CASE UNCHANGED <<disk, since, views>>
    BY <2>1, <2>2, StepSyncs DEF ClockInv
  <2>3. CASE \E m \in [Engine -> View] :
               Publish(p, m) /\ \A e \in Engine : Mutates(Merged(p)[e], m[e])
    BY <2>1, <2>3, StepSyncs, SyncClocks
  <2> QED BY <2>1, <2>2, <2>3, StepSyncs
<1>2. CASE \E p \in Proc : Restart(p)
  <2>1. \A p \in Proc, e \in Engine : views'[p][e] \in {views[p][e], NoView}
    BY <1>2 DEF Restart, TypeOK
  <2>2. UNCHANGED <<now, disk, since>> /\ now \in Nat
    BY <1>2 DEF Restart, TypeOK
  <2>3. ASSUME NEW p \in Proc, NEW e \in Engine
        PROVE  /\ views'[p][e].at <= now' /\ views'[p][e].request <= now'
               /\ views'[p][e].success <= now'
    BY <2>1, <2>2 DEF ClockInv, NoView, None
  <2> QED BY <2>2, <2>3 DEF ClockInv
<1>3. CASE Tick
  <2>1. now' = now + 1 /\ now \in Nat /\ UNCHANGED <<disk, since, views>>
    BY <1>3 DEF Tick, TypeOK
  <2>2. ASSUME NEW p \in Proc, NEW e \in Engine
        PROVE  /\ views[p][e].at <= now + 1 /\ views[p][e].request <= now + 1
               /\ views[p][e].success <= now + 1
    <3>1. views[p][e].at \in Time /\ views[p][e].request \in Time /\ views[p][e].success \in Time
      BY DEF TypeOK, View
    <3> QED BY <2>1, <3>1 DEF ClockInv, Time, None
  <2>3. ASSUME NEW e \in Engine
        PROVE  /\ FromDisk(disk[e].at) <= now + 1
               /\ FromDisk(disk[e].request) <= now + 1 /\ FromDisk(disk[e].success) <= now + 1
    <3>1. /\ FromDisk(disk[e].at) \in Time /\ FromDisk(disk[e].request) \in Time
          /\ FromDisk(disk[e].success) \in Time
      BY ConversionType DEF TypeOK, Entry
    <3> QED BY <2>1, <3>1 DEF ClockInv, Time, None
  <2> QED BY <2>1, <2>2, <2>3 DEF ClockInv
<1>4. CASE UNCHANGED vars
  BY <1>4 DEF vars, ClockInv
<1> QED BY <1>1, <1>2, <1>3, <1>4 DEF Next

LEMMA InitClocks == Init => ClockInv
<1> SUFFICES ASSUME Init PROVE ClockInv
  OBVIOUS
<1>1. \A p \in Proc, e \in Engine : views[p][e] = NoView
  BY DEF Init
<1>2. \A e \in Engine : /\ disk[e].at = None /\ disk[e].request = None
                        /\ disk[e].success = None /\ since[e] = 0
                        /\ ~CacheRoot => disk[e].until = None
  BY DEF Init, NoEntry
<1>3. now = 0
  BY DEF Init
<1> QED BY <1>1, <1>2, <1>3 DEF ClockInv, NoView, FromDisk, None

(* The clocks of views and file are never ahead of time.                   *)
LEMMA ClocksHold == Spec => [](TypeOK /\ ClockInv)
  BY InitType, NextType, InitClocks, NextClocks, PTL DEF Spec

-----------------------------------------------------------------------------
(* The shared pacing and success clocks never go back.                     *)
LEMMA SyncNeverRewinds ==
  ASSUME TypeOK, ClockInv, NEW p \in Proc, NEW m \in [Engine -> View], Publish(p, m),
         \A e \in Engine : Mutates(Merged(p)[e], m[e]), NEW e \in Engine
  PROVE  disk'[e].request >= disk[e].request /\ disk'[e].success >= disk[e].success
<1>t. disk[e].request \in Time /\ disk[e].success \in Time
  BY DEF TypeOK, Entry
<1>1. CASE UNCHANGED <<disk, since>>
  BY <1>1, <1>t DEF Time, None
<1>2. CASE CacheRoot /\ disk'[e] = DiskFromView(m[e])
  <2> DEFINE w == Merged(p)[e]
  <2>1. w.request >= FromDisk(disk[e].request) /\ w.success >= FromDisk(disk[e].success)
    BY <1>2, MergedKeeps
  <2>2. m[e].request >= w.request /\ m[e].success >= w.success
        /\ m[e].request \in Time /\ m[e].success \in Time
    BY MutatedTimes
  <2>3. w.request \in Time /\ w.success \in Time
    BY MergedProperties DEF View
  <2> HIDE DEF w
  <2>4. FromDisk(disk[e].request) \in Time /\ FromDisk(disk[e].success) \in Time
    BY <1>t, ConversionType
  <2>5. m[e].request >= FromDisk(disk[e].request) /\ m[e].success >= FromDisk(disk[e].success)
    BY <2>1, <2>2, <2>3, <2>4 DEF Time, None
  <2>6. /\ ToDisk(m[e].request) >= ToDisk(FromDisk(disk[e].request))
        /\ ToDisk(m[e].success) >= ToDisk(FromDisk(disk[e].success))
    <3>1. ASSUME NEW t \in Time, NEW u \in Time, t >= u PROVE ToDisk(t) >= ToDisk(u)
      <4>1. ToDisk(u) <= ToDisk(t)
        BY <3>1, ToDiskOrder DEF Time, None
      <4> QED BY <4>1, ConversionType DEF Time, None
    <3> QED BY <2>2, <2>4, <2>5, <3>1
  <2>7. /\ disk'[e].request = ToDisk(m[e].request)
        /\ disk'[e].success = ToDisk(m[e].success)
    BY <1>2 DEF DiskFromView
  <2> QED BY <1>t, <2>6, <2>7, RoundTrip
<1> QED BY <1>1, <1>2, Published

(* Whichever process writes engines.json last, the pacing clock and the    *)
(* success clock it holds never go back.                                   *)
THEOREM ClocksOnlyAdvance == Spec => ClockNeverRewinds
<1> DEFINE Advance == \A e \in Engine : /\ disk'[e].request >= disk[e].request
                                        /\ disk'[e].success >= disk[e].success
<1>1. TypeOK /\ ClockInv /\ [Next]_vars => [Advance]_vars
  <2> SUFFICES ASSUME TypeOK, ClockInv, [Next]_vars, NEW e \in Engine
               PROVE  disk'[e].request >= disk[e].request /\ disk'[e].success >= disk[e].success
    OBVIOUS
  <2>1. CASE UNCHANGED disk
    <3>1. disk[e].request \in Time /\ disk[e].success \in Time
      BY DEF TypeOK, Entry
    <3> QED BY <2>1, <3>1 DEF Time, None
  <2>2. CASE \E p \in Proc, l \in Leg : LegStep(p, l)
    <3>1. PICK p \in Proc, l \in Leg : LegStep(p, l)
      BY <2>2
    <3>2. CASE \E m \in [Engine -> View] :
                 Publish(p, m) /\ \A f \in Engine : Mutates(Merged(p)[f], m[f])
      BY <3>2, SyncNeverRewinds
    <3> QED BY <2>1, <3>1, <3>2, StepSyncs
  <2> QED BY <2>1, <2>2 DEF Next, Restart, Tick, vars
<1> QED BY <1>1, ClocksHold, PTL DEF ClockNeverRewinds, Spec

-----------------------------------------------------------------------------
(* What a reader makes of a suspension is bounded by its clamp and is the  *)
(* suspension itself otherwise.                                            *)
LEMMA ReadAtBounds ==
  ASSUME TypeOK, NEW e \in Engine, NEW t \in Nat, NEW u \in Nat, t <= u
  PROVE  /\ ReadAt(e, t) \in Time /\ ReadAt(e, t) <= t + MaxSuspension
         /\ ReadAt(e, t) <= ReadAt(e, u)
         /\ ToDisk(ReadAt(e, t)) = EarlierOf(disk[e].until, ToDisk(t + MaxSuspension))
         /\ MaxSuspension >= Res /\ FromDisk(disk[e].until) > t => ReadAt(e, t) > t
<1> DEFINE d == disk[e].until
           ct == t + MaxSuspension
           cu == u + MaxSuspension
<1>1. /\ d \in Time /\ ct \in Nat /\ cu \in Nat /\ ct <= cu
      /\ ct \in Time /\ cu \in Time
  BY GovernorAssumption DEF TypeOK, Entry, Time
<1>2. ReadAt(e, t) = FromDisk(EarlierOf(d, ToDisk(ct)))
      /\ ReadAt(e, u) = FromDisk(EarlierOf(d, ToDisk(cu)))
  BY DEF ReadAt
<1>3. MaxSuspension >= Res => ct >= t + Res
  BY GovernorAssumption
<1> HIDE DEF d, ct, cu
<1>4. ToDisk(ct) \in Time /\ ToDisk(cu) \in Time /\ ToDisk(ct) <= ToDisk(cu)
  BY <1>1, ConversionType, ToDiskOrder
<1>5. /\ EarlierOf(d, ToDisk(ct)) \in Time /\ EarlierOf(d, ToDisk(cu)) \in Time
      /\ EarlierOf(d, ToDisk(ct)) <= EarlierOf(d, ToDisk(cu))
      /\ EarlierOf(d, ToDisk(ct)) <= ToDisk(ct)
  BY <1>1, <1>4 DEF EarlierOf, Time, None
<1>6. ReadAt(e, t) \in Time /\ ReadAt(e, u) \in Time /\ ReadAt(e, t) <= ReadAt(e, u)
  BY <1>2, <1>5, ConversionType, FromDiskOrder
<1>7. ReadAt(e, t) <= ct
  <2>1. ReadAt(e, t) <= FromDisk(ToDisk(ct))
    BY <1>2, <1>4, <1>5, FromDiskOrder
  <2>2. FromDisk(ToDisk(ct)) <= ct /\ FromDisk(ToDisk(ct)) \in Time
    BY <1>1, <1>4, RoundTrip, ConversionType
  <2> QED BY <1>1, <1>6, <2>1, <2>2 DEF Time, None
<1>8. ToDisk(ReadAt(e, t)) = EarlierOf(d, ToDisk(ct))
  BY <1>2, <1>5, RoundTrip
<1>9. ASSUME MaxSuspension >= Res, FromDisk(d) > t PROVE ReadAt(e, t) > t
  <2>0. ct # None
    BY <1>1 DEF None
  <2>1. ct < FromDisk(ToDisk(ct)) + Res /\ FromDisk(ToDisk(ct)) \in Time
    BY <1>1, <1>4, <2>0, RoundTrip, ConversionType
  <2>2. FromDisk(ToDisk(ct)) > t
    BY <1>1, <1>3, <1>9, <2>1, GovernorAssumption DEF Time, None
  <2>3. EarlierOf(d, ToDisk(ct)) \in {d, ToDisk(ct)}
    BY DEF EarlierOf
  <2> QED BY <1>2, <1>9, <2>2, <2>3
<1> QED BY <1>6, <1>7, <1>8, <1>9 DEF d, ct

(* Syncing takes a running suspension out of the file only for a success   *)
(* that came after it, or down to the clamp.                               *)
LEMMA SyncKeepsSuspension ==
  ASSUME MaxSuspension >= Res, TypeOK, ClockInv,
         NEW p \in Proc, NEW m \in [Engine -> View], Publish(p, m),
         \A f \in Engine : Mutates(Merged(p)[f], m[f]),
         NEW e \in Engine, SuspendedOnDisk(e), disk'[e].until < disk[e].until
  PROVE  \/ disk'[e].success # None /\ disk'[e].success >= disk[e].at
         \/ disk'[e].until >= ToDisk(SuspensionCap)
<1> DEFINE w == Merged(p)[e]
<1>t. /\ disk[e].at \in Time /\ disk[e].until \in Time /\ now \in Nat
      /\ FromDisk(disk[e].at) \in Time
  BY ConversionType DEF TypeOK, Entry
<1>1. CacheRoot /\ disk'[e] = DiskFromView(m[e])
  <2>1. ~UNCHANGED <<disk, since>>
    BY <1>t DEF Time, None
  <2> QED BY <2>1, Published
<1>2. /\ disk'[e].success = ToDisk(m[e].success) /\ disk'[e].until = ToDisk(m[e].until)
  BY <1>1 DEF DiskFromView
<1>3. /\ m[e].success \in Time /\ m[e].until \in Time /\ m[e].success >= w.success
      /\ (m[e].until >= w.until \/ m[e].success = now)
  BY MutatedTimes
<1>4. w.success \in Time /\ w.until \in Time
  BY MergedProperties DEF View
<1>5. ReadAt(e, now) > now /\ ReadAt(e, now) \in Time
      /\ ToDisk(ReadAt(e, now)) = EarlierOf(disk[e].until, ToDisk(SuspensionCap))
  BY <1>t, ReadAtBounds DEF SuspendedOnDisk, SuspensionCap
<1>6. w.success > FromDisk(disk[e].at) \/ w.until >= ReadAt(e, now)
  BY <1>1, <1>5, MergedKeeps
<1>7. FromDisk(disk[e].at) <= now
  BY DEF ClockInv
<1>o. ASSUME NEW t \in Time, NEW u \in Time, u >= t PROVE ToDisk(u) >= ToDisk(t)
  <2>1. t <= u
    BY <1>o DEF Time, None
  <2> QED BY <2>1, ToDiskOrder, ConversionType DEF Time, None
<1> HIDE DEF w
<1>8. CASE m[e].success >= FromDisk(disk[e].at) /\ m[e].success # None
  <2>1. ToDisk(m[e].success) >= ToDisk(FromDisk(disk[e].at))
    BY <1>8, <1>t, <1>3, <1>o
  <2>2. ToDisk(m[e].success) # None
    BY <1>8, <1>3, DivType, GovernorAssumption DEF ToDisk, Time, None
  <2> QED BY <1>2, <1>t, <2>1, <2>2, RoundTrip
<1>9. CASE m[e].until >= ReadAt(e, now)
  <2>1. ToDisk(m[e].until) >= EarlierOf(disk[e].until, ToDisk(SuspensionCap))
    BY <1>9, <1>3, <1>5, <1>o
  <2>2. SuspensionCap \in Time
    BY <1>t, GovernorAssumption DEF SuspensionCap, Time
  <2>3. ToDisk(m[e].until) \in Time /\ ToDisk(SuspensionCap) \in Time
    BY <1>3, <2>2, ConversionType
  <2>4. ToDisk(m[e].until) < disk[e].until
    BY <1>2
  <2>5. ToDisk(m[e].until) >= ToDisk(SuspensionCap)
    BY <1>t, <2>1, <2>3, <2>4 DEF EarlierOf, Time, None
  <2> QED BY <1>2, <2>5
<1>10. \/ m[e].success >= FromDisk(disk[e].at) /\ m[e].success # None
       \/ m[e].until >= ReadAt(e, now)
  BY <1>t, <1>3, <1>4, <1>5, <1>6, <1>7 DEF Time, None
<1> QED BY <1>8, <1>9, <1>10

(* While some suspension is configured at all (they come in seconds, the   *)
(* file counts milliseconds), no process that syncs loses a suspension     *)
(* another one recorded.                                                   *)
THEOREM SuspensionsAreKept ==
  ASSUME MaxSuspension >= Res
  PROVE  Spec => SuspensionKept
<1> DEFINE Kept == \A e \in Engine :
             SuspendedOnDisk(e) /\ disk'[e].until < disk[e].until
               => \/ disk'[e].success # None /\ disk'[e].success >= disk[e].at
                  \/ disk'[e].until >= ToDisk(SuspensionCap)
<1>1. TypeOK /\ ClockInv /\ [Next]_vars => [Kept]_vars
  <2> SUFFICES ASSUME TypeOK, ClockInv, [Next]_vars, NEW e \in Engine,
                      SuspendedOnDisk(e), disk'[e].until < disk[e].until
               PROVE  \/ disk'[e].success # None /\ disk'[e].success >= disk[e].at
                      \/ disk'[e].until >= ToDisk(SuspensionCap)
    OBVIOUS
  <2>1. disk' # disk
    <3>1. disk[e].until \in Time
      BY DEF TypeOK, Entry
    <3> QED BY <3>1 DEF Time, None
  <2>2. PICK p \in Proc, l \in Leg : LegStep(p, l)
    BY <2>1 DEF Next, Restart, Tick, vars
  <2>3. CASE \E m \in [Engine -> View] :
               Publish(p, m) /\ \A f \in Engine : Mutates(Merged(p)[f], m[f])
    BY <2>3, SyncKeepsSuspension
  <2> QED BY <2>1, <2>2, <2>3, StepSyncs
<1> QED BY <1>1, ClocksHold, PTL DEF SuspensionKept, Spec

-----------------------------------------------------------------------------
(* How a step moves its leg: only Refresh reaches the suspension check,    *)
(* only ReadLast the pacing sleep, and no step in between syncs.           *)
LEMMA LegMoves ==
  ASSUME TypeOK, NEW p \in Proc, NEW l \in Leg, LegStep(p, l)
  PROVE  /\ \A q \in Proc, k \in Leg : ~(q = p /\ k = l) => leg'[q][k] = leg[q][k]
         /\ leg'[p][l].refreshed \in {leg[p][l].refreshed, now, None}
         /\ leg'[p][l].pc = "suspended" => Refresh(p, l) /\ leg'[p][l].refreshed = now
         /\ leg'[p][l].pc \in {"budget", "last", "sleep"} =>
              /\ leg'[p][l].refreshed = leg[p][l].refreshed
              /\ \/ leg[p][l].pc \in {"budget", "last"}
                 \/ leg[p][l].pc = "suspended" /\ ~Suspended(p, LegEngine[l])
              /\ UNCHANGED <<now, disk, since, views>>
         /\ leg'[p][l].pc = "sleep" => ReadLast(p, l)
<1> DEFINE Apart == \A q \in Proc, k \in Leg : ~(q = p /\ k = l) => leg'[q][k] = leg[q][k]
           Moved(pc, refreshed) == /\ Apart /\ leg'[p][l].pc = pc
                                   /\ leg'[p][l].refreshed = refreshed
<1>l. leg[p][l] \in LegState
  BY DEF TypeOK
<1>a. ASSUME NEW s, leg' = [leg EXCEPT ![p][l] = s] PROVE Apart /\ leg'[p][l] = s
  BY <1>a DEF TypeOK
<1>g. ASSUME NEW pc \in PC, Goto(p, l, pc) PROVE Moved(pc, leg[p][l].refreshed)
  <2>1. leg' = [leg EXCEPT ![p][l] = [leg[p][l] EXCEPT !.pc = pc]]
    BY <1>g DEF Goto
  <2>2. [leg[p][l] EXCEPT !.pc = pc].pc = pc
        /\ [leg[p][l] EXCEPT !.pc = pc].refreshed = leg[p][l].refreshed
    BY <1>l DEF LegState
  <2> QED BY <1>a, <2>1, <2>2
<1>f. Finish(p, l) => Moved("idle", None)
  <2>1. IdleLeg.pc = "idle" /\ IdleLeg.refreshed = None
    BY DEF IdleLeg
  <2> QED BY <1>a, <2>1 DEF Finish
<1>r. Refuse(p, l) => Moved("idle", None) \/ Moved("partial", leg[p][l].refreshed)
  BY <1>f, <1>g DEF Refuse, PC
<1>1. CASE Begin(p, l) \/ Load(p, l) \/ Precheck(p, l) \/ Acquire(p, l)
  <2>1. \/ Moved("idle", None)
        \/ \E pc \in {"precheck", "load", "acquire", "refresh"} :
             Moved(pc, leg[p][l].refreshed)
    BY <1>1, <1>f, <1>g DEF Begin, Load, Precheck, Acquire, PC
  <2> QED BY <2>1
<1>2. CASE Refresh(p, l)
  <2>1. Moved("suspended", now)
    <3>1. leg' = [leg EXCEPT ![p][l] = [leg[p][l] EXCEPT !.pc = "suspended", !.refreshed = now]]
      BY <1>2 DEF Refresh
    <3>2. /\ [leg[p][l] EXCEPT !.pc = "suspended", !.refreshed = now].pc = "suspended"
          /\ [leg[p][l] EXCEPT !.pc = "suspended", !.refreshed = now].refreshed = now
      BY <1>l DEF LegState
    <3> QED BY <1>a, <3>1, <3>2
  <2> QED BY <1>2, <2>1
<1>3. CASE CheckSuspended(p, l) \/ CheckBudget(p, l)
  <2>1. \/ Moved("idle", None) \/ Moved("partial", leg[p][l].refreshed)
        \/ CheckSuspended(p, l) /\ ~Suspended(p, LegEngine[l])
           /\ Moved("budget", leg[p][l].refreshed)
        \/ CheckBudget(p, l) /\ Moved("last", leg[p][l].refreshed)
    BY <1>3, <1>r, <1>g DEF CheckSuspended, CheckBudget, PC
  <2> QED BY <2>1 DEF CheckSuspended, CheckBudget
<1>4. CASE ReadLast(p, l)
  <2>1. PICK wake : leg' = [leg EXCEPT ![p][l].pc = "sleep", ![p][l].wake = wake]
    BY <1>4 DEF ReadLast
  <2>2. leg' = [leg EXCEPT ![p][l] = [leg[p][l] EXCEPT !.pc = "sleep", !.wake = wake]]
    BY <2>1
  <2>3. /\ [leg[p][l] EXCEPT !.pc = "sleep", !.wake = wake].pc = "sleep"
        /\ [leg[p][l] EXCEPT !.pc = "sleep", !.wake = wake].refreshed = leg[p][l].refreshed
    BY <1>l DEF LegState
  <2>4. Moved("sleep", leg[p][l].refreshed)
    BY <1>a, <2>2, <2>3
  <2> QED BY <1>4, <2>4 DEF ReadLast
<1>5. CASE Reserve(p, l) \/ NextPage(p, l) \/ Retry(p, l)
  <2>1. CASE Reserve(p, l)
    <3> DEFINE s == [leg[p][l] EXCEPT !.pc = "wire", !.wake = 0]
    <3>1. leg' = [leg EXCEPT ![p][l] = s]
      BY <2>1 DEF Reserve
    <3>2. s.pc = "wire" /\ s.refreshed = leg[p][l].refreshed
      BY <1>l DEF LegState
    <3> HIDE DEF s
    <3>3. Moved("wire", leg[p][l].refreshed)
      BY <1>a, <3>1, <3>2
    <3> QED BY <3>3
  <2>2. CASE NextPage(p, l)
    <3> DEFINE s == [leg[p][l] EXCEPT !.pc = "refresh", !.gate = "page"]
    <3>1. leg' = [leg EXCEPT ![p][l] = s]
      BY <2>2 DEF NextPage
    <3>2. s.pc = "refresh" /\ s.refreshed = leg[p][l].refreshed
      BY <1>l DEF LegState
    <3> HIDE DEF s
    <3>3. Moved("refresh", leg[p][l].refreshed)
      BY <1>a, <3>1, <3>2
    <3> QED BY <3>3
  <2>3. CASE Retry(p, l)
    <3> DEFINE s == [leg[p][l] EXCEPT !.pc = "refresh", !.gate = "retry", !.wake = 0]
    <3>1. leg' = [leg EXCEPT ![p][l] = s]
      BY <2>3 DEF Retry
    <3>2. s.pc = "refresh" /\ s.refreshed = leg[p][l].refreshed
      BY <1>l DEF LegState
    <3> HIDE DEF s
    <3>3. Moved("refresh", leg[p][l].refreshed)
      BY <1>a, <3>1, <3>2
    <3> QED BY <3>3
  <2> QED BY <1>5, <2>1, <2>2, <2>3
<1>6. CASE TransportFail(p, l)
  <2>1. CASE Finish(p, l)
    BY <1>f, <2>1
  <2>2. CASE leg' = [leg EXCEPT ![p][l].pc = "backoff", ![p][l].retried = TRUE,
                                ![p][l].wake = now + Backoff]
    <3> DEFINE s == [leg[p][l] EXCEPT !.pc = "backoff", !.retried = TRUE,
                                      !.wake = now + Backoff]
    <3>1. leg' = [leg EXCEPT ![p][l] = s]
      BY <2>2
    <3>2. s.pc = "backoff" /\ s.refreshed = leg[p][l].refreshed
      BY <1>l DEF LegState
    <3> HIDE DEF s
    <3>3. Moved("backoff", leg[p][l].refreshed)
      BY <1>a, <3>1, <3>2
    <3> QED BY <3>3
  <2> QED BY <1>6, <2>1, <2>2 DEF TransportFail
<1>7. CASE Succeed(p, l) \/ Fail(p, l) \/ Abort(p, l)
  BY <1>7, <1>f DEF Succeed, Fail, Abort
<1> QED
  BY <1>1, <1>2, <1>3, <1>4, <1>5, <1>6, <1>7 DEF LegStep

-----------------------------------------------------------------------------
(* The suspension that leg l of p met in engines.json still runs as it     *)
(* read it, and is still there.                                            *)
StillThere(p, l) ==
  LET e == LegEngine[l]  read == leg[p][l].refreshed IN
  ReadAt(e, read) > now /\ since[e] < read

(* The process knows of a success that came after it. *)
Outlived(p, l) ==
  views[p][LegEngine[l]].success > FromDisk(disk[LegEngine[l]].at)

(* Until the check a leg's view may hold that suspension instead: the      *)
(* check then stops the leg.                                               *)
Held(p, l) ==
  /\ leg[p][l].pc = "suspended"
  /\ views[p][LegEngine[l]].until >= ReadAt(LegEngine[l], leg[p][l].refreshed)

HonourInv ==
  \A p \in Proc, l \in Leg :
    /\ leg[p][l].refreshed <= now
    /\ leg[p][l].pc \in {"suspended", "budget", "last", "sleep"} /\ StillThere(p, l)
         => Outlived(p, l) \/ Held(p, l)

(* A running suspension that a view holds survives a sync of its process,  *)
(* or a success takes its place.                                           *)
LEMMA SyncHolds ==
  ASSUME TypeOK, ClockInv, NEW p \in Proc, NEW m \in [Engine -> View], NEW e \in Engine,
         Mutates(Merged(p)[e], m[e]), NEW read \in Nat, read <= now,
         ReadAt(e, read) > now, since[e] < read,
         \/ views[p][e].success > FromDisk(disk[e].at)
         \/ views[p][e].until >= ReadAt(e, read)
         \/ read = now /\ CacheRoot
  PROVE  m[e].success > FromDisk(disk[e].at) \/ m[e].until >= ReadAt(e, read)
<1> DEFINE v == views[p][e]
           w == Merged(p)[e]
           at == FromDisk(disk[e].at)
<1>1. /\ now \in Nat /\ at \in Time /\ at < now
      /\ v.success \in Time /\ v.until \in Time
      /\ w.success \in Time /\ w.until \in Time
  <2>1. at \in Time
    BY ConversionType DEF TypeOK, Entry
  <2>2. at <= since[e] /\ since[e] \in Nat /\ now \in Nat
    BY DEF ClockInv, TypeOK
  <2>3. v \in View /\ w \in View
    BY MergedProperties DEF TypeOK
  <2> QED BY <2>1, <2>2, <2>3 DEF View, Time, None
<1>2. /\ ReadAt(e, read) \in Time /\ ReadAt(e, now) \in Time
      /\ ReadAt(e, read) <= ReadAt(e, now)
      /\ ReadAt(e, read) <= read + MaxSuspension
  BY <1>1, ReadAtBounds
<1>3. SuspensionCap \in Nat /\ ReadAt(e, read) <= SuspensionCap
  BY <1>1, <1>2, GovernorAssumption DEF SuspensionCap, Time, None
<1>4. /\ w.success >= v.success
      /\ v.until > now => \/ CacheRoot /\ w.success > v.at
                          \/ w.until >= EarlierOf(v.until, SuspensionCap)
      /\ CacheRoot /\ ReadAt(e, now) > now => w.success > at \/ w.until >= ReadAt(e, now)
  BY MergedKeeps
<1>5. ReadAt(e, now) > now
  BY <1>1, <1>2 DEF Time, None
<1>6. m[e].success \in Time /\ m[e].until \in Time /\ m[e].success >= w.success
      /\ (m[e].until >= w.until \/ m[e].success = now)
  BY MutatedTimes
<1> HIDE DEF v, w, at
<1>7. w.success > at \/ w.until >= ReadAt(e, read)
  <2>1. CASE v.success > at
    BY <1>1, <1>4, <2>1 DEF Time, None
  <2>2. CASE CacheRoot
    BY <1>1, <1>2, <1>4, <1>5, <2>2 DEF Time, None
  <2>3. CASE ~CacheRoot /\ v.until >= ReadAt(e, read)
    <3>1. v.until > now
      BY <1>1, <1>2, <2>3 DEF Time, None
    <3>2. w.until >= EarlierOf(v.until, SuspensionCap)
      BY <1>4, <2>3, <3>1
    <3>3. EarlierOf(v.until, SuspensionCap) >= ReadAt(e, read)
      BY <1>3, <2>3, <1>2 DEF EarlierOf, Time, None
    <3>4. EarlierOf(v.until, SuspensionCap) \in Time
      BY <1>1, <1>3 DEF EarlierOf, Time
    <3> QED BY <1>1, <1>2, <3>2, <3>3, <3>4 DEF Time, None
  <2> QED BY <2>1, <2>2, <2>3 DEF v, at
<1>8. m[e].success > at \/ m[e].until >= ReadAt(e, read)
  BY <1>1, <1>2, <1>6, <1>7 DEF Time, None
<1> QED BY <1>8 DEF at

(* A write that leaves a suspension in its place leaves its times alone.   *)
LEMMA SameInFile ==
  ASSUME TypeOK, now' = now, NEW p \in Proc, NEW m \in [Engine -> View], Publish(p, m),
         NEW e \in Engine, NEW read \in Nat, read <= now, since'[e] < read
  PROVE  /\ since'[e] = since[e] /\ disk'[e].at = disk[e].at
         /\ ReadAt(e, read)' = ReadAt(e, read)
<1>1. since'[e] # now
  BY DEF TypeOK
<1>2. since'[e] = since[e] /\ (disk' = disk \/ SameSuspension(disk'[e], disk[e]))
  BY <1>1, Published
<1> QED BY <1>2 DEF SameSuspension, ReadAt

(* Without a cache root there is nothing to read. *)
LEMMA NothingToRead ==
  ASSUME TypeOK, ClockInv, NEW e \in Engine, NEW t \in Nat, ReadAt(e, t) > now
  PROVE  CacheRoot
<1> SUFFICES ASSUME ~CacheRoot PROVE FALSE
  OBVIOUS
<1>1. disk[e].until = None
  BY DEF ClockInv
<1>2. t + MaxSuspension \in Time
  BY GovernorAssumption DEF Time
<1>3. None <= ToDisk(t + MaxSuspension)
  BY <1>2, ConversionType DEF Time, None
<1>4. ReadAt(e, t) = None
  BY <1>1, <1>3 DEF ReadAt, EarlierOf, FromDisk
<1> QED BY <1>4 DEF TypeOK, None

(* A leg that a sync of p finds where it was, or moves to the check, is    *)
(* still held by the suspension or knows of the success.                   *)
LEMMA SyncHonours ==
  ASSUME TypeOK, TypeOK', ClockInv, HonourInv, now' = now, NEW p \in Proc,
         NEW m \in [Engine -> View], Publish(p, m), \A f \in Engine : Mutates(Merged(p)[f], m[f]),
         NEW q \in Proc, NEW k \in Leg,
         leg'[q][k].pc \in {"suspended", "budget", "last", "sleep"}, StillThere(q, k)',
         leg'[q][k].refreshed <= now,
         \/ leg'[q][k] = leg[q][k]
         \/ q = p /\ leg'[q][k].pc = "suspended" /\ leg'[q][k].refreshed = now
  PROVE  Outlived(q, k)' \/ Held(q, k)'
<1>1. PICK e \in Engine : e = LegEngine[k]
  BY GovernorAssumption
<1>2. PICK read : read = leg'[q][k].refreshed
  OBVIOUS
<1>3. read \in Nat /\ read <= now /\ since'[e] < read
  <2>1. read \in Time /\ since'[e] \in Nat
    BY <1>2 DEF TypeOK, LegState
  <2>2. since'[e] < read
    BY <1>1, <1>2 DEF StillThere
  <2> QED BY <1>2, <2>1, <2>2 DEF Time, None
<1>4. /\ since[e] < read /\ ReadAt(e, read) > now /\ disk'[e].at = disk[e].at
      /\ ReadAt(e, read)' = ReadAt(e, read)
  <2>1. /\ since'[e] = since[e] /\ disk'[e].at = disk[e].at
        /\ ReadAt(e, read)' = ReadAt(e, read)
    BY <1>3, SameInFile
  <2>2. ReadAt(e, read)' > now'
    BY <1>1, <1>2 DEF StillThere, ReadAt
  <2> QED BY <1>3, <2>1, <2>2
<1>5. views'[q][e] = IF q = p THEN m[e] ELSE views[q][e]
  BY Published
<1>6. /\ Outlived(q, k)' <=> views'[q][e].success > FromDisk(disk[e].at)
      /\ Held(q, k)' <=> /\ leg'[q][k].pc = "suspended"
                         /\ views'[q][e].until >= ReadAt(e, read)
  BY <1>1, <1>2, <1>4 DEF Outlived, Held, ReadAt
<1>7. CASE leg'[q][k] = leg[q][k]
  <2>1. StillThere(q, k)
    BY <1>1, <1>2, <1>4, <1>7 DEF StillThere
  <2>2. \/ views[q][e].success > FromDisk(disk[e].at)
        \/ leg[q][k].pc = "suspended" /\ views[q][e].until >= ReadAt(e, read)
    BY <1>1, <1>2, <1>7, <2>1 DEF HonourInv, Outlived, Held
  <2>3. CASE q # p
    BY <1>5, <1>6, <1>7, <2>2, <2>3
  <2>4. CASE q = p /\ views[q][e].success > FromDisk(disk[e].at)
    <3>1. /\ m[e].success >= Merged(p)[e].success
          /\ Merged(p)[e].success >= views[p][e].success
      BY MutatedTimes, MergedKeeps
    <3>2. /\ m[e].success \in Time /\ Merged(p)[e].success \in Time
          /\ views[p][e].success \in Time /\ FromDisk(disk[e].at) \in Time
      BY MergedProperties, ConversionType DEF View, Entry, TypeOK
    <3>3. m[e].success > FromDisk(disk[e].at)
      BY <2>4, <3>1, <3>2 DEF Time, None
    <3> QED BY <1>5, <1>6, <2>4, <3>3
  <2>5. CASE q = p /\ leg[q][k].pc = "suspended" /\ views[q][e].until >= ReadAt(e, read)
    <3>1. m[e].success > FromDisk(disk[e].at) \/ m[e].until >= ReadAt(e, read)
      BY <1>3, <1>4, <2>5, SyncHolds
    <3> QED BY <1>5, <1>6, <1>7, <2>5, <3>1
  <2> QED BY <2>2, <2>3, <2>4, <2>5
<1>8. CASE q = p /\ leg'[q][k].pc = "suspended" /\ read = now
  <2>1. CacheRoot
    BY <1>3, <1>4, NothingToRead
  <2>2. m[e].success > FromDisk(disk[e].at) \/ m[e].until >= ReadAt(e, read)
    BY <1>3, <1>4, <1>8, <2>1, SyncHolds
  <2> QED BY <1>5, <1>6, <1>8, <2>2
<1> QED BY <1>2, <1>7, <1>8

LEMMA LegStepHonours ==
  ASSUME TypeOK, TypeOK', ClockInv, HonourInv, NEW p \in Proc, NEW l \in Leg, LegStep(p, l)
  PROVE  HonourInv'
<1>n. now' = now /\ now \in Nat
  BY StepSyncs DEF TypeOK
<1>1. ASSUME NEW q \in Proc, NEW k \in Leg PROVE leg'[q][k].refreshed <= now
  <2>1. leg'[q][k].refreshed \in {leg[q][k].refreshed, now, None}
    BY LegMoves
  <2>2. None <= now
    BY <1>n DEF None
  <2> QED BY <1>n, <2>1, <2>2 DEF HonourInv
<1>2. ASSUME NEW q \in Proc, NEW k \in Leg,
             leg'[q][k].pc \in {"suspended", "budget", "last", "sleep"}, StillThere(q, k)'
      PROVE  Outlived(q, k)' \/ Held(q, k)'
  <2>1. CASE q = p /\ k = l /\ leg'[q][k].pc # "suspended"
    <3>1. /\ leg'[q][k].refreshed = leg[q][k].refreshed
          /\ UNCHANGED <<now, disk, since, views>>
          /\ \/ leg[q][k].pc \in {"budget", "last"}
             \/ leg[q][k].pc = "suspended" /\ ~Suspended(q, LegEngine[k])
      BY <1>2, <2>1, LegMoves
    <3>2. StillThere(q, k)
      BY <1>2, <3>1 DEF StillThere, ReadAt
    <3>3. Outlived(q, k) \/ Held(q, k)
      BY <3>1, <3>2 DEF HonourInv
    <3>4. ~Held(q, k)
      <4> SUFFICES ASSUME Held(q, k) PROVE FALSE
        OBVIOUS
      <4> DEFINE e == LegEngine[k]
                 read == leg[q][k].refreshed
      <4>1. views[q][e].until >= ReadAt(e, read) /\ ReadAt(e, read) > now
            /\ ~(views[q][e].until > now)
        BY <3>1, <3>2 DEF Held, StillThere, Suspended
      <4>2. e \in Engine /\ views[q][e].until \in Time /\ since[e] < read
            /\ read \in Time /\ since[e] \in Nat
        <5>1. e \in Engine
          BY GovernorAssumption
        <5>2. views[q][e] \in View /\ leg[q][k] \in LegState /\ since[e] \in Nat
          BY <5>1 DEF TypeOK
        <5> QED BY <3>2, <5>1, <5>2 DEF View, LegState, StillThere
      <4>3. ReadAt(e, read) \in Time
        <5>1. read \in Nat
          BY <4>2 DEF Time, None
        <5> QED BY <4>2, <5>1, ReadAtBounds
      <4> HIDE DEF e, read
      <4> QED BY <1>n, <4>1, <4>2, <4>3 DEF Time, None
    <3> QED BY <3>1, <3>3, <3>4 DEF Outlived
  <2>2. CASE q = p /\ k = l /\ leg'[q][k].pc = "suspended"
    <3>1. Publish(p, Merged(p)) /\ leg'[q][k].refreshed = now
      BY <2>2, LegMoves DEF Refresh
    <3>2. Merged(p) \in [Engine -> View] /\ \A f \in Engine : Mutates(Merged(p)[f], Merged(p)[f])
      BY MergedProperties DEF Mutates
    <3> QED BY <1>1, <1>2, <1>n, <2>2, <3>1, <3>2, SyncHonours
  <2>3. CASE ~(q = p /\ k = l)
    <3>1. leg'[q][k] = leg[q][k]
      BY <2>3, LegMoves
    <3>2. CASE UNCHANGED <<disk, since, views>>
      BY <1>2, <1>n, <3>1, <3>2 DEF HonourInv, StillThere, Outlived, Held, ReadAt
    <3>3. CASE \E m \in [Engine -> View] :
                 Publish(p, m) /\ \A f \in Engine : Mutates(Merged(p)[f], m[f])
      BY <1>1, <1>2, <1>n, <3>1, <3>3, SyncHonours
    <3> QED BY <3>2, <3>3, StepSyncs
  <2> QED BY <2>1, <2>2, <2>3
<1> QED BY <1>n, <1>1, <1>2 DEF HonourInv

LEMMA NextHonours == TypeOK /\ ClockInv /\ HonourInv /\ [Next]_vars => HonourInv'
<1> SUFFICES ASSUME TypeOK, ClockInv, HonourInv, [Next]_vars PROVE HonourInv'
  OBVIOUS
<1>t. TypeOK'
  BY NextType
<1>1. CASE \E p \in Proc, l \in Leg : LegStep(p, l)
  BY <1>1, <1>t, LegStepHonours
<1>2. CASE \E p \in Proc : Restart(p)
  <2>1. PICK p \in Proc : Restart(p)
    BY <1>2
  <2>2. /\ UNCHANGED <<now, disk, since>> /\ now \in Nat
        /\ \A q \in Proc, k \in Leg :
             \/ leg'[q][k] = IdleLeg
             \/ leg'[q][k] = leg[q][k] /\ views'[q] = views[q]
    BY <2>1 DEF Restart, TypeOK
  <2>3. ASSUME NEW q \in Proc, NEW k \in Leg
        PROVE  /\ leg'[q][k].refreshed <= now'
               /\ leg'[q][k].pc \in {"suspended", "budget", "last", "sleep"} /\ StillThere(q, k)'
                    => Outlived(q, k)' \/ Held(q, k)'
    <3>1. CASE leg'[q][k] = IdleLeg
      BY <2>2, <3>1 DEF IdleLeg, None
    <3>2. CASE leg'[q][k] = leg[q][k] /\ views'[q] = views[q]
      BY <2>2, <3>2 DEF HonourInv, StillThere, Outlived, Held, ReadAt
    <3> QED BY <2>2, <3>1, <3>2
  <2> QED BY <2>3 DEF HonourInv
<1>3. CASE Tick
  <2>1. now' = now + 1 /\ now \in Nat /\ UNCHANGED <<disk, since, views, leg>>
    BY <1>3 DEF Tick, TypeOK
  <2>2. ASSUME NEW q \in Proc, NEW k \in Leg
        PROVE  leg[q][k].refreshed <= now' /\ (StillThere(q, k)' => StillThere(q, k))
    <3>1. leg[q][k].refreshed \in Time /\ leg[q][k].refreshed <= now
      BY DEF TypeOK, LegState, HonourInv
    <3>2. leg[q][k].refreshed <= now'
      BY <2>1, <3>1 DEF Time, None
    <3>3. ASSUME StillThere(q, k)' PROVE StillThere(q, k)
      <4> DEFINE e == LegEngine[k]
                 read == leg[q][k].refreshed
      <4>1. ReadAt(e, read) > now + 1 /\ since[e] < read
        BY <2>1, <3>3 DEF StillThere, ReadAt
      <4>2. ReadAt(e, read) \in Time
        <5>1. e \in Engine /\ since[e] \in Nat
          BY GovernorAssumption DEF TypeOK
        <5>2. read \in Nat
          BY <3>1, <4>1, <5>1 DEF Time, None
        <5> QED BY <5>1, <5>2, ReadAtBounds
      <4> HIDE DEF e, read
      <4>3. ReadAt(e, read) > now
        BY <2>1, <4>1, <4>2 DEF Time, None
      <4> QED BY <4>1, <4>3 DEF StillThere, e, read
    <3> QED BY <3>2, <3>3
  <2> QED BY <2>1, <2>2 DEF HonourInv, Outlived, Held, ReadAt
<1>4. CASE UNCHANGED vars
  BY <1>4 DEF vars, HonourInv, StillThere, Outlived, Held, ReadAt
<1> QED BY <1>1, <1>2, <1>3, <1>4 DEF Next

(* A request goes out while engines.json still holds a suspension that was *)
(* there before the leg read the file only if the process knows of a       *)
(* success that came after it, whatever the other legs and processes write *)
(* in between and whichever writes are lost.                               *)
THEOREM DispatchesHonourSuspensions == Spec => DispatchHonoursSuspension
<1> DEFINE Honours == \A p \in Proc, l \in Leg :
             LET e == LegEngine[l]  read == leg[p][l].refreshed IN
             leg[p][l].pc = "sleep" /\ leg'[p][l].pc = "wire" /\ ReadAt(e, read) > now
             => since[e] >= read \/ views[p][e].success > FromDisk(disk[e].at)
<1>1. Init => HonourInv
  BY DEF Init, HonourInv, IdleLeg, None
<1>2. TypeOK /\ HonourInv => Honours
  <2> SUFFICES ASSUME TypeOK, HonourInv, NEW p \in Proc, NEW l \in Leg,
                      leg[p][l].pc = "sleep",
                      ReadAt(LegEngine[l], leg[p][l].refreshed) > now,
                      ~(since[LegEngine[l]] >= leg[p][l].refreshed)
               PROVE  views[p][LegEngine[l]].success > FromDisk(disk[LegEngine[l]].at)
    OBVIOUS
  <2>1. since[LegEngine[l]] \in Nat /\ leg[p][l].refreshed \in Time
    BY GovernorAssumption DEF TypeOK, LegState
  <2>2. since[LegEngine[l]] < leg[p][l].refreshed
    BY <2>1 DEF Time, None
  <2>3. StillThere(p, l)
    BY <2>2 DEF StillThere
  <2> QED BY <2>3 DEF HonourInv, Held, Outlived
<1>3. Spec => []HonourInv
  BY <1>1, NextHonours, ClocksHold, PTL DEF Spec
<1>4. Honours => [Honours]_vars
  OBVIOUS
<1> QED BY <1>2, <1>3, <1>4, ClocksHold, PTL DEF DispatchHonoursSuspension

-----------------------------------------------------------------------------
(* The legs that sleep towards a start less than a gap after t: those that *)
(* read the last start before there was one at t.                          *)
Late(p, e, t) ==
  {l \in Leg : /\ LegEngine[l] = e /\ leg[p][l].pc = "sleep"
               /\ leg[p][l].wake < t + MinGap}

(* Of the starts a gap around start i, each was made, or is about to be    *)
(* made, on a permit of its own.                                           *)
StartsInv ==
  \A p \in Proc, e \in Engine :
    /\ Len(starts[p][e]) <= Concurrency[e]
    /\ \A i \in 1..Len(starts[p][e]) : starts[p][e][i] <= views[p][e].request
    /\ \A i, j \in 1..Len(starts[p][e]) :
         i <= j /\ starts[p][e][j] < starts[p][e][i] + MinGap =>
           Cardinality(Late(p, e, starts[p][e][i])) + (j - i + 1) <= Concurrency[e]

LEMMA LateFinite ==
  ASSUME TypeOK, NEW p \in Proc, NEW e \in Engine, NEW t \in Nat
  PROVE  /\ IsFiniteSet(Late(p, e, t)) /\ Cardinality(Late(p, e, t)) \in Nat
         /\ Late(p, e, t) \subseteq Holders(p, e)
<1>1. IsFiniteSet(Late(p, e, t))
  BY FS_Subset, GovernorAssumption DEF Late
<1>2. Late(p, e, t) \subseteq Holders(p, e)
  BY DEF Late, Holders, PermitPC, PC
<1> QED BY <1>1, <1>2, FS_CardinalityType

(* The pacing clock of a view only advances while its process lives. *)
LEMMA RequestAdvances ==
  ASSUME TypeOK, ClockInv, NEW p \in Proc, NEW l \in Leg, LegStep(p, l),
         NEW q \in Proc, NEW e \in Engine
  PROVE  views'[q][e].request >= views[q][e].request
<1>t. \A v \in View : v.request \in Time
  BY DEF View
<1>v. views[q][e] \in View /\ Merged(p)[e] \in View
  BY MergedProperties DEF TypeOK
<1>1. CASE UNCHANGED views
  BY <1>1, <1>t, <1>v DEF Time, None
<1>2. CASE \E m \in [Engine -> View] :
             Publish(p, m) /\ \A f \in Engine : Mutates(Merged(p)[f], m[f])
  <2>1. PICK m \in [Engine -> View] :
          Publish(p, m) /\ \A f \in Engine : Mutates(Merged(p)[f], m[f])
    BY <1>2
  <2>2. views'[q][e] = IF q = p THEN m[e] ELSE views[q][e]
    BY <2>1, Published
  <2>3. CASE q = p
    <3>1. /\ m[e].request >= Merged(p)[e].request /\ m[e].request \in Time
          /\ Merged(p)[e].request >= views[p][e].request
      BY <2>1, MutatedTimes, MergedKeeps
    <3>2. Merged(p)[e].request \in Time /\ views[p][e].request \in Time
      BY <1>t, <1>v, <2>3
    <3>3. m[e].request >= views[p][e].request
      BY <3>1, <3>2 DEF Time, None
    <3> QED BY <2>2, <2>3, <3>3
  <2>4. CASE q # p
    BY <1>t, <1>v, <2>2, <2>4 DEF Time, None
  <2> QED BY <2>3, <2>4
<1> QED BY <1>1, <1>2, StepSyncs

(* A step that records no start and sends no leg to sleep too early.       *)
LEMMA QuietWindow ==
  ASSUME TypeOK, TypeOK', StartsInv, NEW p \in Proc, NEW e \in Engine,
         starts'[p][e] = starts[p][e], views'[p][e].request >= views[p][e].request,
         \A i \in 1..Len(starts[p][e]) :
           Late(p, e, starts[p][e][i])' \subseteq Late(p, e, starts[p][e][i])
  PROVE  /\ Len(starts'[p][e]) <= Concurrency[e]
         /\ \A i \in 1..Len(starts'[p][e]) : starts'[p][e][i] <= views'[p][e].request
         /\ \A i, j \in 1..Len(starts'[p][e]) :
              i <= j /\ starts'[p][e][j] < starts'[p][e][i] + MinGap =>
                Cardinality(Late(p, e, starts[p][e][i])') + (j - i + 1) <= Concurrency[e]
<1> DEFINE s == starts[p][e]
<1>1. s \in Seq(Nat) /\ Len(s) \in Nat /\ \A i \in 1..Len(s) : s[i] \in Nat
  BY DEF TypeOK
<1>2. views[p][e].request \in Time /\ views'[p][e].request \in Time
  BY DEF TypeOK, View
<1>3. ASSUME NEW i \in 1..Len(s) PROVE s[i] <= views'[p][e].request
  <2>1. s[i] <= views[p][e].request
    BY DEF StartsInv
  <2> HIDE DEF s
  <2> QED BY <1>1, <1>2, <2>1 DEF Time, None
<1>4. ASSUME NEW i \in 1..Len(s), NEW j \in 1..Len(s), i <= j, s[j] < s[i] + MinGap
      PROVE  Cardinality(Late(p, e, s[i])') + (j - i + 1) <= Concurrency[e]
  <2>1. /\ IsFiniteSet(Late(p, e, s[i])) /\ Cardinality(Late(p, e, s[i])) \in Nat
    BY <1>1, LateFinite
  <2>2. Late(p, e, s[i])' \subseteq Late(p, e, s[i])
    OBVIOUS
  <2>3. /\ Cardinality(Late(p, e, s[i])') <= Cardinality(Late(p, e, s[i]))
        /\ Cardinality(Late(p, e, s[i])') \in Nat
    BY <2>1, <2>2, FS_Subset, FS_CardinalityType
  <2>4. Cardinality(Late(p, e, s[i])) + (j - i + 1) <= Concurrency[e]
    BY <1>4 DEF StartsInv
  <2>5. Concurrency[e] \in Nat
    BY GovernorAssumption
  <2> HIDE DEF s
  <2> QED BY <1>1, <2>1, <2>3, <2>4, <2>5
<1> QED BY <1>3, <1>4 DEF StartsInv

(* A start is made on the permit its leg held when it read the last one.   *)
LEMMA ReserveWindow ==
  ASSUME TypeOK, TypeOK', ClockInv, BudgetInv, StartsInv,
         NEW p \in Proc, NEW l \in Leg, Reserve(p, l),
         NEW e \in Engine, e = LegEngine[l]
  PROVE  /\ Len(starts'[p][e]) <= Concurrency[e]
         /\ \A i \in 1..Len(starts'[p][e]) : starts'[p][e][i] <= views'[p][e].request
         /\ \A i, j \in 1..Len(starts'[p][e]) :
              i <= j /\ starts'[p][e][j] < starts'[p][e][i] + MinGap =>
                Cardinality(Late(p, e, starts[p][e][i])') + (j - i + 1) <= Concurrency[e]
<1> DEFINE s == starts[p][e]
           t == IF Len(s) >= Concurrency[e] THEN Tail(s) ELSE s
           k == IF Len(s) >= Concurrency[e] THEN 1 ELSE 0
           n == Len(t)
           r == Append(t, now)
<1>c. Concurrency[e] \in Nat \ {0} /\ MinGap \in Nat /\ now \in Nat
  BY GovernorAssumption DEF TypeOK
<1>s. s \in Seq(Nat) /\ Len(s) \in Nat /\ \A i \in 1..Len(s) : s[i] \in Nat
  BY DEF TypeOK
<1>o. Len(s) <= Concurrency[e]
  BY DEF StartsInv
<1>1. /\ t \in Seq(Nat) /\ n \in Nat /\ n = Len(s) - k /\ n + 1 <= Concurrency[e]
      /\ \A i \in 1..n : t[i] = s[i + k] /\ i + k \in 1..Len(s)
      /\ k \in {0, 1}
  <2> HIDE DEF s
  <2> QED BY <1>c, <1>s, <1>o
<1>2. /\ Len(r) = n + 1 /\ r[n + 1] = now
      /\ \A i \in 1..n : r[i] = s[i + k] /\ i + k \in 1..Len(s)
  <2> HIDE DEF s, t, k
  <2> QED BY <1>1
<1>3. starts'[p][e] = r
  BY DEF Reserve, Remember, TypeOK
<1>4. views'[p][e].request = now
  <2> DEFINE m == [Merged(p) EXCEPT ![e].request = now, ![e].count = @ + 1]
  <2>1. Publish(p, m)
    BY DEF Reserve
  <2>2. m \in [Engine -> View] /\ m[e].request = now
    <3>1. Merged(p) \in [Engine -> View] /\ now \in Time
      BY <1>c, MergedProperties DEF Time
    <3>2. m \in [Engine -> View]
      BY <3>1 DEF View
    <3>3. m[e].request = now
      BY <3>1 DEF View
    <3> QED BY <3>2, <3>3
  <2> HIDE DEF m
  <2> QED BY <2>1, <2>2, Published
<1>5. \A i \in 1..Len(s) : s[i] <= now
  <2>1. views[p][e].request \in Time /\ views[p][e].request <= now
    BY DEF TypeOK, View, ClockInv
  <2>2. \A i \in 1..Len(s) : s[i] <= views[p][e].request
    BY DEF StartsInv
  <2> HIDE DEF s
  <2> QED BY <1>c, <1>s, <2>1, <2>2 DEF Time, None
<1>6. /\ leg[p][l].pc = "sleep" /\ leg[p][l].wake <= now /\ leg[p][l].wake \in Nat
      /\ l \in Holders(p, e)
  <2>1. leg[p][l].pc = "sleep" /\ now >= leg[p][l].wake
    BY DEF Reserve
  <2>2. leg[p][l].wake \in Nat
    BY DEF TypeOK, LegState
  <2>3. leg[p][l].wake <= now
    BY <1>c, <2>1, <2>2
  <2> QED BY <2>1, <2>2, <2>3 DEF Holders, PermitPC, PC
<1>7. /\ \A q \in Leg : q # l => leg'[p][q] = leg[p][q]
      /\ leg'[p][l].pc = "wire"
  <2>1. leg' = [leg EXCEPT ![p][l] = [leg[p][l] EXCEPT !.pc = "wire", !.wake = 0]]
    BY DEF Reserve
  <2>2. [leg[p][l] EXCEPT !.pc = "wire", !.wake = 0].pc = "wire"
    BY DEF TypeOK, LegState
  <2> QED BY <2>1, <2>2 DEF TypeOK
<1> DEFINE After(time) == {q \in Leg : /\ LegEngine[q] = e /\ leg'[p][q].pc = "sleep"
                                       /\ leg'[p][q].wake < time + MinGap}
<1>8. \A time \in Nat : After(time) = Late(p, e, time) \ {l}
  BY <1>7 DEF Late
<1>w. \A i, j \in 1..Len(s) :
        i <= j /\ s[j] < s[i] + MinGap =>
          Cardinality(Late(p, e, s[i])) + (j - i + 1) <= Concurrency[e]
  BY DEF StartsInv
<1>14. \A i \in 1..Len(r) : Late(p, e, starts[p][e][i])' = After(r[i])
  BY <1>3 DEF Late
<1> HIDE DEF s, t, k, n, r, After
<1>9. ASSUME NEW i \in 1..n, NEW j \in 1..n, i <= j, r[j] < r[i] + MinGap
      PROVE  Cardinality(After(r[i])) + (j - i + 1) <= Concurrency[e]
  <2>1. /\ i + k \in 1..Len(s) /\ j + k \in 1..Len(s) /\ i + k <= j + k
        /\ r[i] = s[i + k] /\ r[j] = s[j + k] /\ r[i] \in Nat
    <3>1. i \in Nat /\ j \in Nat /\ k \in Nat /\ i <= j
      BY <1>1, <1>9
    <3>2. i + k \in 1..Len(s) /\ j + k \in 1..Len(s) /\ r[i] = s[i + k] /\ r[j] = s[j + k]
      BY <1>2
    <3> QED BY <1>s, <3>1, <3>2
  <2>2. Cardinality(Late(p, e, r[i])) + ((j + k) - (i + k) + 1) <= Concurrency[e]
    BY <1>9, <1>w, <2>1
  <2>3. After(r[i]) \subseteq Late(p, e, r[i])
    BY <1>8, <2>1
  <2>4. /\ IsFiniteSet(Late(p, e, r[i])) /\ Cardinality(Late(p, e, r[i])) \in Nat
    BY <2>1, LateFinite
  <2>5. /\ Cardinality(After(r[i])) <= Cardinality(Late(p, e, r[i]))
        /\ Cardinality(After(r[i])) \in Nat
    BY <2>3, <2>4, FS_Subset, FS_CardinalityType
  <2>6. (j + k) - (i + k) + 1 = j - i + 1 /\ j - i + 1 \in Int
    <3>1. i \in Int /\ j \in Int /\ k \in Int
      BY <1>1
    <3> HIDE <1>9
    <3> QED BY <3>1
  <2> QED BY <1>c, <2>2, <2>4, <2>5, <2>6
<1>10. ASSUME NEW i \in 1..n, now < r[i] + MinGap
       PROVE  Cardinality(After(r[i])) + (n + 1 - i + 1) <= Concurrency[e]
  <2>1. /\ i + k \in 1..Len(s) /\ n + k \in 1..Len(s) /\ i + k <= n + k
        /\ r[i] = s[i + k] /\ r[i] \in Nat /\ s[n + k] <= now /\ s[n + k] \in Nat
    <3>1. i \in Nat /\ n \in Nat /\ k \in Nat /\ i <= n /\ n \in 1..n
      BY <1>1
    <3>2. i + k \in 1..Len(s) /\ n + k \in 1..Len(s) /\ r[i] = s[i + k]
      BY <1>2, <3>1
    <3>3. r[i] \in Nat /\ s[n + k] \in Nat
      BY <1>s, <3>2
    <3> QED BY <1>5, <3>1, <3>2, <3>3
  <2>2. s[n + k] < s[i + k] + MinGap
    BY <1>10, <1>c, <2>1
  <2>3. Cardinality(Late(p, e, r[i])) + ((n + k) - (i + k) + 1) <= Concurrency[e]
    BY <1>w, <2>1, <2>2
  <2>4. l \in Late(p, e, r[i])
    BY <1>10, <1>6, <1>c, <2>1 DEF Late
  <2>5. After(r[i]) = Late(p, e, r[i]) \ {l}
    BY <1>8, <2>1
  <2>6. /\ IsFiniteSet(Late(p, e, r[i])) /\ Cardinality(Late(p, e, r[i])) \in Nat
    BY <2>1, LateFinite
  <2>7. Cardinality(After(r[i])) = Cardinality(Late(p, e, r[i])) - 1
    BY <2>4, <2>5, <2>6, FS_RemoveElement
  <2>8. /\ (n + k) - (i + k) + 1 = n - i + 1 /\ n + 1 - i + 1 = (n - i + 1) + 1
        /\ n - i + 1 \in Int
    BY <1>1
  <2> QED BY <1>c, <2>3, <2>6, <2>7, <2>8
<1>11. Cardinality(After(now)) + 1 <= Concurrency[e]
  <2>1. After(now) = Late(p, e, now) \ {l}
    BY <1>8, <1>c
  <2>2. After(now) \subseteq Holders(p, e) \ {l}
    BY <1>c, <2>1, LateFinite
  <2>3. /\ IsFiniteSet(Holders(p, e)) /\ Cardinality(Holders(p, e)) \in Nat
        /\ Cardinality(Holders(p, e)) <= Concurrency[e]
    BY CountedSets DEF BudgetInv, PermitBound
  <2>4. /\ Cardinality(Holders(p, e) \ {l}) = Cardinality(Holders(p, e)) - 1
        /\ IsFiniteSet(Holders(p, e) \ {l})
    BY <1>6, <2>3, FS_RemoveElement
  <2>5. Cardinality(After(now)) <= Cardinality(Holders(p, e) \ {l})
        /\ Cardinality(After(now)) \in Nat
    BY <2>2, <2>4, FS_Subset, FS_CardinalityType
  <2> QED BY <1>c, <2>3, <2>4, <2>5
<1>12. ASSUME NEW i \in 1..Len(r), NEW j \in 1..Len(r), i <= j, r[j] < r[i] + MinGap
       PROVE  Cardinality(After(r[i])) + (j - i + 1) <= Concurrency[e]
  <2>1. /\ i \in 1..n \/ i = n + 1
        /\ j \in 1..n \/ j = n + 1
        /\ i = n + 1 => j = n + 1
    BY <1>1, <1>2, <1>12
  <2>2. CASE i \in 1..n /\ j \in 1..n
    BY <1>9, <1>12, <2>2
  <2>3. CASE i \in 1..n /\ j = n + 1
    <3>1. now < r[i] + MinGap
      BY <1>2, <1>12, <2>3
    <3>2. Cardinality(After(r[i])) + (n + 1 - i + 1) <= Concurrency[e]
      BY <1>10, <2>3, <3>1
    <3>3. n + 1 - i + 1 = j - i + 1
      BY <1>1, <2>3
    <3> QED BY <3>2, <3>3
  <2>4. CASE i = n + 1 /\ j = n + 1
    <3>1. r[i] = now /\ j - i + 1 = 1
      BY <1>1, <1>2, <2>4
    <3> QED BY <1>11, <3>1
  <2> QED BY <2>1, <2>2, <2>3, <2>4
<1>13. ASSUME NEW i \in 1..Len(r) PROVE r[i] <= now
  <2>1. i \in 1..n \/ i = n + 1
    BY <1>1, <1>2
  <2> QED BY <1>2, <1>5, <1>c, <2>1
<1> QED BY <1>1, <1>2, <1>3, <1>4, <1>12, <1>13, <1>14

(* A leg that goes to sleep counts its gap from the last start there was.  *)
LEMMA ReadLastWaits ==
  ASSUME TypeOK, ClockInv, StartsInv, NEW p \in Proc, NEW l \in Leg, ReadLast(p, l),
         NEW i \in 1..Len(starts[p][LegEngine[l]])
  PROVE  ~(leg'[p][l].wake < starts[p][LegEngine[l]][i] + MinGap)
<1> DEFINE last == views[p][LegEngine[l]].request
           t == starts[p][LegEngine[l]][i]
           wake(gap) == IF last = None THEN now ELSE LaterOf(now, EarlierOf(last, now) + gap)
<1>1. LegEngine[l] \in Engine /\ now \in Nat /\ MinGap \in Nat
  BY GovernorAssumption DEF TypeOK
<1>2. t \in Nat /\ last \in Time /\ last <= now /\ t <= last
  <2>1. starts[p][LegEngine[l]] \in Seq(Nat) /\ views[p][LegEngine[l]] \in View
    BY <1>1 DEF TypeOK
  <2>2. t \in Nat /\ last \in Time
    BY <2>1 DEF View
  <2> QED BY <1>1, <2>2 DEF ClockInv, StartsInv
<1>3. PICK gap \in Gaps : leg' = [leg EXCEPT ![p][l].pc = "sleep", ![p][l].wake = wake(gap)]
  BY DEF ReadLast
<1>4. gap \in Nat /\ gap >= MinGap
  BY <1>1, GovernorAssumption DEF Gaps
<1>5. leg'[p][l].wake = wake(gap)
  <2> HIDE DEF wake
  <2>1. leg' = [leg EXCEPT ![p][l] = [leg[p][l] EXCEPT !.pc = "sleep", !.wake = wake(gap)]]
    BY <1>3
  <2>2. [leg[p][l] EXCEPT !.pc = "sleep", !.wake = wake(gap)].wake = wake(gap)
    BY DEF TypeOK, LegState
  <2> QED BY <2>1, <2>2 DEF TypeOK
<1> HIDE DEF last, t
<1>6. wake(gap) \in Nat /\ wake(gap) >= t + MinGap
  BY <1>1, <1>2, <1>4 DEF LaterOf, EarlierOf, Time, None
<1> HIDE DEF wake
<1> QED BY <1>1, <1>2, <1>5, <1>6 DEF t

LEMMA LegStepWindow ==
  ASSUME TypeOK, TypeOK', ClockInv, BudgetInv, StartsInv,
         NEW p \in Proc, NEW l \in Leg, LegStep(p, l)
  PROVE  StartsInv'
<1> SUFFICES ASSUME NEW q \in Proc, NEW e \in Engine
             PROVE  /\ Len(starts'[q][e]) <= Concurrency[e]
                    /\ \A i \in 1..Len(starts'[q][e]) :
                         starts'[q][e][i] <= views'[q][e].request
                    /\ \A i, j \in 1..Len(starts'[q][e]) :
                         i <= j /\ starts'[q][e][j] < starts'[q][e][i] + MinGap =>
                           Cardinality(Late(q, e, starts[q][e][i])') + (j - i + 1)
                             <= Concurrency[e]
  BY DEF StartsInv
<1>1. CASE Reserve(p, l) /\ q = p /\ e = LegEngine[l]
  BY <1>1, ReserveWindow
<1>2. CASE ~(Reserve(p, l) /\ q = p /\ e = LegEngine[l])
  <2>1. starts'[q][e] = starts[q][e]
    <3>1. CASE Reserve(p, l)
      BY <1>2, <3>1, GovernorAssumption DEF Reserve, TypeOK
    <3>2. CASE UNCHANGED starts
      BY <3>2
    <3> QED
      BY <3>1, <3>2
         DEF LegStep, Begin, Load, Precheck, Acquire, Refresh, CheckSuspended, CheckBudget,
             ReadLast, NextPage, Succeed, Fail, TransportFail, Retry, Abort
  <2>2. views'[q][e].request >= views[q][e].request
    BY RequestAdvances
  <2>3. ASSUME NEW i \in 1..Len(starts[q][e]), NEW k \in Leg,
               LegEngine[k] = e, leg'[q][k].pc = "sleep",
               leg'[q][k].wake < starts[q][e][i] + MinGap
        PROVE  leg[q][k].pc = "sleep" /\ leg[q][k].wake < starts[q][e][i] + MinGap
    <3>1. CASE q = p /\ k = l
      <4>1. ReadLast(p, l)
        BY <2>3, <3>1, LegMoves
      <4> QED BY <2>3, <3>1, <4>1, ReadLastWaits
    <3>2. CASE ~(q = p /\ k = l)
      <4>1. leg'[q][k] = leg[q][k]
        BY <3>2, LegMoves
      <4> QED BY <2>3, <4>1
    <3> QED BY <3>1, <3>2
  <2>4. \A i \in 1..Len(starts[q][e]) :
          Late(q, e, starts[q][e][i])' \subseteq Late(q, e, starts[q][e][i])
    BY <2>1, <2>3 DEF Late
  <2> QED BY <2>1, <2>2, <2>4, QuietWindow
<1> QED BY <1>1, <1>2

LEMMA NextWindow ==
  TypeOK /\ ClockInv /\ BudgetInv /\ StartsInv /\ [Next]_vars => StartsInv'
<1> SUFFICES ASSUME TypeOK, ClockInv, BudgetInv, StartsInv, [Next]_vars PROVE StartsInv'
  OBVIOUS
<1>t. TypeOK'
  BY NextType
<1>1. CASE \E p \in Proc, l \in Leg : LegStep(p, l)
  BY <1>1, <1>t, LegStepWindow
<1>2. CASE \E p \in Proc : Restart(p)
  <2>1. PICK p \in Proc : Restart(p)
    BY <1>2
  <2>2. ASSUME NEW q \in Proc, NEW e \in Engine
        PROVE  \/ starts'[q][e] = << >>
               \/ /\ starts'[q][e] = starts[q][e] /\ views'[q][e] = views[q][e]
                  /\ leg'[q] = leg[q]
    BY <2>1 DEF Restart, TypeOK
  <2>3. ASSUME NEW q \in Proc, NEW e \in Engine
        PROVE  /\ Len(starts'[q][e]) <= Concurrency[e]
               /\ \A i \in 1..Len(starts'[q][e]) : starts'[q][e][i] <= views'[q][e].request
               /\ \A i, j \in 1..Len(starts'[q][e]) :
                    i <= j /\ starts'[q][e][j] < starts'[q][e][i] + MinGap =>
                      Cardinality(Late(q, e, starts[q][e][i])') + (j - i + 1) <= Concurrency[e]
    <3>1. CASE starts'[q][e] = << >>
      BY <3>1, GovernorAssumption
    <3>2. CASE /\ starts'[q][e] = starts[q][e] /\ views'[q][e] = views[q][e]
               /\ leg'[q] = leg[q]
      <4>1. \A i \in 1..Len(starts[q][e]) :
              Late(q, e, starts[q][e][i])' = Late(q, e, starts[q][e][i])
        BY <3>2 DEF Late
      <4> QED BY <3>2, <4>1 DEF StartsInv
    <3> QED BY <2>2, <3>1, <3>2
  <2> QED BY <2>3 DEF StartsInv
<1>3. CASE UNCHANGED <<views, leg, starts>>
  BY <1>3 DEF StartsInv, Late
<1> QED BY <1>1, <1>2, <1>3 DEF Next, Tick, vars

(* Only a reservation counts a request, and only at its own engine. *)
LEMMA OnlyReserveCounts ==
  ASSUME TypeOK, NEW q \in Proc, NEW l \in Leg, LegStep(q, l),
         NEW p \in Proc, NEW e \in Engine, Started(p, e)
  PROVE  Reserve(q, l) /\ q = p /\ e = LegEngine[l]
<1>t. views[p][e].count \in Nat
  BY DEF TypeOK, View
<1>1. ASSUME NEW m \in [Engine -> View], Publish(q, m)
      PROVE  q = p /\ m[e].count # views[p][e].count
  BY <1>1, <1>t, Published DEF Started
<1>m. Merged(q) \in [Engine -> View] /\ Merged(q)[e].count = views[q][e].count
  BY MergedProperties
<1>2. CASE Load(q, l) \/ Refresh(q, l)
  BY <1>1, <1>2, <1>m DEF Load, Refresh
<1>3. CASE Reserve(q, l)
  <2> DEFINE f == LegEngine[l]
             m == [Merged(q) EXCEPT ![f].request = now, ![f].count = @ + 1]
  <2>1. f \in Engine /\ now \in Time
    BY GovernorAssumption DEF TypeOK, Time
  <2>2. m \in [Engine -> View]
    BY <1>m, <2>1 DEF View
  <2>3. e # f => m[e].count = Merged(q)[e].count
    BY <1>m
  <2>4. Publish(q, m)
    BY <1>3 DEF Reserve
  <2> HIDE DEF m
  <2> QED BY <1>1, <1>3, <1>m, <2>2, <2>3, <2>4
<1>4. CASE Succeed(q, l)
  <2> DEFINE f == LegEngine[l]
             m == [Merged(q) EXCEPT ![f].success = now, ![f].until = None, ![f].at = None]
  <2>1. f \in Engine /\ now \in Time /\ None \in Time
    BY GovernorAssumption DEF TypeOK, Time
  <2>2. m \in [Engine -> View]
    BY <1>m, <2>1 DEF View
  <2>3. m[e].count = Merged(q)[e].count
    BY <1>m, <2>1 DEF View
  <2>4. Publish(q, m)
    BY <1>4 DEF Succeed
  <2> HIDE DEF m
  <2> QED BY <1>1, <1>m, <2>2, <2>3, <2>4
<1>5. CASE Fail(q, l)
  <2>1. PICK d \in ErrorSuspension :
          IF EarlierOf(d, MaxSuspension) = 0 THEN UNCHANGED <<disk, since, views>>
          ELSE Publish(q, [Merged(q) EXCEPT ![LegEngine[l]] = WithFailure(@, d)])
    BY <1>5 DEF Fail
  <2> DEFINE f == LegEngine[l]
             m == [Merged(q) EXCEPT ![f] = WithFailure(@, d)]
  <2>2. f \in Engine /\ now \in Time /\ now + EarlierOf(d, MaxSuspension) \in Time
    BY GovernorAssumption DEF TypeOK, EarlierOf, Time
  <2>3. /\ WithFailure(Merged(q)[f], d) \in View
        /\ WithFailure(Merged(q)[f], d).count = Merged(q)[f].count
    BY <1>m, <2>2 DEF WithFailure, View
  <2>4. m \in [Engine -> View] /\ m[e].count = Merged(q)[e].count
    BY <1>m, <2>2, <2>3
  <2>5. ~UNCHANGED views
    BY <1>t DEF Started
  <2>6. Publish(q, m)
    BY <2>1, <2>5
  <2> HIDE DEF m
  <2> QED BY <1>1, <1>m, <2>4, <2>6
<1>6. CASE UNCHANGED views
  BY <1>t, <1>6 DEF Started
<1> QED
  BY <1>2, <1>3, <1>4, <1>5, <1>6
     DEF LegStep, Begin, Precheck, Acquire, CheckSuspended, CheckBudget, ReadLast,
         NextPage, TransportFail, Retry, Abort

(* However the legs of a process interleave, retry, page on and pass the   *)
(* permits around, no window of MinGap holds more of its starts at an      *)
(* engine than the engine has permits.                                     *)
THEOREM GapsAreKept == Spec => GapWindow
<1> DEFINE Spaced == \A p \in Proc, e \in Engine :
             Started(p, e) /\ Len(starts[p][e]) = Concurrency[e]
               => now - Head(starts[p][e]) >= MinGap
<1>1. Init => StartsInv
  BY GovernorAssumption DEF Init, StartsInv
<1>2. Spec => []StartsInv
  BY <1>1, NextWindow, ClocksHold, BudgetInvariant, PTL DEF Spec
<1>3. TypeOK /\ ClockInv /\ StartsInv /\ [Next]_vars => [Spaced]_vars
  <2> SUFFICES ASSUME TypeOK, ClockInv, StartsInv, [Next]_vars, NEW p \in Proc, NEW e \in Engine,
                      Started(p, e), Len(starts[p][e]) = Concurrency[e]
               PROVE  now - Head(starts[p][e]) >= MinGap
    OBVIOUS
  <2>1. PICK l \in Leg : Reserve(p, l) /\ e = LegEngine[l]
    <3>1. ~\E q \in Proc : Restart(q)
      <4>1. \A q \in Proc : Restart(q) => views'[p][e].count \in {0, views[p][e].count}
        BY DEF Restart, NoView, TypeOK
      <4>2. views[p][e].count \in Nat
        BY DEF TypeOK, View
      <4> QED BY <4>1, <4>2 DEF Started
    <3>2. views' # views
      BY DEF Started, TypeOK, View
    <3>3. PICK q \in Proc, l \in Leg : LegStep(q, l)
      BY <3>1, <3>2 DEF Next, Tick, vars
    <3> QED BY <3>3, OnlyReserveCounts
  <2>2. /\ starts[p][e] \in Seq(Nat) /\ Concurrency[e] \in Nat \ {0}
        /\ now \in Nat /\ MinGap \in Nat /\ leg[p][l].wake \in Nat
    BY GovernorAssumption DEF TypeOK, LegState
  <2> DEFINE s == starts[p][e]
             C == Concurrency[e]
  <2>3. Head(s) = s[1] /\ s[1] \in Nat /\ 1 \in 1..Len(s) /\ C \in 1..Len(s) /\ s[C] \in Nat
    BY <2>2
  <2>4. s[C] <= now
    <3>1. views[p][e].request \in Time /\ views[p][e].request <= now /\ s[C] <= views[p][e].request
      BY <2>3 DEF TypeOK, View, ClockInv, StartsInv
    <3>2. views[p][e].request \in Int /\ s[C] \in Int /\ now \in Int
      BY <2>2, <2>3, <3>1 DEF Time, None
    <3> HIDE DEF s, C
    <3> QED BY <3>1, <3>2
  <2> SUFFICES ASSUME now < s[1] + MinGap PROVE FALSE
    BY <2>2, <2>3
  <2>5. l \in Late(p, e, s[1])
    <3>1. leg[p][l].pc = "sleep" /\ leg[p][l].wake <= now
      BY <2>1, <2>2 DEF Reserve
    <3>2. leg[p][l].wake < s[1] + MinGap
      BY <2>2, <2>3, <3>1
    <3> QED BY <2>1, <3>1, <3>2 DEF Late
  <2>6. /\ IsFiniteSet(Late(p, e, s[1])) /\ Cardinality(Late(p, e, s[1])) \in Nat
    BY <2>3, LateFinite
  <2>7. Cardinality(Late(p, e, s[1])) # 0
    BY <2>5, <2>6, FS_EmptySet
  <2>8. s[C] < s[1] + MinGap
    BY <2>2, <2>3, <2>4
  <2>9. Cardinality(Late(p, e, s[1])) + (C - 1 + 1) <= C
    <3>1. \A i, j \in 1..Len(s) :
            i <= j /\ s[j] < s[i] + MinGap =>
              Cardinality(Late(p, e, s[i])) + (j - i + 1) <= C
      BY DEF StartsInv
    <3>2. 1 <= C
      BY <2>2
    <3> HIDE DEF s, C
    <3> QED BY <2>3, <2>8, <3>1, <3>2
  <2> HIDE DEF s, C
  <2> QED BY <2>2, <2>6, <2>7, <2>9 DEF C
<1> HIDE DEF Spaced
<1> QED BY <1>2, <1>3, ClocksHold, PTL DEF GapWindow, Spaced, Spec
=============================================================================
