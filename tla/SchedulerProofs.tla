--------------------------- MODULE SchedulerProofs ---------------------------
(***************************************************************************)
(* Proofs about Scheduler for any number of nodes and groups, any weights, *)
(* limits and lease time, and any number of faults.                        *)
(***************************************************************************)
EXTENDS Scheduler, TLAPS, FiniteSetTheorems, WellFoundedInduction

(* A log of faults within its bound. *)
Logged(log) == log \in Seq(FaultKinds) /\ Len(log) <= MaxFaults

(* Types of the variables, without what ties the loop to the worker map. *)
StoreTypes ==
  /\ desired \in [Groups -> {"running", "paused", "absent"}]
  /\ leaseOwner \in [Groups -> Nodes \cup {None}]
  /\ left \in [Groups -> -1 .. TTL]
  /\ Logged(faults)
  /\ changes \in 0 .. MaxChanges

LoopTypes ==
  /\ npc \in [Nodes -> NodePCs]
  /\ closing \in [Nodes -> BOOLEAN]
  /\ todo \in [Nodes -> SUBSET Groups]
  /\ cand \in [Nodes -> SUBSET Groups]
  /\ slots \in [Nodes -> Nat]
  /\ target \in [Nodes -> Groups \cup {NoGroup}]

WorkerTypes ==
  /\ wk \in [Nodes -> [Groups -> Phases]]
  /\ orphans \in [Nodes -> [Groups -> Nat]]

Types == StoreTypes /\ LoopTypes /\ WorkerTypes

(* A node is busy with a group exactly while it stops or starts one, and    *)
(* one that it starts has no worker and a slot.                             *)
Busy(n) ==
  /\ npc[n] \in {"wait", "inputs"} <=> target[n] # NoGroup
  /\ npc[n] = "inputs" =>
       wk[n][target[n]] = "none" /\ target[n] \notin cand[n] /\ slots[n] > 0

(* Candidates have no worker, and there are none outside a pass. *)
Fresh(n) ==
  /\ \A g \in cand[n] : wk[n][g] = "none"
  /\ npc[n] \in {"down", "idle", "prune"} => cand[n] = {} /\ slots[n] = 0
  /\ npc[n] \in {"stop", "wait"} /\ cand[n] = {} => slots[n] = 0

(* What is pruned is out of the map, and nothing is left to stop when       *)
(* workers are started.                                                     *)
Planned(n) ==
  /\ npc[n] = "prune" => \A g \in todo[n] : wk[n][g] = "none"
  /\ npc[n] \in {"start", "inputs"} => todo[n] = {}

NodeInv(n) == Busy(n) /\ Fresh(n) /\ Planned(n)

LoopInv == Types /\ \A n \in Nodes : NodeInv(n)

LEMMA TypesBusy == LoopInv => TypeOK
BY DEF LoopInv, Types, StoreTypes, LoopTypes, WorkerTypes, NodeInv, Busy, TypeOK, Logged

LEMMA NoGroupIsNone == NoGroup \notin Groups /\ \A g \in Groups : g \in Nat
BY GroupsAssumption DEF NoGroup

LEMMA Initially == Init => LoopInv
<1> SUFFICES ASSUME Init PROVE LoopInv
  OBVIOUS
<1>1. StoreTypes
  BY BoundsAssumption, TTLAssumption DEF Init, StoreTypes, Logged
<1>2. LoopTypes
  BY DEF Init, LoopTypes, NodePCs
<1>3. WorkerTypes
  BY DEF Init, WorkerTypes, Phases
<1>4. ASSUME NEW n \in Nodes PROVE NodeInv(n)
  BY DEF Init, NodeInv, Busy, Fresh, Planned
<1> QED
  BY <1>1, <1>2, <1>3, <1>4 DEF LoopInv, Types

-----------------------------------------------------------------------------
(* Operators of the model. *)

(* A set of naturals that is not empty has a least element. *)
LEMMA LeastNumber ==
  ASSUME NEW S, S \subseteq Nat, S # {}
  PROVE  \E m \in S : \A k \in S : m <= k
<1> DEFINE R == OpToRel(<, Nat)
<1>1. IsWellFoundedOn(R, Nat)
  BY NatLessThanWellFounded
<1>2. PICK m \in S : \A k \in S : ~(<<k, m>> \in R)
  <2> HIDE DEF R
  <2> QED
    BY <1>1, WFMin
<1>3. \A k \in S : ~(k < m)
  BY <1>2 DEF OpToRel
<1>4. m \in S /\ \A k \in S : m \in Nat /\ k \in Nat
  BY <1>2
<1>5. \A k \in S : m <= k
  BY <1>3, <1>4
<1> QED
  BY <1>4, <1>5

LEMMA FirstInSet ==
  ASSUME NEW S, S \subseteq Groups, S # {}
  PROVE  First(S) \in S
<1>1. \E m \in S : \A k \in S : m <= k
  BY NoGroupIsNone, LeastNumber
<1> QED
  BY <1>1 DEF First

LEMMA FiniteGroups ==
  ASSUME NEW S, S \subseteq Groups
  PROVE  IsFiniteSet(S) /\ Cardinality(S) \in Nat
<1>1. IsFiniteSet(S)
  BY GroupsAssumption, FS_Subset
<1> QED
  BY <1>1, FS_CardinalityType

(* The slots of a plan: never more than there are candidates, and with what *)
(* is kept never more than MaxGroups, unless that is exceeded already.      *)
LEMMA SlotsOfPlan ==
  ASSUME NEW n \in Nodes
  PROVE  /\ StartSlots(n) \in Nat
         /\ ToStart(n) = {} => StartSlots(n) = 0
         /\ MaxGroups[n] > 0 /\ Cardinality(Running(n)) <= MaxGroups[n] =>
              Cardinality(Running(n) \ ToStop(n)) + StartSlots(n) <= MaxGroups[n]
<1> DEFINE R == Running(n)
           P == ToStop(n)
           C == ToStart(n)
<1>1. R \subseteq Groups /\ P \subseteq R /\ C \subseteq Groups
  BY DEF Running, ToStop, ToStart, ListRunnable
<1>2. IsFiniteSet(R) /\ Cardinality(R) \in Nat /\ Cardinality(C) \in Nat /\ IsFiniteSet(C)
  BY <1>1, FiniteGroups
<1>3. P \subseteq Groups /\ R \ P \subseteq Groups /\ R \cap P = P
  BY <1>1
<1>4. Cardinality(P) \in Nat /\ Cardinality(R \ P) \in Nat
  BY <1>3, FiniteGroups
<1>5. Cardinality(R \ P) = Cardinality(R) - Cardinality(P)
  BY <1>2, <1>3, FS_Difference
<1>6. C = {} => Cardinality(C) = 0
  BY FS_EmptySet
<1> HIDE DEF R, P, C
<1>7. StartSlots(n) =
        LET kept == Cardinality(R) - Cardinality(P)
            free == IF kept > MaxGroups[n] THEN 0 ELSE MaxGroups[n] - kept
            candidates == Cardinality(C)
        IN IF MaxGroups[n] = 0 \/ free > candidates THEN candidates ELSE free
  BY DEF StartSlots, R, P, C
<1>8. /\ StartSlots(n) \in Nat
      /\ C = {} => StartSlots(n) = 0
      /\ MaxGroups[n] > 0 /\ Cardinality(R) <= MaxGroups[n] =>
           Cardinality(R \ P) + StartSlots(n) <= MaxGroups[n]
  BY <1>2, <1>4, <1>5, <1>6, <1>7, LimitsAssumption
<1> QED
  BY <1>8 DEF R, P, C

LEMMA FaultCounted ==
  ASSUME StoreTypes, NEW k, Fault(k)
  PROVE  Logged(faults')
BY BoundsAssumption DEF Fault, StoreTypes, Logged

LEMMA CallCounted ==
  ASSUME StoreTypes, NEW n, CallFails(n)
  PROVE  Logged(faults')
BY FaultCounted DEF CallFails, StoreTypes

LEMMA AcquireTyped ==
  ASSUME StoreTypes, NEW n \in Nodes, NEW g \in Groups, TryAcquireGroupLease(g, n)
  PROVE  leaseOwner' \in [Groups -> Nodes \cup {None}] /\ left' \in [Groups -> -1 .. TTL]
BY TTLAssumption DEF StoreTypes, TryAcquireGroupLease

LEMMA ReleaseTyped ==
  ASSUME StoreTypes, NEW n \in Nodes, NEW g \in Groups, ReleaseGroupLease(g, n)
  PROVE  leaseOwner' \in [Groups -> Nodes \cup {None}] /\ left' \in [Groups -> -1 .. TTL]
BY TTLAssumption DEF StoreTypes, ReleaseGroupLease

LEMMA LoggedReleaseTyped ==
  ASSUME StoreTypes, NEW n \in Nodes, NEW g \in Groups, releaseLease(g, n)
  PROVE  /\ leaseOwner' \in [Groups -> Nodes \cup {None}]
         /\ left' \in [Groups -> -1 .. TTL]
         /\ Logged(faults')
BY FaultCounted, ReleaseTyped DEF StoreTypes, releaseLease

-----------------------------------------------------------------------------
LEMMA StoreTyped ==
  ASSUME Types,
         \/ \E g \in Groups : UpdateGroupDesiredStatus(g) \/ DeleteGroup(g) \/ CreateGroup(g)
         \/ Tick
  PROVE  Types'
<1> USE DEF Types, StoreTypes, LoopTypes, WorkerTypes, loop, workers
<1>1. ASSUME NEW g \in Groups, UpdateGroupDesiredStatus(g) PROVE Types'
  BY <1>1, BoundsAssumption DEF UpdateGroupDesiredStatus
<1>2. ASSUME NEW g \in Groups, DeleteGroup(g) PROVE Types'
  BY <1>2, FaultCounted, TTLAssumption DEF DeleteGroup
<1>3. ASSUME NEW g \in Groups, CreateGroup(g) PROVE Types'
  BY <1>3 DEF CreateGroup
<1>4. CASE Tick
  <2>1. left' \in [Groups -> -1 .. TTL]
    BY <1>4, TTLAssumption DEF Tick
  <2>2. Logged(faults')
    BY <1>4, FaultCounted DEF Tick
  <2> QED
    BY <1>4, <2>1, <2>2 DEF Tick
<1> QED
  BY <1>1, <1>2, <1>3, <1>4

LEMMA WorkersTyped ==
  ASSUME Types, NEW n \in Nodes, NEW g \in Groups, WorkerStep(n, g)
  PROVE  Types'
<1> USE DEF Types, StoreTypes, LoopTypes, WorkerTypes, store, loop, workers
<1>1. CASE RenewGroupLease(n, g)
  BY <1>1, TTLAssumption DEF RenewGroupLease
<1>2. CASE LeaseLost(n, g)
  <2>1. left' \in [Groups -> -1 .. TTL]
    BY <1>2, TTLAssumption DEF LeaseLost
  <2>2. Logged(faults')
    BY <1>2, FaultCounted DEF LeaseLost
  <2> QED
    BY <1>2, <2>1, <2>2 DEF LeaseLost, Phases
<1>3. CASE finish(n, g)
  BY <1>3 DEF finish, Phases
<1>4. CASE finishOrphan(n, g)
  BY <1>4 DEF finishOrphan
<1> QED
  BY <1>1, <1>2, <1>3, <1>4 DEF WorkerStep

(* stopWorker takes one of the groups to stop, and a start one of the       *)
(* candidates.                                                              *)
LEMMA StopPicks ==
  ASSUME LoopTypes, NEW n \in Nodes, stopWorker(n)
  PROVE  \E g \in todo[n] :
           /\ todo' = [todo EXCEPT ![n] = @ \ {g}]
           /\ target' = [target EXCEPT ![n] = g]
           /\ wk' = [wk EXCEPT ![n][g] = IF @ = "run" THEN "cancel" ELSE @]
<1>1. First(todo[n]) \in todo[n]
  BY FirstInSet DEF stopWorker, LoopTypes
<1> QED
  BY <1>1 DEF stopWorker

LEMMA StartPicks ==
  ASSUME LoopTypes, NEW n \in Nodes, cand[n] # {}
  PROVE  First(cand[n]) \in cand[n] /\ First(cand[n]) \in Groups
BY FirstInSet DEF LoopTypes

LEMMA NodeTyped ==
  ASSUME LoopInv, NEW n \in Nodes, NodeStep(n)
  PROVE  Types'
<1> USE DEF LoopInv, Types, StoreTypes, LoopTypes, WorkerTypes, store, loop, workers, Goto, NodePCs
<1>1. CASE Boot(n)
  BY <1>1 DEF Boot
<1>2. CASE pruneDeadWorkers(n)
  BY <1>2 DEF pruneDeadWorkers, Phases
<1>3. CASE pruneRelease(n)
  <2>1. PICK g \in todo[n] : releaseLease(g, n) /\ todo' = [todo EXCEPT ![n] = @ \ {g}]
    BY <1>3 DEF pruneRelease
  <2>2. g \in Groups
    BY <2>1
  <2> QED
    BY <1>3, <2>1, <2>2, LoggedReleaseTyped DEF pruneRelease
<1>4. CASE planReconcile(n)
  <2>1. StartSlots(n) \in Nat /\ ToStop(n) \subseteq Groups /\ ToStart(n) \subseteq Groups
    BY SlotsOfPlan DEF ToStop, ToStart, Running, ListRunnable
  <2> QED
    BY <1>4, <2>1 DEF planReconcile
<1>5. CASE stopWorker(n)
  <2>2. PICK g \in todo[n] :
          /\ todo' = [todo EXCEPT ![n] = @ \ {g}]
          /\ target' = [target EXCEPT ![n] = g]
          /\ wk' = [wk EXCEPT ![n][g] = IF @ = "run" THEN "cancel" ELSE @]
    BY <1>5, StopPicks
  <2>3. g \in Groups
    BY <2>2
  <2>4. wk' \in [Nodes -> [Groups -> Phases]]
    BY <2>2, <2>3 DEF Phases
  <2> QED
    BY <1>5, <2>2, <2>3, <2>4 DEF stopWorker
<1>6. CASE Stopped(n)
  <2>1. target[n] \in Groups /\ npc[n] = "wait" /\ releaseLease(target[n], n)
    BY <1>6 DEF Stopped, NodeInv, Busy
  <2>2. wk' \in [Nodes -> [Groups -> Phases]]
    BY <1>6, <2>1 DEF Stopped, Phases
  <2> QED
    BY <1>6, <2>1, <2>2, LoggedReleaseTyped DEF Stopped
<1>7. CASE StopsDone(n)
  BY <1>7 DEF StopsDone
<1>8. CASE Halt(n)
  BY <1>8 DEF Halt
<1>9. CASE SkipCandidate(n)
  <2>1. First(cand[n]) \in Groups
    BY <1>9, StartPicks DEF SkipCandidate
  <2>2. leaseOwner' \in [Groups -> Nodes \cup {None}] /\ left' \in [Groups -> -1 .. TTL]
    BY <1>9, <2>1, AcquireTyped DEF SkipCandidate
  <2>3. Logged(faults')
    BY <1>9, CallCounted DEF SkipCandidate
  <2> QED
    BY <1>9, <2>2, <2>3 DEF SkipCandidate, SlotsAfterSkip
<1>10. CASE AcquireCandidate(n)
  <2>1. First(cand[n]) \in Groups
    BY <1>10, StartPicks DEF AcquireCandidate
  <2>2. leaseOwner' \in [Groups -> Nodes \cup {None}] /\ left' \in [Groups -> -1 .. TTL]
    BY <1>10, <2>1, AcquireTyped DEF AcquireCandidate
  <2> QED
    BY <1>10, <2>1, <2>2 DEF AcquireCandidate
<1>11. CASE StartWorker(n)
  <2>1. target[n] \in Groups /\ slots[n] - 1 \in Nat
    BY <1>11 DEF StartWorker, NodeInv, Busy
  <2> QED
    BY <1>11, <2>1 DEF StartWorker, Phases
<1>12. CASE StartsDone(n)
  BY <1>12 DEF StartsDone
<1>13. CASE shutdown(n)
  BY <1>13 DEF shutdown, Running
<1> QED
  BY <1>1, <1>2, <1>3, <1>4, <1>5, <1>6, <1>7, <1>8, <1>9, <1>10, <1>11, <1>12, <1>13
  DEF NodeStep

LEMMA FaultTyped ==
  ASSUME LoopInv, NEW n \in Nodes, NodeFault(n)
  PROVE  Types'
<1> USE DEF LoopInv, Types, StoreTypes, LoopTypes, WorkerTypes, store, loop, workers, Goto, NodePCs
<1>1. CASE ListFailed(n)
  BY <1>1, CallCounted DEF ListFailed
<1>2. CASE StopTimedOut(n)
  <2>1. target[n] \in Groups
    BY <1>2 DEF StopTimedOut, NodeInv, Busy
  <2> QED
    BY <1>2, <2>1, FaultCounted DEF StopTimedOut, Phases
<1>3. CASE InputsFailed(n)
  <2>1. target[n] \in Groups
    BY <1>3 DEF InputsFailed, NodeInv, Busy
  <2> QED
    BY <1>3, <2>1, CallCounted, ReleaseTyped DEF InputsFailed
<1>4. CASE Cancel(n)
  BY <1>4, FaultCounted DEF Cancel, Phases
<1>5. CASE Crash(n)
  BY <1>5, FaultCounted DEF Crash, Phases
<1> QED
  BY <1>1, <1>2, <1>3, <1>4, <1>5 DEF NodeFault

LEMMA TypesStep ==
  ASSUME LoopInv, Next
  PROVE  Types'
BY StoreTyped, WorkersTyped, NodeTyped, FaultTyped DEF Next, LoopInv

-----------------------------------------------------------------------------
(* A step that leaves a node's loop alone, and its worker map up to the     *)
(* phases of the workers in it.                                             *)
SameNode(n) ==
  /\ npc'[n] = npc[n] /\ todo'[n] = todo[n] /\ cand'[n] = cand[n]
  /\ slots'[n] = slots[n] /\ target'[n] = target[n]
  /\ \A g \in Groups : wk'[n][g] = "none" <=> wk[n][g] = "none"

LEMMA SameNodeKeeps ==
  ASSUME LoopInv, NEW n \in Nodes, SameNode(n)
  PROVE  NodeInv(n)' /\ Running(n)' = Running(n)
<1>1. cand[n] \subseteq Groups /\ todo[n] \subseteq Groups /\ target[n] \in Groups \cup {NoGroup}
  BY DEF LoopInv, Types, LoopTypes
<1>2. NodeInv(n)
  BY DEF LoopInv
<1>3. Busy(n)'
  BY <1>1, <1>2 DEF NodeInv, Busy, SameNode
<1>4. Fresh(n)' /\ Planned(n)'
  BY <1>1, <1>2 DEF NodeInv, Fresh, Planned, SameNode
<1>5. Running(n)' = Running(n)
  BY DEF Running, SameNode
<1> QED
  BY <1>3, <1>4, <1>5 DEF NodeInv

(* Only its own process changes a node. *)
LEMMA OwnSteps ==
  ASSUME LoopInv, [Next]_vars, NEW n \in Nodes
  PROVE  SameNode(n) \/ NodeStep(n) \/ NodeFault(n)
<1> USE DEF LoopInv, Types, LoopTypes, WorkerTypes, SameNode, store, loop, workers
<1>1. CASE UNCHANGED vars
  BY <1>1 DEF vars
<1>2. ASSUME NEW m \in Nodes, m # n, NodeStep(m) PROVE SameNode(n)
  <2>1. wk'[n] = wk[n]
    BY <1>2 DEF NodeStep, Boot, pruneDeadWorkers, pruneRelease, planReconcile, stopWorker,
       Stopped, StopsDone, Halt, SkipCandidate, AcquireCandidate, StartWorker, StartsDone, shutdown
  <2>2. npc'[n] = npc[n] /\ target'[n] = target[n]
    BY <1>2 DEF NodeStep, Boot, pruneDeadWorkers, pruneRelease, planReconcile, stopWorker,
       Stopped, StopsDone, Halt, SkipCandidate, AcquireCandidate, StartWorker, StartsDone, shutdown,
       Goto
  <2>3. todo'[n] = todo[n]
    BY <1>2 DEF NodeStep, Boot, pruneDeadWorkers, pruneRelease, planReconcile, stopWorker,
       Stopped, StopsDone, Halt, SkipCandidate, AcquireCandidate, StartWorker, StartsDone, shutdown
  <2>4. cand'[n] = cand[n] /\ slots'[n] = slots[n]
    BY <1>2 DEF NodeStep, Boot, pruneDeadWorkers, pruneRelease, planReconcile, stopWorker,
       Stopped, StopsDone, Halt, SkipCandidate, AcquireCandidate, StartWorker, StartsDone, shutdown
  <2> QED
    BY <2>1, <2>2, <2>3, <2>4
<1>3. ASSUME NEW m \in Nodes, m # n, NodeFault(m) PROVE SameNode(n)
  BY <1>3 DEF NodeFault, ListFailed, StopTimedOut, InputsFailed, Cancel, Crash, Goto
<1>4. ASSUME NEW m \in Nodes, NEW g \in Groups, WorkerStep(m, g) PROVE SameNode(n)
  BY <1>4 DEF WorkerStep, RenewGroupLease, LeaseLost, finish, finishOrphan
<1>5. CASE \/ \E g \in Groups :
                UpdateGroupDesiredStatus(g) \/ DeleteGroup(g) \/ CreateGroup(g)
           \/ Tick
  BY <1>5 DEF UpdateGroupDesiredStatus, DeleteGroup, CreateGroup, Tick
<1> QED
  BY <1>1, <1>2, <1>3, <1>4, <1>5 DEF Next

(* Worker maps grow by the group a node starts, and in no other way. *)
Grows(n) ==
  /\ npc[n] = "inputs" /\ npc'[n] = "start"
  /\ target[n] \in Groups \ Running(n)
  /\ Running(n)' = Running(n) \cup {target[n]}
  /\ slots'[n] = slots[n] - 1

LEMMA NodeKeeps ==
  ASSUME LoopInv, NEW n \in Nodes, NodeStep(n)
  PROVE  NodeInv(n)' /\ (Running(n)' \subseteq Running(n) \/ Grows(n))
<1> USE DEF LoopInv, Types, LoopTypes, WorkerTypes, store, loop, workers, Goto
<1>0. NodeInv(n) /\ NoGroup \notin Groups
  BY NoGroupIsNone
<1> USE DEF NodeInv, Busy, Fresh, Planned
<1>1. CASE Boot(n)
  BY <1>0, <1>1 DEF Boot, Running
<1>2. CASE pruneDeadWorkers(n)
  BY <1>0, <1>2 DEF pruneDeadWorkers, Running
<1>3. CASE pruneRelease(n)
  BY <1>0, <1>3 DEF pruneRelease, Running
<1>4. CASE planReconcile(n)
  <2>1. \A g \in ToStart(n) : wk[n][g] = "none"
    BY <1>4 DEF planReconcile, ToStart, ListRunnable, Running
  <2>2. Running(n)' \subseteq Running(n)
    BY <1>4 DEF planReconcile, Running
  <2>3. ToStart(n) = {} => StartSlots(n) = 0
    BY SlotsOfPlan
  <2> QED
    BY <1>0, <1>4, <2>1, <2>2, <2>3 DEF planReconcile
<1>5. CASE stopWorker(n)
  <2>2. PICK g \in todo[n] :
          /\ todo' = [todo EXCEPT ![n] = @ \ {g}]
          /\ target' = [target EXCEPT ![n] = g]
          /\ wk' = [wk EXCEPT ![n][g] = IF @ = "run" THEN "cancel" ELSE @]
    BY <1>5, StopPicks
  <2>3. g \in Groups
    BY <2>2
  <2>4. \A h \in Groups : wk'[n][h] = "none" <=> wk[n][h] = "none"
    BY <2>2, <2>3
  <2> QED
    BY <1>0, <1>5, <2>2, <2>3, <2>4 DEF stopWorker, Running
<1>6. CASE Stopped(n)
  BY <1>0, <1>6 DEF Stopped, Running
<1>7. CASE StopsDone(n)
  BY <1>0, <1>7 DEF StopsDone, Running
<1>8. CASE Halt(n)
  BY <1>0, <1>8 DEF Halt, Halted, Running
<1>9. CASE SkipCandidate(n)
  BY <1>0, <1>9 DEF SkipCandidate, SlotsAfterSkip, Running
<1>10. CASE AcquireCandidate(n)
  <2>1. First(cand[n]) \in cand[n]
    BY <1>10, StartPicks DEF AcquireCandidate
  <2> QED
    BY <1>0, <1>10, <2>1 DEF AcquireCandidate, Running
<1>11. CASE StartWorker(n)
  <2>1. target[n] \in Groups
    BY <1>0, <1>11 DEF StartWorker
  <2>2. NodeInv(n)'
    BY <1>0, <1>11, <2>1 DEF StartWorker
  <2>3. Grows(n)
    BY <1>0, <1>11, <2>1 DEF StartWorker, Grows, Running
  <2> QED
    BY <2>2, <2>3
<1>12. CASE StartsDone(n)
  BY <1>0, <1>12 DEF StartsDone, Running
<1>13. CASE shutdown(n)
  BY <1>0, <1>13 DEF shutdown, Running
<1> QED
  BY <1>1, <1>2, <1>3, <1>4, <1>5, <1>6, <1>7, <1>8, <1>9, <1>10, <1>11, <1>12, <1>13
  DEF NodeStep

LEMMA FaultKeeps ==
  ASSUME LoopInv, NEW n \in Nodes, NodeFault(n)
  PROVE  NodeInv(n)' /\ Running(n)' \subseteq Running(n)
<1> USE DEF LoopInv, Types, LoopTypes, WorkerTypes, store, loop, workers, Goto
<1>0. NodeInv(n) /\ NoGroup \notin Groups
  BY NoGroupIsNone
<1>1. CASE ListFailed(n)
  BY <1>0, <1>1 DEF ListFailed, Running, NodeInv, Busy, Fresh, Planned
<1>2. CASE StopTimedOut(n)
  BY <1>0, <1>2 DEF StopTimedOut, Running, NodeInv, Busy, Fresh, Planned
<1>3. CASE InputsFailed(n)
  BY <1>0, <1>3 DEF InputsFailed, Running, NodeInv, Busy, Fresh, Planned
<1>4. CASE Cancel(n)
  <2>1. SameNode(n)
    BY <1>4 DEF Cancel, SameNode
  <2> QED
    BY <2>1, SameNodeKeeps
<1>5. CASE Crash(n)
  BY <1>0, <1>5 DEF Crash, Running, NodeInv, Busy, Fresh, Planned
<1> QED
  BY <1>1, <1>2, <1>3, <1>4, <1>5 DEF NodeFault

LEMMA Inductive ==
  ASSUME LoopInv, [Next]_vars
  PROVE  LoopInv'
<1>1. Types'
  <2>1. CASE UNCHANGED vars
    BY <2>1 DEF vars, store, loop, workers, LoopInv, Types, StoreTypes, LoopTypes, WorkerTypes
  <2> QED
    BY <2>1, TypesStep
<1>2. ASSUME NEW n \in Nodes PROVE NodeInv(n)'
  BY OwnSteps, SameNodeKeeps, NodeKeeps, FaultKeeps
<1> QED
  BY <1>1, <1>2 DEF LoopInv

LEMMA Invariant == Spec => []LoopInv
BY Initially, Inductive, PTL DEF Spec

(* TypeOK holds in every state: the variables have their types, and a node  *)
(* that starts a group has no worker for it.                                *)
THEOREM TypeCorrect == Spec => []TypeOK
BY TypesBusy, Invariant, PTL

-----------------------------------------------------------------------------
(* Leases.  A stop that times out, a group deleted under its worker, and a  *)
(* start, renewal or drain that outlasts the lease each break the promise   *)
(* by themselves (for a timeout, SchedulerStopTimeout.cfg); store errors,   *)
(* crashes and shutdowns do not.  Faults are only ever added to the log, so *)
(* a state that is punctual has a past that was.                            *)
LEMMA FaultsOnlyAdded ==
  ASSUME [Next]_vars
  PROVE  UNCHANGED faults \/ \E k : Fault(k)
<1>1. ASSUME NEW n \in Nodes, NodeStep(n) PROVE UNCHANGED faults \/ \E k : Fault(k)
  BY <1>1 DEF NodeStep, Boot, pruneDeadWorkers, pruneRelease, planReconcile, stopWorker, Stopped,
     StopsDone, Halt, SkipCandidate, AcquireCandidate, StartWorker, StartsDone, shutdown,
     releaseLease, CallFails
<1>2. ASSUME NEW n \in Nodes, NodeFault(n) PROVE UNCHANGED faults \/ \E k : Fault(k)
  BY <1>2 DEF NodeFault, ListFailed, StopTimedOut, InputsFailed, Cancel, Crash, CallFails
<1>3. ASSUME NEW n \in Nodes, NEW g \in Groups, WorkerStep(n, g)
      PROVE  UNCHANGED faults \/ \E k : Fault(k)
  BY <1>3 DEF WorkerStep, RenewGroupLease, LeaseLost, finish, finishOrphan
<1>4. CASE \/ UNCHANGED vars \/ Tick
           \/ \E g \in Groups : UpdateGroupDesiredStatus(g) \/ DeleteGroup(g) \/ CreateGroup(g)
  BY <1>4 DEF vars, Tick, UpdateGroupDesiredStatus, DeleteGroup, CreateGroup
<1> QED
  BY <1>1, <1>2, <1>3, <1>4 DEF Next

(* A fault is the last of the log, after the ones before it. *)
LEMMA FaultLogged ==
  ASSUME LoopInv, NEW k, Fault(k)
  PROVE  /\ \E i \in DOMAIN faults' : faults'[i] = k
         /\ \A i \in DOMAIN faults : i \in DOMAIN faults' /\ faults'[i] = faults[i]
<1>1. faults \in Seq(FaultKinds) /\ k \in FaultKinds /\ faults' = Append(faults, k)
  BY DEF LoopInv, Types, StoreTypes, Logged, Fault
<1>2. Len(faults) \in Nat /\ DOMAIN faults = 1 .. Len(faults)
  BY <1>1
<1>3. DOMAIN faults' = 1 .. Len(faults) + 1 /\ faults'[Len(faults) + 1] = k
  BY <1>1, <1>2
<1>4. \A i \in 1 .. Len(faults) : faults'[i] = faults[i]
  BY <1>1
<1> QED
  BY <1>2, <1>3, <1>4

LEMMA PunctualPast ==
  ASSUME LoopInv, [Next]_vars, Punctual'
  PROVE  Punctual
BY FaultsOnlyAdded, FaultLogged DEF Punctual

LEMMA PunctualStep ==
  ASSUME LoopInv, Punctual'
  PROVE  ~Fault("timeout") /\ ~Fault("delete") /\ ~Fault("late")
BY FaultLogged DEF Punctual

(* A node that consumes a group, or is about to. *)
Uses(n, g) == Consuming(n, g) \/ (npc[n] = "inputs" /\ target[n] = g)

LeaseInv ==
  /\ \A n \in Nodes, g \in Groups : orphans[n][g] = 0
  /\ \A n \in Nodes, g \in Groups : Uses(n, g) => leaseOwner[g] = n /\ left[g] >= 0

LEMMA LeaseInit == Init => LeaseInv
BY DEF Init, LeaseInv, Uses, Consuming

LEMMA NoOrphans ==
  ASSUME Punctual', LoopInv, LeaseInv, [Next]_vars
  PROVE  \A n \in Nodes, g \in Groups : orphans'[n][g] = 0
<1> USE DEF LeaseInv, LoopInv, Types, WorkerTypes, workers
<1>1. ASSUME NEW n \in Nodes, NodeStep(n) PROVE \A m \in Nodes, g \in Groups : orphans'[m][g] = 0
  BY <1>1 DEF NodeStep, Boot, pruneDeadWorkers, pruneRelease, planReconcile, stopWorker, Stopped,
     StopsDone, Halt, SkipCandidate, AcquireCandidate, StartWorker, StartsDone, shutdown
<1>2. ASSUME NEW n \in Nodes, NodeFault(n) PROVE \A m \in Nodes, g \in Groups : orphans'[m][g] = 0
  <2>1. ~StopTimedOut(n)
    BY PunctualStep DEF StopTimedOut
  <2> QED
    BY <1>2, <2>1 DEF NodeFault, ListFailed, InputsFailed, Cancel, Crash
<1>3. ASSUME NEW n \in Nodes, NEW g \in Groups, WorkerStep(n, g) PROVE UNCHANGED orphans
  BY <1>3 DEF WorkerStep, RenewGroupLease, LeaseLost, finish, finishOrphan
<1>4. CASE \/ UNCHANGED vars \/ Tick
           \/ \E g \in Groups : UpdateGroupDesiredStatus(g) \/ DeleteGroup(g) \/ CreateGroup(g)
  BY <1>4 DEF vars, Tick, UpdateGroupDesiredStatus, DeleteGroup, CreateGroup
<1> QED
  BY <1>1, <1>2, <1>3, <1>4 DEF Next

(* A node comes to use a group by acquiring its lease. *)
LEMMA UseBegins ==
  ASSUME Punctual', LoopInv, LeaseInv, [Next]_vars, NEW n \in Nodes, NEW g \in Groups,
         Uses(n, g)', ~Uses(n, g)
  PROVE  AcquireCandidate(n) /\ g = First(cand[n])
<1> USE DEF LoopInv, Types, LoopTypes, WorkerTypes, store, loop, workers, Goto
<1>1. orphans[n][g] = 0 /\ orphans'[n][g] = 0
  BY NoOrphans DEF LeaseInv
<1>2. wk'[n][g] \in {"run", "cancel", "drain"} \/ (npc'[n] = "inputs" /\ target'[n] = g)
  BY <1>1 DEF Uses, Consuming
<1>3. wk[n][g] \notin {"run", "cancel", "drain"} /\ ~(npc[n] = "inputs" /\ target[n] = g)
  BY DEF Uses, Consuming
<1>4. ~NodeFault(n)
  BY <1>2, <1>3 DEF NodeFault, ListFailed, StopTimedOut, InputsFailed, Cancel, Crash
<1>5. CASE NodeStep(n)
  <2>1. ~(\/ Boot(n) \/ pruneDeadWorkers(n) \/ pruneRelease(n) \/ planReconcile(n) \/ Stopped(n)
          \/ StopsDone(n) \/ Halt(n))
    BY <1>2, <1>3 DEF Boot, pruneDeadWorkers, pruneRelease, planReconcile, Stopped, StopsDone, Halt
  <2>2. ~(SkipCandidate(n) \/ StartsDone(n) \/ shutdown(n))
    BY <1>2, <1>3 DEF SkipCandidate, StartsDone, shutdown
  <2>3. ~StartWorker(n)
    BY <1>2, <1>3 DEF StartWorker
  <2>4. ~stopWorker(n)
    <3> SUFFICES ASSUME stopWorker(n) PROVE FALSE
      OBVIOUS
    <3>1. PICK h \in todo[n] : wk' = [wk EXCEPT ![n][h] = IF @ = "run" THEN "cancel" ELSE @]
      BY StopPicks
    <3>2. npc'[n] = "wait"
      BY DEF stopWorker
    <3> QED
      BY <1>2, <1>3, <3>1, <3>2
  <2>5. AcquireCandidate(n)
    BY <1>5, <2>1, <2>2, <2>3, <2>4 DEF NodeStep
  <2> QED
    BY <1>2, <1>3, <2>5 DEF AcquireCandidate
<1>6. CASE SameNode(n) /\ ~NodeStep(n)
  <2>1. wk'[n][g] \in {"run", "cancel", "drain"}
    BY <1>2, <1>3, <1>6 DEF SameNode
  <2>2. wk[n][g] = "done"
    BY <1>3, <1>6, <2>1 DEF SameNode, Phases
  <2>3. ASSUME NEW m \in Nodes, m # n, NodeStep(m) \/ NodeFault(m) PROVE wk'[n][g] = "done"
    BY <2>2, <2>3 DEF NodeStep, NodeFault, Boot, pruneDeadWorkers, pruneRelease, planReconcile,
       stopWorker, Stopped, StopsDone, Halt, SkipCandidate, AcquireCandidate, StartWorker,
       StartsDone, shutdown, ListFailed, StopTimedOut, InputsFailed, Cancel, Crash
  <2>4. ASSUME NEW m \in Nodes, NEW h \in Groups, WorkerStep(m, h) PROVE wk'[n][g] = "done"
    BY <2>2, <2>4 DEF WorkerStep, RenewGroupLease, LeaseLost, finish, finishOrphan
  <2>5. ASSUME \/ UNCHANGED vars \/ Tick
               \/ \E h \in Groups :
                    UpdateGroupDesiredStatus(h) \/ DeleteGroup(h) \/ CreateGroup(h)
        PROVE  wk'[n][g] = "done"
    BY <2>2, <2>5 DEF vars, Tick, UpdateGroupDesiredStatus, DeleteGroup, CreateGroup
  <2> QED
    BY <1>4, <1>6, <2>1, <2>3, <2>4, <2>5 DEF Next
<1> QED
  BY <1>4, <1>5, <1>6, OwnSteps

(* Nobody takes a lease from a node that uses the group. *)
LEMMA NotAcquirable ==
  ASSUME LoopInv, LeaseInv, NEW n \in Nodes, NEW g \in Groups, Uses(n, g),
         NEW m \in Nodes, Acquirable(g, m)
  PROVE  m = n
<1>1. leaseOwner[g] = n /\ left[g] >= 0 /\ left[g] \in Int
  BY TTLAssumption DEF LeaseInv, LoopInv, Types, StoreTypes
<1> QED
  BY <1>1, NodesAssumption DEF Acquirable

LEMMA LeaseKept ==
  ASSUME Punctual', LoopInv, LeaseInv, [Next]_vars, NEW n \in Nodes, NEW g \in Groups,
         Uses(n, g), Uses(n, g)'
  PROVE  leaseOwner'[g] = n /\ left'[g] >= 0
<1> USE DEF LoopInv, Types, StoreTypes
<1>1. leaseOwner[g] = n /\ left[g] >= 0 /\ left[g] \in Int /\ TTL \in Nat
  BY TTLAssumption DEF LeaseInv
<1>2. orphans[n][g] = 0 /\ orphans'[n][g] = 0
  BY NoOrphans DEF LeaseInv
<1>3. \A m \in Nodes : NodeInv(m) /\ npc[m] \in NodePCs
  BY DEF LoopTypes
<1>4. ASSUME NEW m \in Nodes, NEW h \in Groups, TryAcquireGroupLease(h, m)
      PROVE  leaseOwner'[g] = n /\ left'[g] >= 0
  BY <1>1, <1>4, NotAcquirable DEF TryAcquireGroupLease
<1>5. ASSUME NEW m \in Nodes, NEW h \in Groups, m # n \/ h # g, ReleaseGroupLease(h, m)
      PROVE  leaseOwner'[g] = n /\ left'[g] >= 0
  BY <1>1, <1>5 DEF ReleaseGroupLease
<1>6. ASSUME NEW m \in Nodes, NodeStep(m) PROVE leaseOwner'[g] = n /\ left'[g] >= 0
  <2>1. CASE pruneRelease(m)
    <3>1. PICK h \in todo[m] : releaseLease(h, m)
      BY <2>1 DEF pruneRelease
    <3>2. h \in Groups /\ wk[m][h] = "none" /\ npc[m] = "prune"
      BY <1>3, <2>1, <3>1 DEF NodeInv, Planned, pruneRelease, LoopTypes
    <3>3. m # n \/ h # g
      BY <1>2, <3>2 DEF Uses, Consuming
    <3> QED
      BY <1>1, <1>5, <3>1, <3>2, <3>3 DEF releaseLease
  <2>2. CASE Stopped(m)
    <3>1. target[m] \in Groups /\ npc[m] = "wait" /\ wk[m][target[m]] = "done"
      BY <1>3, <2>2 DEF Stopped, NodeInv, Busy, LoopTypes
    <3>2. m # n \/ target[m] # g
      BY <1>2, <3>1 DEF Uses, Consuming
    <3> QED
      BY <1>1, <1>5, <2>2, <3>1, <3>2 DEF Stopped, releaseLease
  <2>3. CASE SkipCandidate(m)
    <3>1. First(cand[m]) \in Groups
      BY <2>3, StartPicks DEF SkipCandidate
    <3> QED
      BY <1>1, <1>4, <2>3, <3>1 DEF SkipCandidate
  <2>4. CASE AcquireCandidate(m)
    <3>1. First(cand[m]) \in Groups
      BY <2>4, StartPicks DEF AcquireCandidate
    <3> QED
      BY <1>4, <2>4, <3>1 DEF AcquireCandidate
  <2> QED
    BY <1>1, <1>6, <2>1, <2>2, <2>3, <2>4 DEF NodeStep, Boot, pruneDeadWorkers, planReconcile,
       stopWorker, StopsDone, Halt, StartWorker, StartsDone, shutdown, store
<1>7. ASSUME NEW m \in Nodes, NodeFault(m) PROVE leaseOwner'[g] = n /\ left'[g] >= 0
  <2>1. CASE InputsFailed(m)
    <3>1. target[m] \in Groups /\ npc[m] = "inputs" /\ wk[m][target[m]] = "none"
      BY <1>3, <2>1 DEF InputsFailed, NodeInv, Busy, LoopTypes
    <3>2. m = n => npc'[n] = "start" /\ wk'[n] = wk[n]
      BY <2>1 DEF InputsFailed, Goto, workers, LoopTypes
    <3>3. m # n \/ target[m] # g
      BY <1>2, <3>1, <3>2 DEF Uses, Consuming
    <3> QED
      BY <1>5, <2>1, <3>1, <3>3 DEF InputsFailed
  <2> QED
    BY <1>1, <1>7, <2>1 DEF NodeFault, ListFailed, StopTimedOut, Cancel, Crash, store
<1>8. ASSUME NEW m \in Nodes, NEW h \in Groups, WorkerStep(m, h)
      PROVE  leaseOwner'[g] = n /\ left'[g] >= 0
  BY <1>1, <1>8 DEF WorkerStep, RenewGroupLease, LeaseLost, finish, finishOrphan, store
<1>9. CASE Tick
  <2>1. \A h \in Groups : OnTime(h)
    BY <1>9, PunctualStep DEF Tick
  <2>2. left[g] > 0
    BY <1>1, <2>1 DEF OnTime, Uses
  <2> QED
    BY <1>1, <1>9, <2>2 DEF Tick
<1>10. CASE \/ UNCHANGED vars
            \/ \E h \in Groups : UpdateGroupDesiredStatus(h) \/ DeleteGroup(h) \/ CreateGroup(h)
  <2>1. \A h \in Groups : ~DeleteGroup(h)
    BY PunctualStep DEF DeleteGroup
  <2> QED
    BY <1>1, <1>10, <2>1 DEF vars, store, UpdateGroupDesiredStatus, CreateGroup
<1> QED
  BY <1>6, <1>7, <1>8, <1>9, <1>10 DEF Next

(* A group is processed by at most one node, as Node promises: for every    *)
(* interleaving of the nodes' passes, acquisitions, renewals, drains,       *)
(* crashes and shutdowns, until a stop times out, a group is deleted or a   *)
(* start, renewal or drain outlasts the lease.                              *)
THEOREM OneNodeConsumes == Spec => []OneNodeWhilePunctual
<1>1. ASSUME LoopInv, LeaseInv, Punctual', [Next]_vars PROVE LeaseInv'
  <2>1. \A n \in Nodes, g \in Groups : orphans'[n][g] = 0
    BY <1>1, NoOrphans
  <2>2. ASSUME NEW n \in Nodes, NEW g \in Groups, Uses(n, g)'
        PROVE  leaseOwner'[g] = n /\ left'[g] >= 0
    <3>1. CASE Uses(n, g)
      BY <1>1, <2>2, <3>1, LeaseKept
    <3>2. CASE ~Uses(n, g)
      <4>1. AcquireCandidate(n) /\ g = First(cand[n])
        BY <1>1, <2>2, <3>2, UseBegins
      <4> QED
        BY <1>1, <4>1, TTLAssumption DEF AcquireCandidate, TryAcquireGroupLease, LoopInv, Types,
           StoreTypes
    <3> QED
      BY <3>1, <3>2
  <2> QED
    BY <2>1, <2>2 DEF LeaseInv
<1>2. LoopInv /\ (Punctual => LeaseInv) /\ [Next]_vars => (Punctual => LeaseInv)'
  BY <1>1, PunctualPast
<1>3. (Punctual => LeaseInv) => OneNodeWhilePunctual
  BY DEF LeaseInv, Uses, AtMostOneNode, OneNodeWhilePunctual
<1> QED
  BY <1>2, <1>3, LeaseInit, Invariant, PTL DEF Spec

-----------------------------------------------------------------------------
(* The weight of a set of groups.  Counted as units it is the cardinality   *)
(* of a set, which shows that the fold in CurrentWeight is a sum whatever   *)
(* order it visits the groups in.                                           *)
SumOf(S) == MapThenSumSet(groupWeight, S)

UnitsOf(g) == {g} \X (1 .. groupWeight(g))

Units(S) == UNION {UnitsOf(g) : g \in S}

Pick(s) == CHOOSE x \in s : TRUE

AddsUp(f, S) ==
  f = [s \in SUBSET S |->
         IF s = {} THEN 0 ELSE groupWeight(Pick(s)) + f[s \ {Pick(s)}]]

LEMMA WeightType ==
  ASSUME NEW g \in Groups
  PROVE  groupWeight(g) \in Nat
BY WeightAssumption DEF groupWeight

LEMMA UnitsOfGroup ==
  ASSUME NEW g \in Groups
  PROVE  IsFiniteSet(UnitsOf(g)) /\ Cardinality(UnitsOf(g)) = groupWeight(g)
<1>1. groupWeight(g) \in Nat
  BY WeightType
<1>2. IsFiniteSet({g}) /\ Cardinality({g}) = 1
  BY FS_Singleton
<1>3. IsFiniteSet(1 .. groupWeight(g)) /\ Cardinality(1 .. groupWeight(g)) = groupWeight(g)
  BY <1>1, FS_Interval
<1>4. /\ IsFiniteSet({g} \X (1 .. groupWeight(g)))
      /\ Cardinality({g} \X (1 .. groupWeight(g))) =
           Cardinality({g}) * Cardinality(1 .. groupWeight(g))
  BY <1>2, <1>3, FS_Product, Zenon
<1> QED
  BY <1>1, <1>2, <1>3, <1>4 DEF UnitsOf

LEMMA UnitsFinite ==
  ASSUME NEW S, S \subseteq Groups
  PROVE  IsFiniteSet(Units(S)) /\ Cardinality(Units(S)) \in Nat
<1> DEFINE T == {UnitsOf(g) : g \in S}
           f == [g \in S |-> UnitsOf(g)]
<1>1. f \in Surjection(S, T)
  BY DEF Surjection
<1>2. IsFiniteSet(S)
  BY FiniteGroups
<1>3. IsFiniteSet(T)
  <2> HIDE DEF f, T
  <2> QED
    BY <1>1, <1>2, FS_Surjection
<1>4. \A U \in T : IsFiniteSet(U)
  BY UnitsOfGroup
<1>5. IsFiniteSet(UNION T)
  <2> HIDE DEF T
  <2> QED
    BY <1>3, <1>4, FS_UNION
<1> QED
  BY <1>5, FS_CardinalityType DEF Units

LEMMA UnitsAdd ==
  ASSUME NEW S, S \subseteq Groups, NEW g \in Groups, g \notin S
  PROVE  Cardinality(Units(S \cup {g})) = Cardinality(Units(S)) + groupWeight(g)
<1>1. Units(S \cup {g}) = Units(S) \cup UnitsOf(g)
  BY DEF Units
<1>2. Units(S) \cap UnitsOf(g) = {}
  BY DEF Units, UnitsOf
<1>3. IsFiniteSet(Units(S)) /\ Cardinality(Units(S)) \in Nat
  BY UnitsFinite
<1>4. IsFiniteSet(UnitsOf(g)) /\ Cardinality(UnitsOf(g)) = groupWeight(g)
  BY UnitsOfGroup
<1>5. Cardinality(Units(S) \cup UnitsOf(g)) =
        Cardinality(Units(S)) + Cardinality(UnitsOf(g)) - Cardinality(Units(S) \cap UnitsOf(g))
  BY <1>3, <1>4, FS_Union
<1>6. Cardinality(Units(S) \cap UnitsOf(g)) = 0
  BY <1>2, FS_EmptySet
<1>7. groupWeight(g) \in Nat
  BY WeightType
<1>8. Cardinality(Units(S) \cup UnitsOf(g)) = Cardinality(Units(S)) + groupWeight(g)
  BY <1>3, <1>4, <1>5, <1>6, <1>7
<1> QED
  BY <1>1, <1>8

LEMMA UnitsMonotone ==
  ASSUME NEW S, S \subseteq Groups, NEW T, T \subseteq S
  PROVE  Cardinality(Units(T)) <= Cardinality(Units(S))
<1>1. Units(T) \in SUBSET Units(S)
  BY DEF Units
<1> QED
  BY <1>1, UnitsFinite, FS_Subset

LEMMA FoldExists ==
  ASSUME NEW S, S \subseteq Groups
  PROVE  \E f : AddsUp(f, S)
<1> DEFINE f == [s \in SUBSET S |-> Cardinality(Units(s))]
<1>1. ASSUME NEW s \in SUBSET S
      PROVE  Cardinality(Units(s)) =
               IF s = {} THEN 0 ELSE groupWeight(Pick(s)) + f[s \ {Pick(s)}]
  <2>1. CASE s = {}
    <3>1. Units(s) = {}
      BY <2>1 DEF Units
    <3> QED
      BY <2>1, <3>1, FS_EmptySet
  <2>2. CASE s # {}
    <3>1. Pick(s) \in s
      BY <2>2 DEF Pick
    <3> DEFINE x == Pick(s)
               r == s \ {x}
    <3>2. x \in Groups /\ x \notin r /\ r \subseteq Groups /\ r \in SUBSET S /\ s = r \cup {x}
      BY <3>1
    <3> HIDE DEF r, x
    <3>3. Cardinality(Units(s)) = Cardinality(Units(r)) + groupWeight(x)
      BY <3>2, UnitsAdd
    <3>4. Cardinality(Units(r)) \in Nat /\ groupWeight(x) \in Nat
      BY <3>2, UnitsFinite, WeightType
    <3>5. Cardinality(Units(s)) = groupWeight(x) + f[r]
      BY <3>2, <3>3, <3>4
    <3> QED
      BY <2>2, <3>5 DEF r, x
  <2> QED
    BY <2>1, <2>2
<1>2. f = [s \in SUBSET S |->
             IF s = {} THEN 0 ELSE groupWeight(Pick(s)) + f[s \ {Pick(s)}]]
  BY <1>1
<1> QED
  BY <1>2 DEF AddsUp

(* Whatever satisfies the fold's equation counts units: a smallest set for  *)
(* which it did not would lose one element and still not do so.             *)
LEMMA FoldCounts ==
  ASSUME NEW S, S \subseteq Groups, NEW f, AddsUp(f, S)
  PROVE  \A s \in SUBSET S : f[s] = Cardinality(Units(s))
<1> DEFINE Bad == {s \in SUBSET S : f[s] # Cardinality(Units(s))}
           Sizes == {k \in Nat : \E s \in Bad : Cardinality(s) = k}
<1> SUFFICES ASSUME Bad # {} PROVE FALSE
  OBVIOUS
<1>1. Sizes \subseteq Nat /\ Sizes # {}
  BY FiniteGroups
<1>2. PICK k \in Sizes : \A j \in Sizes : k <= j
  <2> HIDE DEF Sizes
  <2> QED
    BY <1>1, LeastNumber
<1>3. PICK s \in Bad : Cardinality(s) = k
  BY <1>2
<1>4. f[s] = IF s = {} THEN 0 ELSE groupWeight(Pick(s)) + f[s \ {Pick(s)}]
  BY <1>3 DEF AddsUp
<1>5. s # {}
  <2> SUFFICES ASSUME s = {} PROVE FALSE
    OBVIOUS
  <2>1. Units(s) = {}
    BY DEF Units
  <2> QED
    BY <1>3, <1>4, <2>1, FS_EmptySet
<1> DEFINE x == Pick(s)
           r == s \ {x}
<1>6. x \in s
  BY <1>5 DEF Pick
<1>7. x \in Groups /\ x \notin r /\ r \subseteq Groups /\ r \in SUBSET S /\ s = r \cup {x}
  BY <1>3, <1>6
<1>8. f[s] = groupWeight(x) + f[r]
  BY <1>4, <1>5
<1> HIDE DEF x, r
<1>9. IsFiniteSet(s) /\ Cardinality(s) \in Nat /\ Cardinality(r) \in Nat /\ IsFiniteSet(r)
  BY <1>7, FiniteGroups
<1>10. Cardinality(s) = Cardinality(r) + 1
  BY <1>7, <1>9, FS_AddElement
<1>11. r \notin Bad
  BY <1>2, <1>3, <1>9, <1>10
<1>12. f[r] = Cardinality(Units(r))
  BY <1>7, <1>11
<1>13. Cardinality(Units(s)) = Cardinality(Units(r)) + groupWeight(x)
  BY <1>7, UnitsAdd
<1>14. Cardinality(Units(r)) \in Nat /\ groupWeight(x) \in Nat
  BY <1>7, UnitsFinite, WeightType
<1> QED
  BY <1>3, <1>8, <1>12, <1>13, <1>14

LEMMA SumCounts ==
  ASSUME NEW S, S \subseteq Groups
  PROVE  SumOf(S) = Cardinality(Units(S))
<1> DEFINE f == CHOOSE h : AddsUp(h, S)
<1>1. SumOf(S) = f[S]
  BY DEF SumOf, MapThenSumSet, MapThenFoldSet, AddsUp, Pick
<1>2. AddsUp(f, S)
  BY FoldExists
<1> HIDE DEF f
<1> QED
  BY <1>1, <1>2, FoldCounts

-----------------------------------------------------------------------------
(* Capacity.  While a pass stops and starts, what it does not stop and the  *)
(* slots it has left fit into MaxGroups together.                           *)
Pass == {"stop", "wait", "start", "inputs"}

GroupsFit(n) ==
  MaxGroups[n] > 0 =>
    /\ Cardinality(Running(n)) <= MaxGroups[n]
    /\ npc[n] \in Pass => Cardinality(Running(n) \ todo[n]) + slots[n] <= MaxGroups[n]

(* The group about to be started fits as well. *)
WeightFits(n) ==
  MaxWeight[n] > 0 =>
    /\ SumOf(Running(n)) <= MaxWeight[n]
    /\ npc[n] = "inputs" => SumOf(Running(n)) + groupWeight(target[n]) <= MaxWeight[n]

CapacityInv == \A n \in Nodes : GroupsFit(n) /\ WeightFits(n)

LEMMA RunningGroups == \A n \in Nodes : Running(n) \subseteq Groups /\ (Running(n) \subseteq Groups)'
BY DEF Running

LEMMA CapacityInit == Init => CapacityInv
<1> SUFFICES ASSUME Init, NEW n \in Nodes PROVE GroupsFit(n) /\ WeightFits(n)
  BY DEF CapacityInv
<1>1. Running(n) = {} /\ npc[n] = "down"
  BY DEF Init, Running
<1>2. Units({}) = {} /\ Cardinality({}) = 0
  BY FS_EmptySet DEF Units
<1>3. SumOf({}) = 0
  BY <1>2, SumCounts
<1> QED
  BY <1>1, <1>2, <1>3, LimitsAssumption DEF GroupsFit, WeightFits, Pass

(* A step that starts nothing and makes no plan. *)
LEMMA FewerGroups ==
  ASSUME LoopInv, Types', NEW n \in Nodes, GroupsFit(n), Running(n)' \subseteq Running(n),
         npc'[n] \in Pass =>
           /\ npc[n] \in Pass
           /\ Running(n)' \ todo'[n] \subseteq Running(n) \ todo[n]
           /\ slots'[n] <= slots[n]
  PROVE  GroupsFit(n)'
<1> SUFFICES ASSUME MaxGroups[n] > 0
             PROVE  /\ Cardinality(Running(n)') <= MaxGroups[n]
                    /\ npc'[n] \in Pass =>
                         Cardinality(Running(n)' \ todo'[n]) + slots'[n] <= MaxGroups[n]
  BY DEF GroupsFit, Pass
<1> DEFINE R == Running(n)
           D == Running(n) \ todo[n]
           Q == Running(n)'
           E == Running(n)' \ todo'[n]
<1>1. R \subseteq Groups /\ D \subseteq Groups /\ Q \subseteq R
  BY RunningGroups
<1>2. npc'[n] \in Pass => E \subseteq D /\ slots'[n] <= slots[n] /\ npc[n] \in Pass
  OBVIOUS
<1>3. Cardinality(R) <= MaxGroups[n] /\ (npc[n] \in Pass => Cardinality(D) + slots[n] <= MaxGroups[n])
  BY DEF GroupsFit
<1>4. slots[n] \in Nat /\ slots'[n] \in Nat /\ MaxGroups[n] \in Nat
  BY LimitsAssumption DEF LoopInv, Types, LoopTypes
<1> HIDE DEF R, D, Q, E
<1>5. Cardinality(Q) <= Cardinality(R) /\ Cardinality(Q) \in Nat /\ Cardinality(R) \in Nat
  BY <1>1, FiniteGroups, FS_Subset
<1>6. npc'[n] \in Pass =>
        Cardinality(E) <= Cardinality(D) /\ Cardinality(E) \in Nat /\ Cardinality(D) \in Nat
  BY <1>1, <1>2, FiniteGroups, FS_Subset
<1>7. Cardinality(Q) <= MaxGroups[n]
  BY <1>3, <1>4, <1>5
<1>8. npc'[n] \in Pass => Cardinality(E) + slots'[n] <= MaxGroups[n]
  BY <1>2, <1>3, <1>4, <1>6
<1> QED
  BY <1>7, <1>8 DEF Q, E

LEMMA GroupsStillFit ==
  ASSUME LoopInv, Types', NEW n \in Nodes, GroupsFit(n),
         SameNode(n) \/ NodeStep(n) \/ NodeFault(n)
  PROVE  GroupsFit(n)'
<1>f. ASSUME Running(n)' \subseteq Running(n),
             npc'[n] \in Pass =>
               /\ npc[n] \in Pass
               /\ Running(n)' \ todo'[n] \subseteq Running(n) \ todo[n]
               /\ slots'[n] = slots[n]
      PROVE  GroupsFit(n)'
  <2>1. slots[n] \in Nat
    BY DEF LoopInv, Types, LoopTypes
  <2>2. npc'[n] \in Pass => slots'[n] <= slots[n]
    BY <1>f, <2>1
  <2> QED
    BY <1>f, <2>2, FewerGroups
<1>g. ASSUME Cardinality(Running(n)') <= MaxGroups[n] \/ MaxGroups[n] = 0,
             Cardinality(Running(n)' \ todo'[n]) + slots'[n] <= MaxGroups[n] \/ MaxGroups[n] = 0
      PROVE  GroupsFit(n)'
  BY <1>g DEF GroupsFit
<1>h. MaxGroups[n] = 0 \/ (MaxGroups[n] > 0 /\ MaxGroups[n] \in Nat)
  BY LimitsAssumption
<1>i. MaxGroups[n] > 0 =>
        /\ Cardinality(Running(n)) <= MaxGroups[n]
        /\ npc[n] \in Pass => Cardinality(Running(n) \ todo[n]) + slots[n] <= MaxGroups[n]
  BY DEF GroupsFit
<1> USE DEF LoopInv, Types, LoopTypes, WorkerTypes, store, loop, workers, Goto
<1>0. /\ NodeInv(n) /\ NoGroup \notin Groups /\ npc[n] \in NodePCs /\ slots[n] \in Nat
      /\ slots'[n] \in Nat
  BY NoGroupIsNone
<1>a. SameNode(n) => Running(n)' = Running(n)
  BY SameNodeKeeps
<1>b. NodeFault(n) => Running(n)' \subseteq Running(n)
  BY FaultKeeps
<1>c. NodeStep(n) => Running(n)' \subseteq Running(n) \/ Grows(n)
  BY NodeKeeps
<1>1. CASE SameNode(n)
  BY <1>1, <1>a, <1>f DEF SameNode
<1>2. CASE NodeFault(n)
  <2>1. CASE Cancel(n) \/ InputsFailed(n)
    <3>1. UNCHANGED <<todo, slots>> /\ (npc'[n] \in Pass => npc[n] \in Pass)
      BY <2>1 DEF Cancel, InputsFailed, Pass
    <3> QED
      BY <1>2, <1>b, <1>f, <3>1
  <2>2. CASE StopTimedOut(n)
    <3>1. UNCHANGED <<todo, slots>> /\ npc[n] \in Pass
      BY <2>2 DEF StopTimedOut, Pass
    <3> QED
      BY <1>2, <1>b, <1>f, <3>1
  <2>3. CASE ListFailed(n) \/ Crash(n)
    <3>1. npc'[n] \notin Pass
      BY <2>3 DEF ListFailed, Crash, Pass
    <3> QED
      BY <1>2, <1>b, <1>f, <3>1
  <2> QED
    BY <1>2, <2>1, <2>2, <2>3 DEF NodeFault
<1>3. CASE planReconcile(n)
  <2>1. Running(n)' = Running(n)
    BY <1>3 DEF planReconcile, Running
  <2>2. todo'[n] = ToStop(n) /\ slots'[n] = StartSlots(n)
    BY <1>3 DEF planReconcile
  <2> QED
    BY <2>1, <2>2, SlotsOfPlan DEF GroupsFit
<1>4. CASE shutdown(n)
  <2>1. Running(n)' = Running(n) /\ todo'[n] = Running(n) /\ slots'[n] = 0
    BY <1>0, <1>4 DEF shutdown, Running, NodeInv, Fresh
  <2>2. Running(n)' \ todo'[n] = {} /\ Cardinality({}) = 0
    BY <2>1, FS_EmptySet
  <2>3. Cardinality(Running(n)' \ todo'[n]) = 0 /\ Cardinality(Running(n)') = Cardinality(Running(n))
    BY <2>1, <2>2, Zenon
  <2> QED
    BY <1>g, <1>h, <1>i, <2>1, <2>3
<1>5. CASE StartWorker(n)
  <2>1. Grows(n)
    <3>1. target[n] \in Groups
      BY <1>0, <1>5 DEF StartWorker, NodeInv, Busy
    <3> QED
      BY <1>0, <1>5, <3>1 DEF StartWorker, Grows, Running, NodeInv, Busy
  <2>2. todo[n] = {} /\ todo'[n] = {}
    BY <1>0, <1>5 DEF StartWorker, NodeInv, Planned
  <2>3. IsFiniteSet(Running(n)) /\ Cardinality(Running(n)) \in Nat
    BY RunningGroups, FiniteGroups
  <2>4. Cardinality(Running(n) \cup {target[n]}) = Cardinality(Running(n)) + 1
    BY <2>1, <2>3, FS_AddElement DEF Grows
  <2>5. Running(n) \ todo[n] = Running(n) /\ Running(n)' \ todo'[n] = Running(n)'
    BY <2>2
  <2>6. Running(n)' = Running(n) \cup {target[n]} /\ slots'[n] = slots[n] - 1 /\ npc[n] \in Pass
    BY <2>1 DEF Grows, Pass
  <2> QED
    <3>0. /\ Cardinality(Running(n) \ todo[n]) = Cardinality(Running(n))
          /\ Cardinality(Running(n)' \ todo'[n]) = Cardinality(Running(n)')
          /\ Cardinality(Running(n)') = Cardinality(Running(n) \cup {target[n]})
      BY <2>5, <2>6, Zenon
    <3>1. MaxGroups[n] > 0 => Cardinality(Running(n)') + slots'[n] <= MaxGroups[n]
      BY <1>0, <1>h, <1>i, <2>3, <2>4, <2>6, <3>0
    <3>2. MaxGroups[n] > 0 => Cardinality(Running(n)') <= MaxGroups[n]
      BY <1>0, <1>h, <2>3, <2>4, <2>6, <3>0, <3>1
    <3> QED
      BY <1>g, <1>h, <3>0, <3>1, <3>2
<1>6. CASE NodeStep(n) /\ ~StartWorker(n) /\ ~planReconcile(n) /\ ~shutdown(n)
  <2>1. Running(n)' \subseteq Running(n)
    <3>1. ~Grows(n)
      BY <1>6 DEF Grows, NodeStep, Boot, pruneDeadWorkers, pruneRelease, stopWorker, Stopped,
         StopsDone, Halt, SkipCandidate, AcquireCandidate, StartsDone
    <3> QED
      BY <1>6, <1>c, <3>1
  <2>2. CASE Boot(n) \/ pruneDeadWorkers(n) \/ pruneRelease(n) \/ Halt(n) \/ StartsDone(n)
    <3>1. npc'[n] \notin Pass
      BY <2>2 DEF Boot, pruneDeadWorkers, pruneRelease, Halt, StartsDone, Pass
    <3> QED
      BY <1>f, <2>1, <3>1
  <2>3. CASE Stopped(n) \/ StopsDone(n) \/ SkipCandidate(n) \/ AcquireCandidate(n)
    <3>1. todo'[n] = todo[n] /\ slots'[n] = slots[n] /\ npc[n] \in Pass
      BY <2>3 DEF Stopped, StopsDone, SkipCandidate, SlotsAfterSkip, AcquireCandidate, Pass
    <3> QED
      BY <1>f, <2>1, <3>1
  <2>4. CASE stopWorker(n)
    <3>1. PICK g \in todo[n] : todo' = [todo EXCEPT ![n] = @ \ {g}] /\ target' = [target EXCEPT ![n] = g]
      BY <2>4, StopPicks
    <3>2. npc'[n] = "wait" /\ slots'[n] = slots[n] /\ npc[n] \in Pass
      BY <2>4 DEF stopWorker, Pass
    <3>3. g \notin Running(n)' /\ todo'[n] = todo[n] \ {g}
      BY <3>1, <3>2 DEF Running
    <3> QED
      BY <1>f, <2>1, <3>2, <3>3
  <2> QED
    BY <1>6, <2>2, <2>3, <2>4 DEF NodeStep
<1> QED
  BY <1>1, <1>2, <1>3, <1>4, <1>5, <1>6

LEMMA WeightStillFits ==
  ASSUME LoopInv, NEW n \in Nodes, WeightFits(n), SameNode(n) \/ NodeStep(n) \/ NodeFault(n)
  PROVE  WeightFits(n)'
<1>1. MaxWeight[n] \in Nat
  BY LimitsAssumption
<1> SUFFICES ASSUME MaxWeight[n] > 0
             PROVE  /\ SumOf(Running(n)') <= MaxWeight[n]
                    /\ npc'[n] = "inputs" =>
                         SumOf(Running(n)') + groupWeight(target'[n]) <= MaxWeight[n]
  BY DEF WeightFits
<1>2. /\ SumOf(Running(n)) <= MaxWeight[n]
      /\ npc[n] = "inputs" => SumOf(Running(n)) + groupWeight(target[n]) <= MaxWeight[n]
  BY DEF WeightFits
<1>3. SumOf(Running(n)) = Cardinality(Units(Running(n))) /\ SumOf(Running(n)) \in Nat
  BY RunningGroups, SumCounts, UnitsFinite
<1>4. SumOf(Running(n)') = Cardinality(Units(Running(n)')) /\ SumOf(Running(n)') \in Nat
  BY RunningGroups, SumCounts, UnitsFinite
<1>5. Running(n)' \subseteq Running(n) \/ Grows(n)
  BY SameNodeKeeps, NodeKeeps, FaultKeeps
<1>6. CASE Running(n)' \subseteq Running(n)
  <2>1. SumOf(Running(n)') <= SumOf(Running(n))
    BY <1>3, <1>4, <1>6, RunningGroups, UnitsMonotone
  <2>2. SumOf(Running(n)') <= MaxWeight[n]
    BY <1>1, <1>2, <1>3, <1>4, <2>1
  <2>3. ASSUME npc'[n] = "inputs"
        PROVE  SumOf(Running(n)') + groupWeight(target'[n]) <= MaxWeight[n]
    <3>1. SameNode(n) \/ AcquireCandidate(n) \/ Cancel(n)
      BY <2>3 DEF NodeStep, NodeFault, Boot, pruneDeadWorkers, pruneRelease, planReconcile,
         stopWorker, Stopped, StopsDone, Halt, SkipCandidate, StartWorker, StartsDone, shutdown,
         ListFailed, StopTimedOut, InputsFailed, Crash, Goto, LoopInv, Types, LoopTypes
    <3>2. CASE SameNode(n) \/ Cancel(n)
      <4>1. npc[n] = "inputs" /\ target'[n] = target[n] /\ target[n] \in Groups
        BY <2>3, <3>2 DEF SameNode, Cancel, LoopInv, Types, LoopTypes, NodeInv, Busy
      <4>2. groupWeight(target[n]) \in Nat
        BY <4>1, WeightType
      <4> QED
        BY <1>1, <1>2, <1>3, <1>4, <2>1, <4>1, <4>2
    <3>3. CASE AcquireCandidate(n)
      <4>1. target'[n] = First(cand[n]) /\ First(cand[n]) \in Groups /\ ~Overweight(n, First(cand[n]))
        BY <3>3, StartPicks DEF AcquireCandidate, LoopInv, Types, LoopTypes
      <4>2. ~(SumOf(Running(n)) + groupWeight(First(cand[n])) > MaxWeight[n])
        BY <4>1 DEF Overweight, CurrentWeight, SumOf
      <4>3. groupWeight(First(cand[n])) \in Nat
        BY <4>1, WeightType
      <4> QED
        BY <1>1, <1>3, <1>4, <2>1, <4>1, <4>2, <4>3
    <3> QED
      BY <3>1, <3>2, <3>3
  <2> QED
    BY <2>2, <2>3
<1>7. CASE Grows(n)
  <2>1. /\ npc[n] = "inputs" /\ npc'[n] # "inputs" /\ target[n] \in Groups
        /\ target[n] \notin Running(n) /\ Running(n)' = Running(n) \cup {target[n]}
    BY <1>7 DEF Grows
  <2>2. Cardinality(Units(Running(n) \cup {target[n]})) =
          Cardinality(Units(Running(n))) + groupWeight(target[n])
    BY <2>1, RunningGroups, UnitsAdd
  <2>3. Cardinality(Units(Running(n)')) = Cardinality(Units(Running(n) \cup {target[n]}))
    BY <2>1, Zenon
  <2> QED
    BY <1>2, <1>3, <1>4, <2>1, <2>2, <2>3
<1> QED
  BY <1>5, <1>6, <1>7

(* No node runs more groups or more weight than MaxGroups and MaxWeight     *)
(* allow, for any weights, through any sequence of passes, failures,        *)
(* timeouts, shutdowns and restarts.                                        *)
THEOREM CapacityRespected == Spec => []WithinCapacity
<1>1. ASSUME LoopInv, CapacityInv, [Next]_vars PROVE CapacityInv'
  <2>1. Types'
    BY <1>1, Inductive DEF LoopInv
  <2> SUFFICES ASSUME NEW n \in Nodes PROVE GroupsFit(n)' /\ WeightFits(n)'
    BY DEF CapacityInv
  <2>2. SameNode(n) \/ NodeStep(n) \/ NodeFault(n)
    BY <1>1, OwnSteps
  <2> QED
    BY <1>1, <2>1, <2>2, GroupsStillFit, WeightStillFits DEF CapacityInv
<1>2. CapacityInv => WithinCapacity
  BY DEF CapacityInv, WithinCapacity, GroupsFit, WeightFits, CurrentWeight, SumOf
<1> QED
  BY <1>1, <1>2, CapacityInit, Invariant, PTL DEF Spec
=============================================================================
