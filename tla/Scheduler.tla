------------------------------ MODULE Scheduler ------------------------------
(***************************************************************************)
(* Runtime nodes that share out market groups through leases: the          *)
(* reconcile loop of Node, the life of a group's Worker, and the lease     *)
(* statements of the metadata store.                                       *)
(*                                                                         *)
(* A lease is its owner and the time it has left on the database clock;    *)
(* Tick lets a unit of that time pass.  A node's worker map holds a group  *)
(* when its phase is not "none", except the one stopWorker waits for,      *)
(* which is already deleted from the map.                                  *)
(***************************************************************************)
EXTENDS Integers, Sequences, FiniteSets, FiniteSetsExt

CONSTANTS
  Nodes,       \* runtime nodes
  None,        \* no node
  Groups,      \* market groups: numbers, in the order of their ids
  Weight,      \* market_groups.weight of a group
  MaxGroups,   \* NodeConfig.MaxGroups of a node, 0 for no limit
  MaxWeight,   \* NodeConfig.MaxWeight of a node, 0 for no limit
  TTL,         \* NodeConfig.LeaseTTL in ticks
  FaultKinds,  \* which of AllFaults may happen
  MaxFaults,   \* bound on how many of them happen
  MaxChanges   \* bound on the control plane's changes of desired status

ASSUME NodesAssumption == None \notin Nodes
ASSUME GroupsAssumption == Groups \subseteq Nat \ {0} /\ IsFiniteSet(Groups)
ASSUME WeightAssumption == Weight \in [Groups -> Nat]
ASSUME LimitsAssumption == MaxGroups \in [Nodes -> Nat] /\ MaxWeight \in [Nodes -> Nat]
ASSUME TTLAssumption == TTL \in Nat \ {0}

(* A store call fails; a process dies, or is asked to end; stopWorker gives *)
(* up waiting; a group is deleted while it may be running; a start, renewal *)
(* or drain takes longer than the lease lasts.                              *)
AllFaults == {"error", "crash", "shutdown", "timeout", "delete", "late"}

ASSUME BoundsAssumption ==
  /\ FaultKinds \subseteq AllFaults
  /\ MaxFaults \in Nat
  /\ MaxChanges \in Nat

NoGroup == 0

VARIABLES
  desired,    \* market_groups.desired_status, "absent" without a row
  leaseOwner, \* market_leases.node_id, None without a row
  left,       \* lease_expires_at - now(), -1 once it is past
  npc,        \* where a node's reconcile loop is
  closing,    \* the node's context is canceled
  todo,       \* groups a loop of the node has left to prune or stop
  cand,       \* plan.toStart, what is left of it
  slots,      \* plan.startSlots - started
  target,     \* group that stopWorker or tryStartWorker is busy with
  wk,         \* phase of the node's worker for a group
  orphans,    \* workers of a group that stopWorker gave up waiting for
  faults,     \* kinds of the faults so far
  changes     \* control-plane changes so far

store == <<desired, leaseOwner, left>>
loop == <<npc, closing, todo, cand, slots, target>>
workers == <<wk, orphans>>
vars == <<store, loop, workers, faults, changes>>

(* run: leaseLoop; cancel: drains after a graceful stop; drain: drains after *)
(* a lost lease or a failed renewal; done: terminal state, inputs stopped.   *)
Phases == {"none", "run", "cancel", "drain", "done"}
NodePCs == {"down", "idle", "prune", "stop", "wait", "start", "inputs"}

TypeOK ==
  /\ desired \in [Groups -> {"running", "paused", "absent"}]
  /\ leaseOwner \in [Groups -> Nodes \cup {None}]
  /\ left \in [Groups -> -1 .. TTL]
  /\ npc \in [Nodes -> NodePCs]
  /\ closing \in [Nodes -> BOOLEAN]
  /\ todo \in [Nodes -> SUBSET Groups]
  /\ cand \in [Nodes -> SUBSET Groups]
  /\ slots \in [Nodes -> Nat]
  /\ target \in [Nodes -> Groups \cup {NoGroup}]
  /\ wk \in [Nodes -> [Groups -> Phases]]
  /\ orphans \in [Nodes -> [Groups -> Nat]]
  /\ faults \in Seq(FaultKinds) /\ Len(faults) <= MaxFaults
  /\ changes \in 0 .. MaxChanges
  /\ \A n \in Nodes :
       /\ npc[n] \in {"wait", "inputs"} => target[n] # NoGroup
       /\ npc[n] = "inputs" => wk[n][target[n]] = "none"

-----------------------------------------------------------------------------
Init ==
  /\ desired \in [Groups -> {"running", "paused"}]
  /\ leaseOwner = [g \in Groups |-> None]
  /\ left = [g \in Groups |-> -1]
  /\ npc = [n \in Nodes |-> "down"]
  /\ closing = [n \in Nodes |-> FALSE]
  /\ todo = [n \in Nodes |-> {}]
  /\ cand = [n \in Nodes |-> {}]
  /\ slots = [n \in Nodes |-> 0]
  /\ target = [n \in Nodes |-> NoGroup]
  /\ wk = [n \in Nodes |-> [g \in Groups |-> "none"]]
  /\ orphans = [n \in Nodes |-> [g \in Groups |-> 0]]
  /\ faults = <<>>
  /\ changes = 0

Fault(kind) ==
  /\ kind \in FaultKinds
  /\ Len(faults) < MaxFaults
  /\ faults' = Append(faults, kind)

(* A store call fails: by a fault, or for free once the context is canceled. *)
CallFails(n) == Fault("error") \/ (closing[n] /\ UNCHANGED faults)

Goto(n, label) == npc' = [npc EXCEPT ![n] = label]

First(S) == CHOOSE g \in S : \A h \in S : g <= h

-----------------------------------------------------------------------------
(* Statements of the metadata store. *)

(* Mutant: a lease is up for grabs in its last instant, when its owner may  *)
(* still renew it.                                                          *)
AcquirableTooEarly(g, n) ==
  desired[g] # "absent" /\ (leaseOwner[g] \in {None, n} \/ left[g] <= 0)

Acquirable(g, n) ==
  /\ desired[g] # "absent"
  /\ leaseOwner[g] \in {None, n} \/ left[g] < 0

TryAcquireGroupLease(g, n) ==
  /\ Acquirable(g, n)
  /\ leaseOwner' = [leaseOwner EXCEPT ![g] = n]
  /\ left' = [left EXCEPT ![g] = TTL]

(* Mutant: the UPDATE does not look at the owner. *)
RenewableByAnyone(g, n) == n \in Nodes /\ left[g] >= 0

Renewable(g, n) == leaseOwner[g] = n /\ left[g] >= 0

ReleaseGroupLease(g, n) ==
  IF leaseOwner[g] = n
  THEN /\ leaseOwner' = [leaseOwner EXCEPT ![g] = None]
       /\ left' = [left EXCEPT ![g] = -1]
  ELSE UNCHANGED <<leaseOwner, left>>

(* A release whose failure is only logged. *)
releaseLease(g, n) ==
  \/ ReleaseGroupLease(g, n) /\ UNCHANGED faults
  \/ Fault("error") /\ UNCHANGED <<leaseOwner, left>>

(* Control plane: pause and resume. *)
UpdateGroupDesiredStatus(g) ==
  /\ desired[g] # "absent"
  /\ changes < MaxChanges
  /\ changes' = changes + 1
  /\ desired' = [desired EXCEPT ![g] = IF @ = "running" THEN "paused" ELSE "running"]
  /\ UNCHANGED <<leaseOwner, left, loop, workers, faults>>

(* Deleting a group deletes its lease, whoever is processing it. *)
DeleteGroup(g) ==
  /\ desired[g] # "absent"
  /\ Fault("delete")
  /\ desired' = [desired EXCEPT ![g] = "absent"]
  /\ leaseOwner' = [leaseOwner EXCEPT ![g] = None]
  /\ left' = [left EXCEPT ![g] = -1]
  /\ UNCHANGED <<loop, workers, changes>>

(* The same group is created again. *)
CreateGroup(g) ==
  /\ desired[g] = "absent"
  /\ desired' = [desired EXCEPT ![g] = "running"]
  /\ UNCHANGED <<leaseOwner, left, loop, workers, faults, changes>>

-----------------------------------------------------------------------------
(* The worker map of a node, and what it weighs. *)
Running(n) ==
  {g \in Groups : wk[n][g] # "none" /\ ~(npc[n] = "wait" /\ target[n] = g)}

groupWeight(g) == IF Weight[g] = 0 THEN 1 ELSE Weight[g]

CurrentWeight(n) == MapThenSumSet(groupWeight, Running(n))

(* Run: register, and reconcile at once. *)
Boot(n) ==
  /\ npc[n] = "down"
  /\ Goto(n, "idle")
  /\ UNCHANGED <<store, closing, todo, cand, slots, target, workers, faults, changes>>

Terminal(n, g) == wk[n][g] = "done"

(* reconcileOnce: pruneDeadWorkers takes terminal workers out of the map. *)
pruneDeadWorkers(n) ==
  LET dead == {g \in Groups : Terminal(n, g)} IN
  /\ npc[n] = "idle"
  /\ wk' = [wk EXCEPT ![n] = [g \in Groups |-> IF g \in dead THEN "none" ELSE @[g]]]
  /\ todo' = [todo EXCEPT ![n] = dead]
  /\ Goto(n, "prune")
  /\ UNCHANGED <<store, closing, cand, slots, target, orphans, faults, changes>>

(* ... and releases their leases, in no particular order. *)
pruneRelease(n) ==
  /\ npc[n] = "prune"
  /\ \E g \in todo[n] :
       /\ releaseLease(g, n)
       /\ todo' = [todo EXCEPT ![n] = @ \ {g}]
  /\ UNCHANGED <<desired, npc, closing, cand, slots, target, workers, changes>>

ListFailed(n) ==
  /\ npc[n] = "prune"
  /\ todo[n] = {}
  /\ CallFails(n)
  /\ Goto(n, "idle")
  /\ UNCHANGED <<store, closing, todo, cand, slots, target, workers, changes>>

(* planReconcile on the runnable groups and the worker map: what to stop,   *)
(* every group to try, and how many of those may be started.                *)
ListRunnable == {g \in Groups : desired[g] = "running"}

(* Mutant: paused groups are not seen, only deleted ones. *)
ToStopDeleted(n) == {g \in Running(n) : desired[g] = "absent"}

ToStop(n) == Running(n) \ ListRunnable

(* Mutant: groups this node already runs are candidates too. *)
ToStartAll(n) == {g \in ListRunnable : n \in Nodes}

ToStart(n) == ListRunnable \ Running(n)

(* Mutant: the slots are not bounded by MaxGroups. *)
StartSlotsNoLimit(n) == Cardinality(ToStart(n))

StartSlots(n) ==
  LET kept == Cardinality(Running(n)) - Cardinality(ToStop(n))
      free == IF kept > MaxGroups[n] THEN 0 ELSE MaxGroups[n] - kept
      candidates == Cardinality(ToStart(n))
  IN IF MaxGroups[n] = 0 \/ free > candidates THEN candidates ELSE free

planReconcile(n) ==
  /\ npc[n] = "prune"
  /\ todo[n] = {}
  /\ todo' = [todo EXCEPT ![n] = ToStop(n)]
  /\ cand' = [cand EXCEPT ![n] = ToStart(n)]
  /\ slots' = [slots EXCEPT ![n] = StartSlots(n)]
  /\ Goto(n, "stop")
  /\ UNCHANGED <<store, closing, target, workers, faults, changes>>

(* stopWorker: delete from the map, cancel, wait.  A worker that is already *)
(* terminal keeps its state.  The plan is in order of the ids, a shutdown   *)
(* goes through the map in any order.                                       *)
stopWorker(n) ==
  /\ npc[n] = "stop"
  /\ todo[n] # {}
  /\ \E g \in IF closing[n] THEN todo[n] ELSE {First(todo[n])} :
       /\ todo' = [todo EXCEPT ![n] = @ \ {g}]
       /\ target' = [target EXCEPT ![n] = g]
       /\ wk' = [wk EXCEPT ![n][g] = IF @ = "run" THEN "cancel" ELSE @]
  /\ Goto(n, "wait")
  /\ UNCHANGED <<store, closing, cand, slots, orphans, faults, changes>>

(* The worker's done channel closes in time: release the lease. *)
Stopped(n) ==
  LET g == target[n] IN
  /\ npc[n] = "wait"
  /\ wk[n][g] = "done"
  /\ wk' = [wk EXCEPT ![n][g] = "none"]
  /\ releaseLease(g, n)
  /\ target' = [target EXCEPT ![n] = NoGroup]
  /\ Goto(n, "stop")
  /\ UNCHANGED <<desired, closing, todo, cand, slots, orphans, changes>>

(* It does not: the worker goes on draining and the lease is left alone. *)
StopTimedOut(n) ==
  LET g == target[n] IN
  /\ npc[n] = "wait"
  /\ wk[n][g] # "done"
  /\ Fault("timeout")
  /\ wk' = [wk EXCEPT ![n][g] = "none"]
  /\ orphans' = [orphans EXCEPT ![n][g] = @ + 1]
  /\ target' = [target EXCEPT ![n] = NoGroup]
  /\ Goto(n, "stop")
  /\ UNCHANGED <<store, closing, todo, cand, slots, changes>>

(* All stops of a shutdown are done: the process ends, orphans with it. *)
Halted(n) == npc[n] = "stop" /\ todo[n] = {} /\ closing[n] /\ cand[n] = {} /\ Running(n) = {}

Halt(n) ==
  /\ Halted(n)
  /\ Goto(n, "down")
  /\ closing' = [closing EXCEPT ![n] = FALSE]
  /\ orphans' = [orphans EXCEPT ![n] = [g \in Groups |-> 0]]
  /\ UNCHANGED <<store, todo, cand, slots, target, wk, faults, changes>>

(* All stops of a reconcile pass are done: start workers. *)
StopsDone(n) ==
  /\ npc[n] = "stop"
  /\ todo[n] = {}
  /\ ~Halted(n)
  /\ Goto(n, "start")
  /\ UNCHANGED <<store, closing, todo, cand, slots, target, workers, faults, changes>>

(* Mutant: the weight of what already runs is forgotten. *)
OverweightAlone(n, g) == MaxWeight[n] > 0 /\ groupWeight(g) > MaxWeight[n]

Overweight(n, g) ==
  MaxWeight[n] > 0 /\ CurrentWeight(n) + groupWeight(g) > MaxWeight[n]

(* Mutant: a lost race for a lease uses up a slot. *)
SlotsAfterLostRace(n) == slots[n] - 1

(* Slots left after a candidate could not be started. *)
SlotsAfterSkip(n) == slots[n]

(* The candidate is over the weight limit, leased elsewhere, or the store   *)
(* fails, perhaps after it has granted the lease: try the next one.         *)
SkipCandidate(n) ==
  LET g == First(cand[n]) IN
  /\ npc[n] = "start"
  /\ cand[n] # {} /\ slots[n] > 0
  /\ \/ /\ Overweight(n, g) \/ ~Acquirable(g, n)
        /\ UNCHANGED <<leaseOwner, left, faults>>
     \/ /\ ~Overweight(n, g)
        /\ CallFails(n)
        /\ UNCHANGED <<leaseOwner, left>> \/ TryAcquireGroupLease(g, n)
  /\ cand' = [cand EXCEPT ![n] = @ \ {g}]
  /\ slots' = [slots EXCEPT ![n] = SlotsAfterSkip(n)]
  /\ UNCHANGED <<desired, npc, closing, todo, target, workers, changes>>

AcquireCandidate(n) ==
  LET g == First(cand[n]) IN
  /\ npc[n] = "start"
  /\ cand[n] # {} /\ slots[n] > 0
  /\ ~Overweight(n, g)
  /\ TryAcquireGroupLease(g, n)
  /\ cand' = [cand EXCEPT ![n] = @ \ {g}]
  /\ target' = [target EXCEPT ![n] = g]
  /\ Goto(n, "inputs")
  /\ UNCHANGED <<desired, closing, todo, slots, workers, faults, changes>>

(* The inputs are loaded and the worker runs, canceled from the start when  *)
(* the node's context already is.                                           *)
StartWorker(n) ==
  LET g == target[n] IN
  /\ npc[n] = "inputs"
  /\ wk' = [wk EXCEPT ![n][g] = IF closing[n] THEN "cancel" ELSE "run"]
  /\ slots' = [slots EXCEPT ![n] = @ - 1]
  /\ target' = [target EXCEPT ![n] = NoGroup]
  /\ Goto(n, "start")
  /\ UNCHANGED <<store, closing, todo, cand, orphans, faults, changes>>

InputsFailed(n) ==
  /\ npc[n] = "inputs"
  /\ CallFails(n)
  /\ ReleaseGroupLease(target[n], n)
  /\ target' = [target EXCEPT ![n] = NoGroup]
  /\ Goto(n, "start")
  /\ UNCHANGED <<desired, closing, todo, cand, slots, workers, changes>>

StartsDone(n) ==
  /\ npc[n] = "start"
  /\ cand[n] = {} \/ slots[n] = 0
  /\ cand' = [cand EXCEPT ![n] = {}]
  /\ slots' = [slots EXCEPT ![n] = 0]
  /\ Goto(n, "idle")
  /\ UNCHANGED <<store, closing, todo, target, workers, faults, changes>>

-----------------------------------------------------------------------------
(* The process is asked to end: the context of the loop and of every worker *)
(* in the map, or being started, is canceled.                               *)
Cancel(n) ==
  /\ npc[n] # "down"
  /\ ~closing[n]
  /\ Fault("shutdown")
  /\ closing' = [closing EXCEPT ![n] = TRUE]
  /\ wk' = [wk EXCEPT ![n] = [g \in Groups |-> IF @[g] = "run" THEN "cancel" ELSE @[g]]]
  /\ UNCHANGED <<store, npc, todo, cand, slots, target, orphans, changes>>

(* shutdown: once the reconcile pass is over, stop every worker. *)
shutdown(n) ==
  /\ npc[n] = "idle"
  /\ closing[n]
  /\ todo' = [todo EXCEPT ![n] = Running(n)]
  /\ Goto(n, "stop")
  /\ UNCHANGED <<store, closing, cand, slots, target, workers, faults, changes>>

Crash(n) ==
  /\ npc[n] # "down"
  /\ Fault("crash")
  /\ Goto(n, "down")
  /\ closing' = [closing EXCEPT ![n] = FALSE]
  /\ todo' = [todo EXCEPT ![n] = {}]
  /\ cand' = [cand EXCEPT ![n] = {}]
  /\ slots' = [slots EXCEPT ![n] = 0]
  /\ target' = [target EXCEPT ![n] = NoGroup]
  /\ wk' = [wk EXCEPT ![n] = [g \in Groups |-> "none"]]
  /\ orphans' = [orphans EXCEPT ![n] = [g \in Groups |-> 0]]
  /\ UNCHANGED <<store, changes>>

-----------------------------------------------------------------------------
(* leaseLoop: a renewal extends the lease; a refused or failed one ends the *)
(* loop, and consumption drains without another renewal.                    *)
RenewGroupLease(n, g) ==
  /\ wk[n][g] = "run"
  /\ Renewable(g, n)
  /\ left[g] < TTL
  /\ left' = [left EXCEPT ![g] = TTL]
  /\ UNCHANGED <<desired, leaseOwner, loop, workers, faults, changes>>

LeaseLost(n, g) ==
  /\ wk[n][g] = "run"
  /\ \/ ~Renewable(g, n) /\ UNCHANGED <<left, faults>>
     \/ /\ Fault("error")
        /\ UNCHANGED left \/ (Renewable(g, n) /\ left' = [left EXCEPT ![g] = TTL])
  /\ wk' = [wk EXCEPT ![n][g] = "drain"]
  /\ UNCHANGED <<desired, leaseOwner, loop, orphans, changes>>

(* inputManager.stop and finish: inputs are drained, the state is terminal. *)
finish(n, g) ==
  /\ wk[n][g] \in {"cancel", "drain"}
  /\ wk' = [wk EXCEPT ![n][g] = "done"]
  /\ UNCHANGED <<store, loop, orphans, faults, changes>>

finishOrphan(n, g) ==
  /\ orphans[n][g] > 0
  /\ orphans' = [orphans EXCEPT ![n][g] = @ - 1]
  /\ UNCHANGED <<store, loop, wk, faults, changes>>

(* Workers of a group that may be reading from Kafka and writing facts. *)
Consuming(n, g) == wk[n][g] \in {"run", "cancel", "drain"} \/ orphans[n][g] > 0

(* A lease is kept on time while its owner consumes or is about to start. *)
OnTime(g) ==
  \A n \in Nodes :
    /\ leaseOwner[g] = n
    /\ Consuming(n, g) \/ (npc[n] = "inputs" /\ target[n] = g)
    => left[g] > 0

(* A unit of time passes on the database clock; that it overtakes a start,  *)
(* a renewal or a drain is a fault.                                         *)
Tick ==
  /\ \E g \in Groups : left[g] >= 0
  /\ \/ (\A g \in Groups : OnTime(g)) /\ UNCHANGED faults
     \/ (\E g \in Groups : ~OnTime(g)) /\ Fault("late")
  /\ left' = [g \in Groups |-> IF left[g] >= 0 THEN left[g] - 1 ELSE left[g]]
  /\ UNCHANGED <<desired, leaseOwner, loop, workers, changes>>

-----------------------------------------------------------------------------
NodeStep(n) ==
  \/ Boot(n) \/ pruneDeadWorkers(n) \/ pruneRelease(n) \/ planReconcile(n)
  \/ stopWorker(n) \/ Stopped(n) \/ StopsDone(n) \/ Halt(n)
  \/ SkipCandidate(n) \/ AcquireCandidate(n) \/ StartWorker(n) \/ StartsDone(n)
  \/ shutdown(n)

NodeFault(n) ==
  ListFailed(n) \/ StopTimedOut(n) \/ InputsFailed(n) \/ Cancel(n) \/ Crash(n)

WorkerStep(n, g) ==
  RenewGroupLease(n, g) \/ LeaseLost(n, g) \/ finish(n, g) \/ finishOrphan(n, g)

Next ==
  \/ \E n \in Nodes : NodeStep(n) \/ NodeFault(n)
  \/ \E n \in Nodes, g \in Groups : WorkerStep(n, g)
  \/ \E g \in Groups : UpdateGroupDesiredStatus(g) \/ DeleteGroup(g) \/ CreateGroup(g)
  \/ Tick

Spec == Init /\ [][Next]_vars

(* Loops and goroutines keep running, a node that went down is started      *)
(* again, tickers fire, drains end and time passes.                         *)
Fairness ==
  /\ \A n \in Nodes : WF_vars(NodeStep(n)) /\ SF_vars(shutdown(n))
  /\ \A n \in Nodes, g \in Groups :
       /\ WF_vars(RenewGroupLease(n, g))
       /\ WF_vars(~Renewable(g, n) /\ LeaseLost(n, g))
       /\ WF_vars(finish(n, g))
       /\ WF_vars(finishOrphan(n, g))
  /\ WF_vars(Tick)

FairSpec == Spec /\ Fairness

-----------------------------------------------------------------------------
(* Node's promise: "a group is processed by at most one node". *)
AtMostOneNode ==
  \A g \in Groups : \A m, n \in Nodes : Consuming(m, g) /\ Consuming(n, g) => m = n

(* Nothing has overtaken a lease so far: no stop timed out, no group was    *)
(* deleted, no start, renewal or drain took longer than the lease lasts.    *)
Punctual == \A i \in DOMAIN faults : faults[i] \notin {"timeout", "delete", "late"}

(* The lease keeps that promise through races for it, expiry, renewals and  *)
(* releases that fail, crashes and shutdowns, for as long as the scheduling *)
(* is punctual.                                                             *)
OneNodeWhilePunctual == Punctual => AtMostOneNode

(* No node runs more groups, or more weight, than its configuration allows, *)
(* through any sequence of passes, failures and restarts.                   *)
WithinCapacity ==
  \A n \in Nodes :
    /\ MaxGroups[n] > 0 => Cardinality(Running(n)) <= MaxGroups[n]
    /\ MaxWeight[n] > 0 => CurrentWeight(n) <= MaxWeight[n]

(* A worker that no longer holds its lease stops consuming. *)
LosersStop ==
  \A n \in Nodes, g \in Groups :
    (wk[n][g] = "run" /\ leaseOwner[g] # n) ~> ~(wk[n][g] = "run" /\ leaseOwner[g] # n)

(* A group that stays runnable is picked up by some node, again and again   *)
(* after every crash, lost lease or shutdown.                               *)
RunnableGroupsRun ==
  \A g \in Groups :
    <>[](desired[g] = "running") => []<>(\E n \in Nodes : wk[n][g] = "run")

(* A group that stays paused or deleted is left by every node. *)
UnwantedGroupsStop ==
  \A g \in Groups :
    <>[](desired[g] # "running") => <>[](\A n \in Nodes : ~Consuming(n, g))

==============================================================================
