----------------------------- MODULE InputManager -----------------------------
(***************************************************************************)
(* The inputs of one market group: the control plane that changes them,    *)
(* the group worker that holds the lease, its input manager, the input     *)
(* workers under it, and the status rows all of them write.                *)
(*                                                                         *)
(* A run is one life of the group's worker, on whatever node.  Two runs    *)
(* overlap when a lease expires under a running worker, and when a node    *)
(* releases the lease of a worker that is still reporting its end.         *)
(***************************************************************************)
EXTENDS Naturals

CONSTANTS
  Runs,        \* lives of the group's worker
  None,        \* no run, no input
  Inputs,      \* input ids, derived from the group and the stream key
  Kind,        \* "fact" (trade, kline), "delta" or "snapshot"
  Created,     \* inputs the group is created with
  MaxChanges,  \* bound on what the control plane changes
  FaultKinds,  \* which of "expire", "shutdown", "crash" and "call" may happen
  MaxFaults    \* bound on how many of them happen

ASSUME RunsAssumption == None \notin Runs \cup Inputs
ASSUME InputsAssumption ==
  /\ Kind \in [Inputs -> {"fact", "delta", "snapshot"}]
  /\ Created \subseteq Inputs
ASSUME BoundAssumption == MaxChanges \in Nat /\ MaxFaults \in Nat
ASSUME FaultAssumption == FaultKinds \subseteq {"expire", "shutdown", "crash", "call"}

VARIABLES
  group,    \* desired_status of the group: "running", "idle" or "absent"
  wanted,   \* of each input: "running" means desired and enabled
  foreign,  \* inputs with a kafka_cluster other than the default one
  status,   \* stream_runtime_status: who wrote the row, and what
  lease,    \* run that holds the group's lease, or None
  phase,    \* how far a run's worker is
  halt,     \* why leaseLoop ends: "no", "graceful" or "lost"
  known,    \* Worker.inputs, read once when the worker starts
  report,   \* inputs reportAll has still to report
  mpc,      \* where the manager is in loop and reconcile
  desired,  \* the pass's map of runnable inputs
  inactive, \* and of the others
  todo,     \* what the manager's current loop has still to visit
  draining, \* input stopInput waits for, or None
  active,   \* inputManager.active
  gap,      \* inputManager.gapExited
  live,     \* goroutine of an input worker
  changes, faults

control == <<group, wanted, foreign>>
worker == <<phase, halt, known, report>>
manager == <<mpc, desired, inactive, todo, draining, active, gap>>
counters == <<changes, faults>>
vars == <<control, status, lease, worker, manager, live, counters>>

Statuses == {"none", "starting", "live", "startError", "paused", "stopped", "lost"}
Row == [by : Runs \cup {None}, st : Statuses]
NoRow == [by |-> None, st |-> "none"]

(* "finish" is the terminal WorkerState: it is set before the last report.  *)
Phases == {"off", "starting", "running", "stopping", "finish"}
MPCs == {"off", "wait", "list", "stops", "inactive", "starts", "stopAll"}

(* Types, and a manager that exists exactly while its worker needs it. *)
TypeOK ==
  /\ group \in {"running", "idle", "absent"}
  /\ wanted \in [Inputs -> {"running", "idle", "absent"}]
  /\ foreign \subseteq Inputs
  /\ status \in [Inputs -> Row]
  /\ lease \in Runs \cup {None}
  /\ phase \in [Runs -> Phases]
  /\ halt \in [Runs -> {"no", "graceful", "lost"}]
  /\ known \in [Runs -> SUBSET Inputs]
  /\ report \in [Runs -> SUBSET Inputs]
  /\ mpc \in [Runs -> MPCs]
  /\ desired \in [Runs -> SUBSET Inputs]
  /\ inactive \in [Runs -> SUBSET Inputs]
  /\ todo \in [Runs -> SUBSET Inputs]
  /\ draining \in [Runs -> Inputs \cup {None}]
  /\ active \in [Runs -> SUBSET Inputs]
  /\ gap \in [Runs -> SUBSET Inputs]
  /\ live \in [Runs -> [Inputs -> {"none", "run", "done"}]]
  /\ changes \in 0 .. MaxChanges
  /\ faults \in 0 .. MaxFaults
  /\ \A r \in Runs :
       /\ phase[r] = "running" => mpc[r] # "off"
       /\ phase[r] \in {"off", "starting", "finish"} => mpc[r] = "off"

Init ==
  /\ group = "absent"
  /\ wanted = [i \in Inputs |-> "absent"]
  /\ foreign = {}
  /\ status = [i \in Inputs |-> NoRow]
  /\ lease = None
  /\ phase = [r \in Runs |-> "off"]
  /\ halt = [r \in Runs |-> "no"]
  /\ known = [r \in Runs |-> {}]
  /\ report = [r \in Runs |-> {}]
  /\ mpc = [r \in Runs |-> "off"]
  /\ desired = [r \in Runs |-> {}]
  /\ inactive = [r \in Runs |-> {}]
  /\ todo = [r \in Runs |-> {}]
  /\ draining = [r \in Runs |-> None]
  /\ active = [r \in Runs |-> {}]
  /\ gap = [r \in Runs |-> {}]
  /\ live = [r \in Runs |-> [i \in Inputs |-> "none"]]
  /\ changes = 0
  /\ faults = 0

Fault(kind) ==
  /\ kind \in FaultKinds
  /\ faults < MaxFaults
  /\ faults' = faults + 1

-----------------------------------------------------------------------------
(* Control plane. *)
Change ==
  /\ changes < MaxChanges
  /\ changes' = changes + 1
  /\ UNCHANGED <<lease, worker, manager, live, faults>>

(* The group and its inputs in one transaction; ids are derived, so a group *)
(* that is created again has the ids it had before.  Deletes bound it.      *)
CreateGroup ==
  /\ group = "absent"
  /\ group' = "running"
  /\ wanted' = [i \in Inputs |-> IF i \in Created THEN "running" ELSE "absent"]
  /\ UNCHANGED <<foreign, status, lease, worker, manager, live, counters>>

(* The rows that reference the group go with it, and later reports of them  *)
(* violate the foreign key.                                                 *)
DeleteGroup ==
  /\ group # "absent"
  /\ group' = "absent"
  /\ wanted' = [i \in Inputs |-> "absent"]
  /\ foreign' = {}
  /\ status' = [i \in Inputs |-> NoRow]
  /\ lease' = None
  /\ changes < MaxChanges
  /\ changes' = changes + 1
  /\ UNCHANGED <<worker, manager, live, faults>>

UpdateGroupDesiredStatus(s) ==
  /\ group \notin {"absent", s}
  /\ group' = s
  /\ UNCHANGED <<wanted, foreign, status>>
  /\ Change

AddInputs(i) ==
  /\ group # "absent"
  /\ wanted[i] = "absent"
  /\ wanted' = [wanted EXCEPT ![i] = "running"]
  /\ foreign' \in {foreign, foreign \cup {i}}
  /\ UNCHANGED <<group, status>>
  /\ Change

UpdateInputDesiredStatus(i, s) ==
  /\ wanted[i] \notin {"absent", s}
  /\ wanted' = [wanted EXCEPT ![i] = s]
  /\ UNCHANGED <<group, foreign, status>>
  /\ Change

-----------------------------------------------------------------------------
(* The upsert of a status row: the last writer wins, whoever it is. *)
ReportStreamRuntimeStatus(r, i, s) ==
  status' = IF wanted[i] = "absent" THEN status
            ELSE [status EXCEPT ![i] = [by |-> r, st |-> s]]

(* A report that is not repeated may fail, which is only logged. *)
ReportOnce(r, i, s) == ReportStreamRuntimeStatus(r, i, s) \/ UNCHANGED status

(* tryStartWorker: the lease, the inputs and a new worker. *)
tryStartWorker(r) ==
  /\ phase[r] = "off"
  /\ group = "running"
  /\ lease = None
  /\ lease' = r
  /\ known' = [known EXCEPT ![r] = {i \in Inputs : wanted[i] # "absent"}]
  /\ report' = [report EXCEPT ![r] = known'[r]]
  /\ phase' = [phase EXCEPT ![r] = "starting"]
  /\ UNCHANGED <<control, status, halt, manager, live, counters>>

(* Inputs are listed by stream key. *)
First(S) == CHOOSE i \in S : TRUE

(* reportAll(starting); under a canceled context every report fails. *)
reportAllStarting(r, i) ==
  /\ phase[r] = "starting"
  /\ report[r] # {} /\ i = First(report[r])
  /\ IF halt[r] = "no" THEN ReportOnce(r, i, "starting") ELSE UNCHANGED status
  /\ report' = [report EXCEPT ![r] = @ \ {i}]
  /\ UNCHANGED <<control, lease, phase, halt, known, manager, live, counters>>

(* run starts the manager, whose loop begins with a pass. *)
startManager(r) ==
  /\ phase[r] = "starting"
  /\ report[r] = {}
  /\ phase' = [phase EXCEPT ![r] = "running"]
  /\ mpc' = [mpc EXCEPT ![r] = "list"]
  /\ UNCHANGED <<control, status, lease, halt, known, report, desired, inactive, todo,
                 draining, active, gap, live, counters>>

(* Worker.Stop: the group is not runnable any more, or the node shuts down. *)
Stop(r) ==
  /\ phase[r] \in {"starting", "running"}
  /\ halt[r] = "no"
  /\ IF group = "running" THEN Fault("shutdown") ELSE UNCHANGED faults
  /\ halt' = [halt EXCEPT ![r] = "graceful"]
  /\ UNCHANGED <<control, status, lease, phase, known, report, manager, live, changes>>

(* leaseLoop ends without a Stop; run goes on to im.stop. *)
leaseLoopEnds(r) ==
  /\ phase[r] = "running"
  /\ halt[r] = "no"
  /\ halt' = [halt EXCEPT ![r] = "lost"]
  /\ phase' = [phase EXCEPT ![r] = "stopping"]
  /\ UNCHANGED <<control, status, lease, known, report, manager, live, changes>>

(* The lease is gone. *)
leaseLost(r) ==
  /\ lease # r
  /\ leaseLoopEnds(r)
  /\ UNCHANGED faults

(* One failed renewal ends the worker although it still has the lease. *)
renewFails(r) ==
  /\ lease = r
  /\ leaseLoopEnds(r)
  /\ Fault("call")

Expire ==
  /\ lease # None
  /\ phase[lease] \in {"starting", "running", "stopping"}
  /\ Fault("expire")
  /\ lease' = None
  /\ UNCHANGED <<control, status, worker, manager, live, changes>>

(* The node releases the lease of a worker whose state is terminal, which   *)
(* pruneDeadWorkers does not wait to end; that of a process that died runs  *)
(* out.                                                                     *)
ReleaseGroupLease(r) ==
  /\ lease = r
  /\ phase[r] \in {"finish", "off"}
  /\ lease' = None
  /\ UNCHANGED <<control, status, worker, manager, live, counters>>

(* leaseLoop sees the Stop, and im.stop cancels the manager's context and   *)
(* so every input worker's.                                                 *)
stopManager(r) ==
  /\ phase[r] = "running"
  /\ halt[r] # "no"
  /\ phase' = [phase EXCEPT ![r] = "stopping"]
  /\ UNCHANGED <<control, status, lease, halt, known, report, manager, live, counters>>

(* Mutant: run does not wait for the manager to drain. *)
finishUndrained(r) ==
  /\ phase[r] = "stopping"
  /\ phase' = [phase EXCEPT ![r] = "finish"]
  /\ report' = [report EXCEPT ![r] = known[r]]
  /\ UNCHANGED <<control, status, lease, halt, known, manager, live, counters>>

(* finish sets the terminal state once the manager is drained. *)
finish(r) ==
  /\ phase[r] = "stopping"
  /\ mpc[r] = "off"
  /\ phase' = [phase EXCEPT ![r] = "finish"]
  /\ report' = [report EXCEPT ![r] = known[r]]
  /\ UNCHANGED <<control, status, lease, halt, known, manager, live, counters>>

reportAllTerminal(r, i) ==
  /\ phase[r] = "finish"
  /\ report[r] # {} /\ i = First(report[r])
  /\ ReportOnce(r, i, IF halt[r] = "graceful" THEN "stopped" ELSE "lost")
  /\ report' = [report EXCEPT ![r] = @ \ {i}]
  /\ UNCHANGED <<control, lease, phase, halt, known, manager, live, counters>>

(* Nothing of a run is left. *)
Reset(r) ==
  /\ phase' = [phase EXCEPT ![r] = "off"]
  /\ halt' = [halt EXCEPT ![r] = "no"]
  /\ known' = [known EXCEPT ![r] = {}]
  /\ report' = [report EXCEPT ![r] = {}]
  /\ mpc' = [mpc EXCEPT ![r] = "off"]
  /\ desired' = [desired EXCEPT ![r] = {}]
  /\ inactive' = [inactive EXCEPT ![r] = {}]
  /\ todo' = [todo EXCEPT ![r] = {}]
  /\ draining' = [draining EXCEPT ![r] = None]
  /\ active' = [active EXCEPT ![r] = {}]
  /\ gap' = [gap EXCEPT ![r] = {}]

WorkerDone(r) ==
  /\ phase[r] = "finish"
  /\ report[r] = {}
  /\ Reset(r)
  /\ UNCHANGED <<control, status, lease, live, counters>>

Crash(r) ==
  /\ phase[r] # "off"
  /\ Fault("crash")
  /\ Reset(r)
  /\ live' = [live EXCEPT ![r] = [i \in Inputs |-> "none"]]
  /\ UNCHANGED <<control, status, lease, changes>>

-----------------------------------------------------------------------------
(* The manager's loop.  Its own context and its workers' are canceled when  *)
(* the run is stopping; stopInput cancels one worker alone.                 *)
Canceled(r, i) == phase[r] = "stopping" \/ draining[r] = i

Goto(r, label) == mpc' = [mpc EXCEPT ![r] = label]

(* A report or a call that the next pass repeats. *)
ReportEachPass(r, i, s) ==
  \/ ReportStreamRuntimeStatus(r, i, s) /\ UNCHANGED faults
  \/ Fault("call") /\ UNCHANGED status

tick(r) ==
  /\ mpc[r] = "wait"
  /\ Goto(r, "list")
  /\ UNCHANGED <<control, status, lease, worker, desired, inactive, todo, draining,
                 active, gap, live, counters>>

(* Mutant: only inputs that are wanted and not running are looked at. *)
reconcileStopsNothing(r) ==
  /\ mpc[r] = "list"
  /\ phase[r] = "running"
  /\ desired' = [desired EXCEPT ![r] = {i \in Inputs : wanted[i] = "running"}]
  /\ inactive' = [inactive EXCEPT ![r] = {i \in Inputs : wanted[i] = "idle"}]
  /\ todo' = [todo EXCEPT ![r] = {}]
  /\ Goto(r, "stops")
  /\ UNCHANGED <<control, status, lease, worker, draining, active, gap, live, counters>>

(* The head of a pass: what should run, what should not, what to stop. *)
reconcile(r) ==
  /\ mpc[r] = "list"
  /\ phase[r] = "running"
  /\ desired' = [desired EXCEPT ![r] = {i \in Inputs : wanted[i] = "running"}]
  /\ inactive' = [inactive EXCEPT ![r] = {i \in Inputs : wanted[i] = "idle"}]
  /\ todo' = [todo EXCEPT ![r] = active[r] \ desired'[r]]
  /\ Goto(r, "stops")
  /\ UNCHANGED <<control, status, lease, worker, draining, active, gap, live, counters>>

ListFailed(r) ==
  /\ mpc[r] = "list"
  /\ IF phase[r] = "running" THEN Fault("call") ELSE UNCHANGED faults
  /\ Goto(r, "wait")
  /\ UNCHANGED <<control, status, lease, worker, desired, inactive, todo, draining,
                 active, gap, live, changes>>

(* Out of the map, canceled, and waited for. *)
stopInput(r, i) ==
  /\ mpc[r] \in {"stops", "stopAll"}
  /\ draining[r] = None
  /\ i \in todo[r]
  /\ active' = [active EXCEPT ![r] = @ \ {i}]
  /\ draining' = [draining EXCEPT ![r] = i]
  /\ UNCHANGED <<control, status, lease, worker, mpc, desired, inactive, todo, gap,
                 live, counters>>

(* Mutant: the pause is reported without waiting for the worker's end. *)
InputStoppedEarly(r, i) ==
  /\ draining[r] = i
  /\ draining' = [draining EXCEPT ![r] = None]
  /\ todo' = [todo EXCEPT ![r] = @ \ {i}]
  /\ IF mpc[r] = "stops" THEN ReportOnce(r, i, "paused") ELSE UNCHANGED status
  /\ inactive' = [inactive EXCEPT ![r] = @ \ {i}]
  /\ UNCHANGED <<control, lease, worker, mpc, desired, active, gap, live, counters>>

(* The worker has ended.  A pass reports the input paused, stopAll leaves   *)
(* its status to the group worker.                                          *)
InputStopped(r, i) ==
  /\ draining[r] = i
  /\ live[r][i] = "done"
  /\ live' = [live EXCEPT ![r][i] = "none"]
  /\ draining' = [draining EXCEPT ![r] = None]
  /\ todo' = [todo EXCEPT ![r] = @ \ {i}]
  /\ IF mpc[r] = "stops" THEN ReportOnce(r, i, "paused") ELSE UNCHANGED status
  /\ inactive' = [inactive EXCEPT ![r] = @ \ {i}]
  /\ UNCHANGED <<control, lease, worker, mpc, desired, active, gap, counters>>

(* One loop of the pass is through: the next one begins. *)
NextLoop(r, from, to, set) ==
  /\ mpc[r] = from
  /\ todo[r] = {}
  /\ draining[r] = None
  /\ Goto(r, to)
  /\ todo' = [todo EXCEPT ![r] = set]

StopsDone(r) ==
  /\ NextLoop(r, "stops", "inactive", inactive[r])
  /\ inactive' = [inactive EXCEPT ![r] = {}]
  /\ UNCHANGED <<control, status, lease, worker, desired, draining, active, gap, live,
                 counters>>

(* Mutant: only the pass that stops an input reports it paused. *)
reportInactiveNever(r, i) ==
  /\ mpc[r] = "inactive"
  /\ i \in todo[r]
  /\ todo' = [todo EXCEPT ![r] = @ \ {i}]
  /\ UNCHANGED <<control, status, lease, worker, mpc, desired, inactive, draining,
                 active, gap, live, counters>>

(* An input that is not wanted is reported paused by every pass. *)
reportInactive(r, i) ==
  /\ mpc[r] = "inactive"
  /\ i \in todo[r]
  /\ ReportEachPass(r, i, "paused")
  /\ todo' = [todo EXCEPT ![r] = @ \ {i}]
  /\ UNCHANGED <<control, lease, worker, mpc, desired, inactive, draining, active, gap,
                 live, changes>>

InactiveDone(r) ==
  /\ NextLoop(r, "inactive", "starts", desired[r])
  /\ desired' = [desired EXCEPT ![r] = {}]
  /\ UNCHANGED <<control, status, lease, worker, inactive, draining, active, gap, live,
                 counters>>

Running(r, i) == i \in active[r] /\ live[r][i] # "done"

KeepInput(r, i) ==
  /\ mpc[r] = "starts"
  /\ i \in todo[r]
  /\ Running(r, i)
  /\ todo' = [todo EXCEPT ![r] = @ \ {i}]
  /\ UNCHANGED <<control, status, lease, worker, mpc, desired, inactive, draining,
                 active, gap, live, counters>>

(* A delta worker found to have ended is remembered in gapExited. *)
GapExited(r, i) == gap[r] \cup (IF i \in active[r] /\ Kind[i] = "delta" THEN {i} ELSE {})

(* It is not started again before the order book, which is ready or not,    *)
(* has taken a reference snapshot.                                          *)
SkipGapped(r, i) ==
  /\ mpc[r] = "starts"
  /\ i \in todo[r]
  /\ ~Running(r, i)
  /\ i \in GapExited(r, i)
  /\ todo' = [todo EXCEPT ![r] = @ \ {i}]
  /\ active' = [active EXCEPT ![r] = @ \ {i}]
  /\ gap' = [gap EXCEPT ![r] = GapExited(r, i)]
  /\ live' = [live EXCEPT ![r][i] = "none"]
  /\ UNCHANGED <<control, status, lease, worker, mpc, desired, inactive, draining,
                 counters>>

(* A worker for an input that has none, under the manager's context even if *)
(* that is canceled by now; or an error to report, and the next pass tries  *)
(* again.                                                                   *)
startInput(r, i) ==
  /\ mpc[r] = "starts"
  /\ i \in todo[r]
  /\ ~Running(r, i)
  /\ todo' = [todo EXCEPT ![r] = @ \ {i}]
  /\ gap' = [gap EXCEPT ![r] = GapExited(r, i) \ {i}]
  /\ \/ /\ i \notin foreign
        /\ active' = [active EXCEPT ![r] = @ \cup {i}]
        /\ live' = [live EXCEPT ![r][i] = "run"]
        /\ UNCHANGED <<status, faults>>
     \/ /\ \/ i \in foreign /\ ReportEachPass(r, i, "startError")
           \/ i \notin foreign /\ Fault("call") /\ ReportOnce(r, i, "startError")
        /\ active' = [active EXCEPT ![r] = @ \ {i}]
        /\ live' = [live EXCEPT ![r][i] = "none"]
  /\ UNCHANGED <<control, lease, worker, mpc, desired, inactive, draining, changes>>

PassDone(r) ==
  /\ NextLoop(r, "starts", "wait", {})
  /\ UNCHANGED <<control, status, lease, worker, desired, inactive, draining, active,
                 gap, live, counters>>

(* ctx.Done in the select: stop everything in the map. *)
stopAll(r) ==
  /\ mpc[r] = "wait"
  /\ phase[r] = "stopping"
  /\ Goto(r, "stopAll")
  /\ todo' = [todo EXCEPT ![r] = active[r]]
  /\ UNCHANGED <<control, status, lease, worker, desired, inactive, draining, active,
                 gap, live, counters>>

ManagerDone(r) ==
  /\ NextLoop(r, "stopAll", "off", {})
  /\ UNCHANGED <<control, status, lease, worker, desired, inactive, draining, active,
                 gap, live, counters>>

-----------------------------------------------------------------------------
(* Input workers.  A fact worker publishes its own status ("live" is either *)
(* running or error, as its last call went) when it begins and on every     *)
(* tick; one that cannot is no step.  A snapshot worker publishes none.     *)
flush(r, i) ==
  /\ live[r][i] = "run"
  /\ Kind[i] # "snapshot"
  /\ ~Canceled(r, i)
  /\ ReportStreamRuntimeStatus(r, i, "live")
  /\ UNCHANGED <<control, lease, worker, manager, live, counters>>

(* consume and reportLoop return, and a fact worker flushes once more with  *)
(* a context of its own.                                                    *)
InputExits(r, i) ==
  /\ live[r][i] = "run"
  /\ Canceled(r, i)
  /\ IF Kind[i] = "snapshot" THEN UNCHANGED status ELSE ReportOnce(r, i, "live")
  /\ live' = [live EXCEPT ![r][i] = "done"]
  /\ UNCHANGED <<control, lease, worker, manager, counters>>

-----------------------------------------------------------------------------
ControlPlane ==
  \/ CreateGroup \/ DeleteGroup
  \/ \E s \in {"running", "idle"} :
       \/ UpdateGroupDesiredStatus(s)
       \/ \E i \in Inputs : UpdateInputDesiredStatus(i, s)
  \/ \E i \in Inputs : AddInputs(i)

WorkerStep(r) ==
  \/ startManager(r) \/ stopManager(r) \/ finish(r) \/ WorkerDone(r) \/ leaseLost(r)
  \/ \E i \in Inputs : reportAllStarting(r, i) \/ reportAllTerminal(r, i)

ManagerStep(r) ==
  \/ tick(r) \/ reconcile(r) \/ ListFailed(r) \/ StopsDone(r) \/ InactiveDone(r)
  \/ PassDone(r) \/ ManagerDone(r)
  \/ \E i \in Inputs :
       \/ stopInput(r, i) \/ InputStopped(r, i) \/ reportInactive(r, i)
       \/ KeepInput(r, i) \/ SkipGapped(r, i) \/ startInput(r, i)

InputStep(r, i) == flush(r, i) \/ InputExits(r, i)

Next ==
  \/ ControlPlane \/ Expire
  \/ \E r \in Runs :
       \/ tryStartWorker(r) \/ Stop(r) \/ ReleaseGroupLease(r)
       \/ renewFails(r) \/ Crash(r)
       \/ WorkerStep(r) \/ ManagerStep(r) \/ stopAll(r)
       \/ \E i \in Inputs : InputStep(r, i)

Spec == Init /\ [][Next]_vars

(* Goroutines run on; a node starts a runnable group that has no lease,     *)
(* stops one that is not runnable and releases the lease of one that ended  *)
(* (Scheduler); a manager whose context is canceled does not choose its     *)
(* ticker for ever.                                                         *)
FairSpec ==
  /\ Spec
  /\ WF_vars(\E r \in Runs : tryStartWorker(r))
  /\ \A r \in Runs :
       /\ WF_vars((group # "running" /\ Stop(r)) \/ ReleaseGroupLease(r) \/ WorkerStep(r))
       /\ WF_vars(ManagerStep(r)) /\ SF_vars(stopAll(r))
       /\ WF_vars(\E i \in Inputs : InputStep(r, i))

-----------------------------------------------------------------------------
(* No input worker escapes its manager: every goroutine is in the map or    *)
(* being waited for, also when a pass races the cancellation, and none      *)
(* outlives the manager.  So the group worker's terminal report comes after *)
(* every report of its input workers ("reportAll is the last writer"), and  *)
(* a released lease covers no consumer.                                     *)
WorkersManaged ==
  \A r \in Runs, i \in Inputs :
    live[r][i] # "none" =>
      /\ i \in active[r] \/ draining[r] = i
      /\ phase[r] \in {"running", "stopping"}

(* Once finish's reportAll has reported an input, the run never writes its  *)
(* status row again: no worker, pass or flush of that run overtakes the     *)
(* terminal report, whatever other runs and the control plane do.           *)
TerminalIsLast ==
  [][\A r \in Runs, i \in Inputs :
       phase[r] = "finish" /\ i \notin report[r] /\ status'[i] # status[i] =>
         status'[i].by # r]_vars

(* The running set follows the wanted one: in the end the holder of the     *)
(* lease runs a worker for exactly the inputs that are wanted and can be    *)
(* started, every other run is over, and a group that is not runnable has   *)
(* no worker at all.                                                        *)
InputsFollow ==
  <>[](\A r \in Runs, i \in Inputs :
         live[r][i] = "run" <=>
           group = "running" /\ lease = r /\ wanted[i] = "running" /\ i \notin foreign)

(* What the status row of a runnable group should say. *)
StatusOf(i) ==
  CASE wanted[i] = "absent" -> "none"
    [] wanted[i] = "idle" -> "paused"
    [] OTHER -> IF i \in foreign THEN "startError" ELSE "live"

(* Status rows settle: however reports of an old run, of a pass and of      *)
(* input workers overtake each other, in the end each row is the lease      *)
(* holder's and says what the input does.  Snapshot inputs are excepted     *)
(* while they run, because nothing reports that they do.                    *)
StatusSettles ==
  <>[](\A i \in Inputs :
         group = "running" /\ (wanted[i] = "running" => Kind[i] # "snapshot" \/ i \in foreign) =>
           status[i] = [by |-> IF wanted[i] = "absent" THEN None ELSE lease,
                        st |-> StatusOf(i)])

=============================================================================
