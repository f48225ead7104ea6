-------------------------- MODULE InputManagerProofs --------------------------
(***************************************************************************)
(* Proofs about InputManager for any number of runs and inputs, any bound  *)
(* on changes and faults, and every kind of fault.                         *)
(***************************************************************************)
EXTENDS InputManager, TLAPS

(* Types of the variables, without what ties phase and mpc together. *)
ControlTypes ==
  /\ group \in {"running", "idle", "absent"}
  /\ wanted \in [Inputs -> {"running", "idle", "absent"}]
  /\ foreign \subseteq Inputs
  /\ status \in [Inputs -> Row]
  /\ lease \in Runs \cup {None}
  /\ changes \in 0 .. MaxChanges
  /\ faults \in 0 .. MaxFaults

RunTypes ==
  /\ phase \in [Runs -> Phases]
  /\ halt \in [Runs -> {"no", "graceful", "lost"}]
  /\ known \in [Runs -> SUBSET Inputs]
  /\ report \in [Runs -> SUBSET Inputs]

ManagerTypes ==
  /\ mpc \in [Runs -> MPCs]
  /\ desired \in [Runs -> SUBSET Inputs]
  /\ inactive \in [Runs -> SUBSET Inputs]
  /\ todo \in [Runs -> SUBSET Inputs]
  /\ draining \in [Runs -> Inputs \cup {None}]
  /\ active \in [Runs -> SUBSET Inputs]
  /\ gap \in [Runs -> SUBSET Inputs]
  /\ live \in [Runs -> [Inputs -> {"none", "run", "done"}]]

Types == ControlTypes /\ RunTypes /\ ManagerTypes

(* A manager exists exactly while its worker needs it. *)
Coupled(r) ==
  /\ phase[r] = "running" => mpc[r] # "off"
  /\ phase[r] \in {"off", "starting", "finish"} => mpc[r] = "off"

(* A manager that is not there holds no worker, and stopAll, which only a   *)
(* canceled context leads to, visits every one that is left.                *)
Emptied(r) ==
  /\ mpc[r] = "off" => active[r] = {} /\ draining[r] = None
  /\ mpc[r] = "stopAll" => phase[r] = "stopping" /\ active[r] \subseteq todo[r]

(* Only a loop of stops waits for a worker, which is out of the map. *)
Drains(r) ==
  draining[r] # None => mpc[r] \in {"stops", "stopAll"} /\ draining[r] \notin active[r]

(* Every goroutine is in the map or waited for. *)
Held(r) ==
  \A i \in Inputs : live[r][i] # "none" => i \in active[r] \/ draining[r] = i

RunInv(r) == Coupled(r) /\ Emptied(r) /\ Drains(r) /\ Held(r)

ManagerInv == Types /\ \A r \in Runs : RunInv(r)

LEMMA TypesCoupled == TypeOK <=> Types /\ \A r \in Runs : Coupled(r)
BY DEF TypeOK, Types, ControlTypes, RunTypes, ManagerTypes, Coupled

LEMMA Initially == Init => ManagerInv
<1> SUFFICES ASSUME Init PROVE ManagerInv
  OBVIOUS
<1>1. ControlTypes
  BY BoundAssumption DEF Init, ControlTypes, Row, NoRow, Statuses
<1>2. RunTypes
  BY DEF Init, RunTypes, Phases
<1>3. ManagerTypes
  BY DEF Init, ManagerTypes, MPCs
<1>4. ASSUME NEW r \in Runs PROVE RunInv(r)
  BY DEF Init, RunInv, Coupled, Emptied, Drains, Held
<1> QED
  BY <1>1, <1>2, <1>3, <1>4 DEF ManagerInv, Types

-----------------------------------------------------------------------------
(* What the operators the actions share leave behind. *)
LEMMA FaultCounted ==
  ASSUME ControlTypes, NEW k, Fault(k)
  PROVE  faults' \in 0 .. MaxFaults
BY BoundAssumption DEF Fault, ControlTypes

LEMMA ReportTyped ==
  ASSUME ControlTypes, NEW r \in Runs, NEW i \in Inputs, NEW s \in Statuses,
         ReportOnce(r, i, s) \/ ReportStreamRuntimeStatus(r, i, s)
  PROVE  /\ status' \in [Inputs -> Row]
         /\ \A j \in Inputs : status'[j] # status[j] => status'[j].by = r
BY DEF ReportOnce, ReportStreamRuntimeStatus, ControlTypes, Row

LEMMA ReportEachPassTyped ==
  ASSUME ControlTypes, NEW r \in Runs, NEW i \in Inputs, NEW s \in Statuses,
         ReportEachPass(r, i, s)
  PROVE  status' \in [Inputs -> Row] /\ faults' \in 0 .. MaxFaults
<1>1. CASE ReportStreamRuntimeStatus(r, i, s) /\ UNCHANGED faults
  BY <1>1, ReportTyped DEF ControlTypes
<1>2. CASE Fault("call") /\ UNCHANGED status
  BY <1>2, FaultCounted DEF ControlTypes
<1> QED
  BY <1>1, <1>2 DEF ReportEachPass

(* A run's invariant speaks of the run's own state alone. *)
LEMMA Frame ==
  ASSUME NEW r \in Runs, RunInv(r),
         phase'[r] = phase[r], mpc'[r] = mpc[r], todo'[r] = todo[r],
         draining'[r] = draining[r], active'[r] = active[r], live'[r] = live[r]
  PROVE  RunInv(r)'
BY DEF RunInv, Coupled, Emptied, Drains, Held

-----------------------------------------------------------------------------
LEMMA ControlTyped ==
  ASSUME Types, ControlPlane
  PROVE  Types'
<1> USE DEF Types, ControlTypes, RunTypes, ManagerTypes, worker, manager, counters
<1>1. CASE CreateGroup
  BY <1>1 DEF CreateGroup
<1>2. CASE DeleteGroup
  BY <1>2, BoundAssumption DEF DeleteGroup, Row, NoRow, Statuses
<1>3. ASSUME NEW s \in {"running", "idle"}, UpdateGroupDesiredStatus(s) PROVE Types'
  BY <1>3, BoundAssumption DEF UpdateGroupDesiredStatus, Change
<1>4. ASSUME NEW s \in {"running", "idle"}, NEW i \in Inputs, UpdateInputDesiredStatus(i, s)
      PROVE  Types'
  BY <1>4, BoundAssumption DEF UpdateInputDesiredStatus, Change
<1>5. ASSUME NEW i \in Inputs, AddInputs(i) PROVE Types'
  BY <1>5, BoundAssumption DEF AddInputs, Change
<1> QED
  BY <1>1, <1>2, <1>3, <1>4, <1>5 DEF ControlPlane

LEMMA WorkerTyped ==
  ASSUME Types, NEW r \in Runs,
         \/ tryStartWorker(r) \/ Stop(r) \/ ReleaseGroupLease(r) \/ renewFails(r) \/ Crash(r)
         \/ WorkerStep(r)
  PROVE  Types'
<1> USE DEF Types, ControlTypes, RunTypes, ManagerTypes, control, worker, manager, counters
<1>1. CASE tryStartWorker(r)
  BY <1>1 DEF tryStartWorker, Phases
<1>2. CASE Stop(r)
  BY <1>2, FaultCounted DEF Stop
<1>3. CASE ReleaseGroupLease(r)
  BY <1>3 DEF ReleaseGroupLease
<1>4. CASE renewFails(r)
  BY <1>4, FaultCounted DEF renewFails, leaseLoopEnds, Phases
<1>5. CASE Crash(r)
  BY <1>5, FaultCounted DEF Crash, Reset, Phases, MPCs
<1>6. CASE startManager(r)
  BY <1>6 DEF startManager, Phases, MPCs
<1>7. CASE stopManager(r)
  BY <1>7 DEF stopManager, Phases
<1>8. CASE finish(r)
  BY <1>8 DEF finish, Phases
<1>9. CASE WorkerDone(r)
  BY <1>9 DEF WorkerDone, Reset, Phases, MPCs
<1>10. CASE leaseLost(r)
  BY <1>10 DEF leaseLost, leaseLoopEnds, Phases
<1>11. ASSUME NEW i \in Inputs, reportAllStarting(r, i) PROVE Types'
  <2>1. status' \in [Inputs -> Row]
    BY <1>11, ReportTyped DEF reportAllStarting, Statuses
  <2> QED
    BY <1>11, <2>1 DEF reportAllStarting
<1>12. ASSUME NEW i \in Inputs, reportAllTerminal(r, i) PROVE Types'
  <2>1. status' \in [Inputs -> Row]
    BY <1>12, ReportTyped DEF reportAllTerminal, Statuses
  <2> QED
    BY <1>12, <2>1 DEF reportAllTerminal
<1> QED
  BY <1>1, <1>2, <1>3, <1>4, <1>5, <1>6, <1>7, <1>8, <1>9, <1>10, <1>11, <1>12 DEF WorkerStep

LEMMA ManagerTyped ==
  ASSUME Types, NEW r \in Runs, ManagerStep(r) \/ stopAll(r)
  PROVE  Types'
<1> USE DEF Types, ControlTypes, RunTypes, ManagerTypes, control, worker, counters, Goto
<1>1. CASE tick(r)
  BY <1>1 DEF tick, MPCs
<1>2. CASE reconcile(r)
  BY <1>2 DEF reconcile, MPCs
<1>3. CASE ListFailed(r)
  BY <1>3, FaultCounted DEF ListFailed, MPCs
<1>4. CASE StopsDone(r)
  BY <1>4 DEF StopsDone, NextLoop, MPCs
<1>5. CASE InactiveDone(r)
  BY <1>5 DEF InactiveDone, NextLoop, MPCs
<1>6. CASE PassDone(r)
  BY <1>6 DEF PassDone, NextLoop, MPCs
<1>7. CASE ManagerDone(r)
  BY <1>7 DEF ManagerDone, NextLoop, MPCs
<1>8. CASE stopAll(r)
  BY <1>8 DEF stopAll, MPCs
<1>9. ASSUME NEW i \in Inputs, stopInput(r, i) PROVE Types'
  BY <1>9 DEF stopInput
<1>10. ASSUME NEW i \in Inputs, InputStopped(r, i) PROVE Types'
  <2>1. status' \in [Inputs -> Row]
    BY <1>10, ReportTyped DEF InputStopped, Statuses
  <2> QED
    BY <1>10, <2>1 DEF InputStopped
<1>11. ASSUME NEW i \in Inputs, reportInactive(r, i) PROVE Types'
  <2>1. status' \in [Inputs -> Row] /\ faults' \in 0 .. MaxFaults
    BY <1>11, ReportEachPassTyped DEF reportInactive, Statuses
  <2> QED
    BY <1>11, <2>1 DEF reportInactive
<1>12. ASSUME NEW i \in Inputs, KeepInput(r, i) PROVE Types'
  BY <1>12 DEF KeepInput
<1>13. ASSUME NEW i \in Inputs, SkipGapped(r, i) PROVE Types'
  <2>1. GapExited(r, i) \subseteq Inputs
    BY DEF GapExited
  <2> QED
    BY <1>13, <2>1 DEF SkipGapped
<1>14. ASSUME NEW i \in Inputs, startInput(r, i) PROVE Types'
  <2>1. status' \in [Inputs -> Row] /\ faults' \in 0 .. MaxFaults
    BY <1>14, ReportEachPassTyped, ReportTyped, FaultCounted DEF startInput, Statuses
  <2>2. GapExited(r, i) \subseteq Inputs
    BY DEF GapExited
  <2>3. /\ active' \in [Runs -> SUBSET Inputs]
        /\ live' \in [Runs -> [Inputs -> {"none", "run", "done"}]]
    <3>1. CASE /\ active' = [active EXCEPT ![r] = @ \cup {i}]
               /\ live' = [live EXCEPT ![r][i] = "run"]
      BY <1>14, <3>1
    <3>2. CASE /\ active' = [active EXCEPT ![r] = @ \ {i}]
               /\ live' = [live EXCEPT ![r][i] = "none"]
      BY <1>14, <3>2
    <3> QED
      BY <1>14, <3>1, <3>2, Zenon DEF startInput
  <2>4. todo' \in [Runs -> SUBSET Inputs] /\ gap' \in [Runs -> SUBSET Inputs]
    BY <1>14, <2>2 DEF startInput
  <2> QED
    BY <1>14, <2>1, <2>3, <2>4 DEF startInput
<1> QED
  BY <1>1, <1>2, <1>3, <1>4, <1>5, <1>6, <1>7, <1>8, <1>9, <1>10, <1>11, <1>12, <1>13,
     <1>14 DEF ManagerStep

LEMMA InputTyped ==
  ASSUME Types, NEW r \in Runs, NEW i \in Inputs, InputStep(r, i)
  PROVE  Types'
<1> USE DEF Types, ControlTypes, RunTypes, ManagerTypes, control, worker, manager, counters
<1>1. CASE flush(r, i)
  <2>1. status' \in [Inputs -> Row]
    BY <1>1, ReportTyped DEF flush, Statuses
  <2> QED
    BY <1>1, <2>1 DEF flush
<1>2. CASE InputExits(r, i)
  <2>1. status' \in [Inputs -> Row]
    BY <1>2, ReportTyped DEF InputExits, Statuses
  <2> QED
    BY <1>2, <2>1 DEF InputExits
<1> QED
  BY <1>1, <1>2 DEF InputStep

LEMMA TypesStep ==
  ASSUME Types, Next
  PROVE  Types'
<1>1. CASE Expire
  BY <1>1, FaultCounted
     DEF Expire, Types, ControlTypes, RunTypes, ManagerTypes, control, worker, manager
<1> QED
  BY <1>1, ControlTyped, WorkerTyped, ManagerTyped, InputTyped DEF Next

-----------------------------------------------------------------------------
(* Steps of the control plane and of the lease leave every run alone. *)
LEMMA RunsUntouched ==
  ASSUME \A r \in Runs : RunInv(r), UNCHANGED <<phase, mpc, todo, draining, active, live>>
  PROVE  \A r \in Runs : RunInv(r)'
BY Frame

LEMMA WorkerKeeps ==
  ASSUME ManagerInv, NEW r \in Runs,
         tryStartWorker(r) \/ renewFails(r) \/ Crash(r) \/ WorkerStep(r)
  PROVE  \A q \in Runs : RunInv(q)'
<1> USE DEF ManagerInv, Types, RunTypes, ManagerTypes
<1>1. ASSUME NEW q \in Runs \ {r} PROVE RunInv(q)'
  <2>1. phase'[q] = phase[q] /\ live'[q] = live[q]
    BY <1>1 DEF tryStartWorker, renewFails, leaseLost, leaseLoopEnds, Crash, Reset, WorkerStep,
       startManager, stopManager, finish, WorkerDone, reportAllStarting, reportAllTerminal
  <2>2. mpc'[q] = mpc[q] /\ todo'[q] = todo[q] /\ draining'[q] = draining[q] /\ active'[q] = active[q]
    BY <1>1 DEF tryStartWorker, renewFails, leaseLost, leaseLoopEnds, Crash, Reset, WorkerStep,
       startManager, stopManager, finish, WorkerDone, reportAllStarting, reportAllTerminal, manager
  <2> QED
    BY <2>1, <2>2, Frame
<1> USE DEF RunInv, Coupled, Emptied, Drains, Held, worker, manager
<1>2. CASE tryStartWorker(r)
  BY <1>1, <1>2 DEF tryStartWorker
<1>3. CASE leaseLost(r) \/ renewFails(r)
  BY <1>1, <1>3 DEF leaseLost, renewFails, leaseLoopEnds
<1>4. CASE Crash(r)
  BY <1>1, <1>4 DEF Crash, Reset
<1>5. CASE startManager(r)
  BY <1>1, <1>5 DEF startManager
<1>6. CASE stopManager(r)
  BY <1>1, <1>6 DEF stopManager
<1>7. CASE finish(r)
  BY <1>1, <1>7 DEF finish
<1>8. CASE WorkerDone(r)
  BY <1>1, <1>8 DEF WorkerDone, Reset
<1>9. ASSUME NEW i \in Inputs, reportAllStarting(r, i) \/ reportAllTerminal(r, i)
      PROVE  RunInv(r)'
  BY <1>9, Frame DEF reportAllStarting, reportAllTerminal
<1> QED
  BY <1>1, <1>2, <1>3, <1>4, <1>5, <1>6, <1>7, <1>8, <1>9 DEF WorkerStep

(* Every step of the manager keeps its workers in the map or waited for.    *)
(* None \notin Inputs is what tells "waits for nobody" from an input.       *)
LEMMA ManagerKeeps ==
  ASSUME ManagerInv, NEW r \in Runs, ManagerStep(r) \/ stopAll(r)
  PROVE  \A q \in Runs : RunInv(q)'
<1> USE DEF ManagerInv, Types, RunTypes, ManagerTypes
<1>a. UNCHANGED phase /\ (\A q \in Runs \ {r} : mpc'[q] = mpc[q])
  BY DEF ManagerStep, tick, reconcile, ListFailed, StopsDone, InactiveDone, PassDone, ManagerDone,
     stopAll, NextLoop, Goto, stopInput, InputStopped, reportInactive, KeepInput, SkipGapped,
     startInput, worker
<1>b. \A q \in Runs \ {r} : todo'[q] = todo[q] /\ draining'[q] = draining[q]
  BY DEF ManagerStep, tick, reconcile, ListFailed, StopsDone, InactiveDone, PassDone, ManagerDone,
     stopAll, NextLoop, stopInput, InputStopped, reportInactive, KeepInput, SkipGapped,
     startInput
<1>c. \A q \in Runs \ {r} : active'[q] = active[q] /\ live'[q] = live[q]
  BY DEF ManagerStep, tick, reconcile, ListFailed, StopsDone, InactiveDone, PassDone, ManagerDone,
     stopAll, stopInput, InputStopped, reportInactive, KeepInput, SkipGapped, startInput
<1>0. ASSUME NEW q \in Runs \ {r} PROVE RunInv(q)'
  BY <1>a, <1>b, <1>c, Frame
<1> SUFFICES RunInv(r)'
  BY <1>0
<1>z. None \notin Inputs /\ phase'[r] = phase[r]
  BY <1>a, RunsAssumption
<1> USE DEF RunInv, Coupled, Emptied, Drains, Held, Goto
<1>1. CASE tick(r)
  BY <1>1, <1>z DEF tick
<1>2. CASE reconcile(r)
  BY <1>2, <1>z DEF reconcile
<1>3. CASE ListFailed(r)
  BY <1>3, <1>z DEF ListFailed
<1>4. CASE StopsDone(r)
  BY <1>4, <1>z DEF StopsDone, NextLoop
<1>5. CASE InactiveDone(r)
  BY <1>5, <1>z DEF InactiveDone, NextLoop
<1>6. CASE PassDone(r)
  BY <1>6, <1>z DEF PassDone, NextLoop
<1>7. CASE ManagerDone(r)
  BY <1>7, <1>z DEF ManagerDone, NextLoop
<1>8. CASE stopAll(r)
  BY <1>8, <1>z DEF stopAll
<1>9. ASSUME NEW i \in Inputs, stopInput(r, i) PROVE RunInv(r)'
  BY <1>9, <1>z DEF stopInput
<1>10. ASSUME NEW i \in Inputs, InputStopped(r, i) PROVE RunInv(r)'
  BY <1>10, <1>z DEF InputStopped
<1>11. ASSUME NEW i \in Inputs, reportInactive(r, i) \/ KeepInput(r, i) PROVE RunInv(r)'
  BY <1>11, <1>z DEF reportInactive, KeepInput
<1>12. ASSUME NEW i \in Inputs, SkipGapped(r, i) PROVE RunInv(r)'
  BY <1>12, <1>z DEF SkipGapped
<1>13. ASSUME NEW i \in Inputs, startInput(r, i) PROVE RunInv(r)'
  <2>1. mpc[r] = "starts" /\ mpc'[r] = mpc[r] /\ draining'[r] = draining[r]
    BY <1>13 DEF startInput
  <2>2. CASE /\ active' = [active EXCEPT ![r] = @ \cup {i}]
             /\ live' = [live EXCEPT ![r][i] = "run"]
    BY <1>13, <1>z, <2>1, <2>2
  <2>3. CASE /\ active' = [active EXCEPT ![r] = @ \ {i}]
             /\ live' = [live EXCEPT ![r][i] = "none"]
    BY <1>13, <1>z, <2>1, <2>3
  <2> QED
    BY <1>13, <2>2, <2>3, Zenon DEF startInput
<1> QED
  BY <1>1, <1>2, <1>3, <1>4, <1>5, <1>6, <1>7, <1>8, <1>9, <1>10, <1>11, <1>12, <1>13,
     Zenon DEF ManagerStep

LEMMA InputKeeps ==
  ASSUME ManagerInv, NEW r \in Runs, NEW i \in Inputs, InputStep(r, i)
  PROVE  \A q \in Runs : RunInv(q)'
<1>1. CASE flush(r, i)
  BY <1>1, RunsUntouched DEF ManagerInv, flush, worker, manager
<1>2. CASE InputExits(r, i)
  BY <1>2 DEF InputExits, ManagerInv, Types, ManagerTypes, RunInv, Coupled, Emptied, Drains, Held,
     worker, manager
<1> QED
  BY <1>1, <1>2 DEF InputStep

LEMMA Inductive ==
  ASSUME ManagerInv, [Next]_vars
  PROVE  ManagerInv'
<1>1. CASE UNCHANGED vars
  <2>1. Types'
    BY <1>1 DEF vars, control, worker, manager, counters, ManagerInv, Types, ControlTypes, RunTypes,
       ManagerTypes
  <2> QED
    BY <1>1, <2>1, RunsUntouched DEF vars, worker, manager, ManagerInv
<1>2. CASE Next
  <2>1. Types'
    BY <1>2, TypesStep DEF ManagerInv
  <2>2. CASE ControlPlane \/ Expire
    BY <2>1, <2>2, RunsUntouched DEF ManagerInv, ControlPlane, Expire, CreateGroup, DeleteGroup,
       UpdateGroupDesiredStatus, UpdateInputDesiredStatus, AddInputs, Change, worker, manager
  <2>3. ASSUME NEW r \in Runs, Stop(r) \/ ReleaseGroupLease(r) PROVE ManagerInv'
    BY <2>1, <2>3, RunsUntouched DEF ManagerInv, Stop, ReleaseGroupLease, worker, manager
  <2> QED
    BY <1>2, <2>1, <2>2, <2>3, WorkerKeeps, ManagerKeeps, InputKeeps DEF ManagerInv, Next
<1> QED
  BY <1>1, <1>2

LEMMA Invariant == Spec => []ManagerInv
BY Initially, Inductive, PTL DEF Spec

(* TypeOK holds in every state: the variables have their types, and a       *)
(* manager exists exactly while its group worker needs it.                  *)
THEOREM TypeCorrect == Spec => []TypeOK
<1>1. ManagerInv => TypeOK
  BY TypesCoupled DEF ManagerInv, RunInv
<1> QED
  BY <1>1, Invariant, PTL

(* No input worker escapes its manager: every goroutine is in               *)
(* inputManager.active or waited for by stopInput, and none is left when    *)
(* the group worker ends, for any number of runs, inputs and faults.        *)
THEOREM NoWorkerEscapes == Spec => []WorkersManaged
<1>1. ASSUME ManagerInv PROVE WorkersManaged
  <2> SUFFICES ASSUME NEW r \in Runs, NEW i \in Inputs, live[r][i] # "none"
               PROVE  /\ i \in active[r] \/ draining[r] = i
                      /\ phase[r] \in {"running", "stopping"}
    BY DEF WorkersManaged
  <2>1. RunInv(r) /\ phase[r] \in Phases
    BY <1>1 DEF ManagerInv, Types, RunTypes
  <2>2. i \in active[r] \/ draining[r] = i
    BY <2>1 DEF RunInv, Held
  <2>3. mpc[r] # "off"
    BY <2>1, <2>2, RunsAssumption DEF RunInv, Emptied
  <2> QED
    BY <2>1, <2>2, <2>3 DEF RunInv, Coupled, Phases
<1> QED
  BY <1>1, Invariant, PTL

-----------------------------------------------------------------------------
(* Who writes a status row. *)
LEMMA RunWritesItsOwn ==
  ASSUME Types, NEW r \in Runs, NEW i \in Inputs,
         \/ tryStartWorker(r) \/ Stop(r) \/ ReleaseGroupLease(r) \/ renewFails(r) \/ Crash(r)
         \/ WorkerStep(r) \/ ManagerStep(r) \/ stopAll(r)
         \/ \E j \in Inputs : InputStep(r, j),
         status'[i] # status[i]
  PROVE  status'[i].by = r
<1> DEFINE Writes(j) == \E s \in Statuses : ReportStreamRuntimeStatus(r, j, s)
<1>1. ASSUME NEW j \in Inputs, Writes(j) PROVE status'[i].by = r
  BY <1>1, ReportTyped DEF Types
<1> SUFFICES \E j \in Inputs : Writes(j)
  BY <1>1
<1> HIDE DEF Writes
<1>2. ASSUME NEW j \in Inputs, NEW s \in Statuses,
             \/ ReportStreamRuntimeStatus(r, j, s) \/ ReportOnce(r, j, s)
             \/ ReportEachPass(r, j, s)
      PROVE  Writes(j)
  BY <1>2, Zenon DEF Writes, ReportOnce, ReportEachPass
<1>3. /\ "starting" \in Statuses /\ "live" \in Statuses /\ "startError" \in Statuses
      /\ "paused" \in Statuses /\ "stopped" \in Statuses /\ "lost" \in Statuses
  BY DEF Statuses
<1>4. CASE WorkerStep(r)
  BY <1>2, <1>3, <1>4 DEF WorkerStep, startManager, stopManager, finish, WorkerDone, leaseLost,
     leaseLoopEnds, reportAllStarting, reportAllTerminal
<1>5. CASE ManagerStep(r)
  BY <1>2, <1>3, <1>5 DEF ManagerStep, tick, reconcile, ListFailed, StopsDone, InactiveDone,
     PassDone, ManagerDone, stopInput, InputStopped, reportInactive, KeepInput, SkipGapped,
     startInput
<1>6. CASE \E j \in Inputs : InputStep(r, j)
  BY <1>2, <1>3, <1>6 DEF InputStep, flush, InputExits
<1>7. ~(\/ tryStartWorker(r) \/ Stop(r) \/ ReleaseGroupLease(r) \/ renewFails(r) \/ Crash(r)
        \/ stopAll(r))
  BY DEF tryStartWorker, Stop, ReleaseGroupLease, renewFails, leaseLoopEnds, Crash, stopAll
<1> QED
  BY <1>4, <1>5, <1>6, <1>7

(* A run whose worker is terminal writes nothing but its terminal report. *)
LEMMA FinishedWrites ==
  ASSUME ManagerInv, NEW r \in Runs, NEW i \in Inputs, phase[r] = "finish", i \notin report[r],
         \/ tryStartWorker(r) \/ Stop(r) \/ ReleaseGroupLease(r) \/ renewFails(r) \/ Crash(r)
         \/ WorkerStep(r) \/ ManagerStep(r) \/ stopAll(r)
         \/ \E j \in Inputs : InputStep(r, j)
  PROVE  status'[i] = status[i]
<1>1. mpc[r] = "off" /\ draining[r] = None
  BY DEF ManagerInv, RunInv, Coupled, Emptied
<1>2. \A j \in Inputs : live[r][j] = "none"
  BY <1>1, RunsAssumption DEF ManagerInv, RunInv, Emptied, Held
<1>3. ~ManagerStep(r) /\ ~stopAll(r)
  BY <1>1, RunsAssumption DEF ManagerStep, tick, reconcile, ListFailed, StopsDone, InactiveDone,
     PassDone, ManagerDone, NextLoop, stopInput, InputStopped, reportInactive, KeepInput,
     SkipGapped, startInput, stopAll
<1>4. \A j \in Inputs : ~InputStep(r, j)
  BY <1>2 DEF InputStep, flush, InputExits
<1>5. ASSUME NEW j \in Inputs, reportAllTerminal(r, j) PROVE status'[i] = status[i]
  <2>1. report[r] # {} /\ j = First(report[r])
    BY <1>5 DEF reportAllTerminal
  <2>2. j \in report[r]
    BY <2>1 DEF First
  <2> QED
    BY <1>5, <2>2 DEF reportAllTerminal, ReportOnce, ReportStreamRuntimeStatus, ManagerInv, Types,
       ControlTypes
<1>6. CASE WorkerStep(r)
  BY <1>5, <1>6 DEF WorkerStep, startManager, stopManager, finish, WorkerDone, leaseLost,
     leaseLoopEnds, reportAllStarting
<1>7. CASE tryStartWorker(r) \/ Stop(r) \/ ReleaseGroupLease(r) \/ renewFails(r) \/ Crash(r)
  BY <1>7 DEF tryStartWorker, Stop, ReleaseGroupLease, renewFails, leaseLoopEnds, Crash
<1> QED
  BY <1>3, <1>4, <1>6, <1>7

(* reportAll is the last writer of its run: once finish has reported an     *)
(* input, no flush, pass or drain of the same run writes its row again.     *)
THEOREM TerminalReportIsLast == Spec => TerminalIsLast
<1> DEFINE Last == \A r \in Runs, i \in Inputs :
                     phase[r] = "finish" /\ i \notin report[r] /\ status'[i] # status[i] =>
                       status'[i].by # r
<1>1. ASSUME ManagerInv, Next PROVE Last
  <2> SUFFICES ASSUME NEW r \in Runs, NEW i \in Inputs, phase[r] = "finish",
                      i \notin report[r], status'[i] # status[i]
               PROVE  status'[i].by # r
    OBVIOUS
  <2>1. CASE ControlPlane \/ Expire
    <3>1. DeleteGroup
      BY <2>1 DEF ControlPlane, Expire, CreateGroup, UpdateGroupDesiredStatus,
         UpdateInputDesiredStatus, AddInputs
    <3> QED
      BY <3>1, RunsAssumption DEF DeleteGroup, NoRow
  <2>2. ASSUME NEW q \in Runs,
               \/ tryStartWorker(q) \/ Stop(q) \/ ReleaseGroupLease(q) \/ renewFails(q)
               \/ Crash(q) \/ WorkerStep(q) \/ ManagerStep(q) \/ stopAll(q)
               \/ \E j \in Inputs : InputStep(q, j)
        PROVE  status'[i].by # r
    <3>1. q # r
      BY <1>1, <2>2, FinishedWrites
    <3> QED
      BY <1>1, <2>2, <3>1, RunWritesItsOwn DEF ManagerInv
  <2> QED
    BY <1>1, <2>1, <2>2 DEF Next
<1>2. ASSUME ManagerInv, [Next]_vars PROVE [Last]_vars
  BY <1>1, <1>2
<1> QED
  BY <1>2, Invariant, PTL DEF Spec, TerminalIsLast
=============================================================================
