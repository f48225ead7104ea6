------------------------------ MODULE Partitions ------------------------------
(***************************************************************************)
(* The hourly partitions of orderbook_deltas and the maintenance passes    *)
(* that every runtime process runs: precreation, retention, the registry   *)
(* table and the advisory lock.  Each SQL statement is a step, because     *)
(* none of them shares a transaction with another.                         *)
(*                                                                         *)
(* A tick is half an hour, so that the clock may stand on the boundary of  *)
(* an hour or inside one.                                                  *)
(***************************************************************************)
EXTENDS Integers

CONSTANTS
  Managers,    \* OrderBookDeltaPartitionManagers, one per runtime process
  None,        \* no manager
  Migrated,    \* hours the migration has created partitions for
  Horizon,     \* PrecreateHorizon
  Retention,   \* Retention
  MaxOutage,   \* bound on the time between two passes that created everything
  MaxTime,     \* bound on the clock
  FaultKinds,  \* which of "pass" and "detach" may happen
  MaxFaults    \* bound on how many of them happen

Hour == 2
Start(h) == h * Hour
End(h) == (h + 1) * Hour

(* time.Truncate(time.Hour) *)
HourOf(t) == t \div Hour

(* Every hour a pass may ever look at. *)
Hours == 0 .. HourOf(MaxTime + Horizon)

ASSUME ManagersAssumption == None \notin Managers
ASSUME DurationAssumption == Horizon \in Nat /\ Retention \in Nat \ {0}
ASSUME BoundAssumption == MaxTime \in Nat \ {0} /\ MaxFaults \in Nat /\ MaxOutage \in Nat
ASSUME FaultAssumption == FaultKinds \subseteq {"pass", "detach"}

(* The migration leaves the current hour and as many as the horizon asks for. *)
ASSUME MigratedAssumption ==
  /\ Migrated \subseteq Hours /\ 0 \in Migrated
  /\ \A h \in Hours : Start(h) < Horizon + 1 => h \in Migrated

(* Some pass creates everything again before the horizon is used up. *)
ASSUME OutageAssumption == MaxOutage < Horizon

VARIABLES
  now,       \* clock of the database
  table,     \* hour -> is there a table, and is it a partition
  registry,  \* rows of orderbook_delta_partitions
  lock,      \* holder of the advisory lock, or None
  pc,        \* statement a manager's pass is at
  at,        \* clock_timestamp() the pass has read
  hour,      \* partition the pass is creating or dropping
  todo,      \* expired partitions the pass has still to drop
  covered,   \* clock reading of the last pass that created everything
  faults     \* passes cut short so far

pass == <<pc, at, hour, todo>>
vars == <<now, table, registry, lock, pass, covered, faults>>

TableStates == {"none", "attached", "pending", "detached"}
PCs == {"idle", "clock", "create", "record", "list", "drop", "detach", "wait",
        "dropTable", "forget"}

(* Types, and a pass holds the lock for as long as it lasts. *)
TypeOK ==
  /\ now \in 0 .. MaxTime
  /\ table \in [Hours -> TableStates]
  /\ registry \subseteq Hours
  /\ lock \in Managers \cup {None}
  /\ pc \in [Managers -> PCs]
  /\ at \in [Managers -> 0 .. MaxTime]
  /\ hour \in [Managers -> Hours]
  /\ todo \in [Managers -> SUBSET Hours]
  /\ covered \in 0 .. MaxTime
  /\ faults \in 0 .. MaxFaults
  /\ \A m \in Managers :
       /\ pc[m] # "idle" <=> lock = m
       /\ pc[m] \in {"detach", "wait", "dropTable", "forget"} => hour[m] \in todo[m]

Init ==
  /\ now \in 0 .. 1
  /\ table = [h \in Hours |-> IF h \in Migrated THEN "attached" ELSE "none"]
  /\ registry = Migrated
  /\ lock = None
  /\ pc = [m \in Managers |-> "idle"]
  /\ at = [m \in Managers |-> 0]
  /\ hour = [m \in Managers |-> 0]
  /\ todo = [m \in Managers |-> {}]
  /\ covered = now
  /\ faults = 0

Goto(m, label) == pc' = [pc EXCEPT ![m] = label]

(* The pass returns: the deferred unlock runs, or the session is gone and   *)
(* its lock with it.                                                        *)
Return(m) ==
  /\ lock' = None
  /\ Goto(m, "idle")
  /\ at' = [at EXCEPT ![m] = 0]
  /\ hour' = [hour EXCEPT ![m] = 0]
  /\ todo' = [todo EXCEPT ![m] = {}]

(* Mutant: the answer of pg_try_advisory_lock is not looked at. *)
MaintainUnlocked(m) ==
  /\ pc[m] = "idle"
  /\ lock' = m
  /\ Goto(m, "clock")
  /\ UNCHANGED <<now, table, registry, at, hour, todo, covered, faults>>

(* pg_try_advisory_lock; whoever does not get it has nothing to do. *)
Maintain(m) ==
  /\ pc[m] = "idle"
  /\ lock = None
  /\ lock' = m
  /\ Goto(m, "clock")
  /\ UNCHANGED <<now, table, registry, at, hour, todo, covered, faults>>

ReadClock(m) ==
  /\ pc[m] = "clock"
  /\ at' = [at EXCEPT ![m] = now]
  /\ hour' = [hour EXCEPT ![m] = HourOf(now)]
  /\ Goto(m, "create")
  /\ UNCHANGED <<now, table, registry, lock, todo, covered, faults>>

(* CREATE TABLE IF NOT EXISTS ... PARTITION OF *)
createDeltaPartition(m) ==
  /\ pc[m] = "create"
  /\ table' = [table EXCEPT ![hour[m]] = IF @ = "none" THEN "attached" ELSE @]
  /\ Goto(m, "record")
  /\ UNCHANGED <<now, registry, lock, at, hour, todo, covered, faults>>

(* Mutant: an hour is created only if it ends before the horizon. *)
PrecreateWholeHours(m, h) == End(h) < at[m] + Horizon

(* The loop's condition for the hours after the current one. *)
Precreate(m, h) == Start(h) < at[m] + Horizon

(* The registry row, and on to the next hour or to the expired ones. *)
RecordPartition(m) ==
  LET next == hour[m] + 1 IN
  /\ pc[m] = "record"
  /\ registry' = registry \cup {hour[m]}
  /\ IF Precreate(m, next)
     THEN /\ hour' = [hour EXCEPT ![m] = next]
          /\ Goto(m, "create")
          /\ UNCHANGED covered
     ELSE /\ covered' = at[m]
          /\ Goto(m, "list")
          /\ UNCHANGED hour
  /\ UNCHANGED <<now, table, lock, at, todo, faults>>

(* Registered partitions whose upper bound has passed the cutoff. *)
Expired(m) == {h \in registry : End(h) <= at[m] - Retention}

ListExpired(m) ==
  /\ pc[m] = "list"
  /\ todo' = [todo EXCEPT ![m] = Expired(m)]
  /\ Goto(m, "drop")
  /\ UNCHANGED <<now, table, registry, lock, at, hour, covered, faults>>

(* Mutant: the registry row goes before the table, and a pass that ends in  *)
(* between leaves a table nobody knows of.                                  *)
InspectForgetsFirst(m) ==
  /\ pc[m] = "drop"
  /\ \E h \in todo[m] :
       /\ \A g \in todo[m] : h <= g
       /\ hour' = [hour EXCEPT ![m] = h]
       /\ registry' = registry \ {h}
       /\ Goto(m, IF table[h] \in {"attached", "pending"} THEN "detach" ELSE "dropTable")
  /\ UNCHANGED <<now, table, lock, at, todo, covered, faults>>

(* dropDeltaPartition looks the oldest one up in pg_inherits, where one     *)
(* whose detach is pending still is.                                        *)
InspectPartition(m) ==
  /\ pc[m] = "drop"
  /\ \E h \in todo[m] :
       /\ \A g \in todo[m] : h <= g
       /\ hour' = [hour EXCEPT ![m] = h]
       /\ Goto(m, IF table[h] \in {"attached", "pending"} THEN "detach" ELSE "dropTable")
  /\ UNCHANGED <<now, table, registry, lock, at, todo, covered, faults>>

(* DETACH PARTITION ... CONCURRENTLY marks the partition in a transaction   *)
(* of its own, waits for whoever uses it, and removes it in a second one.   *)
(* PostgreSQL allows one pending detach of a parent.                        *)
DetachBegin(m) ==
  /\ pc[m] = "detach"
  /\ \A h \in Hours : table[h] # "pending"
  /\ table' = [table EXCEPT ![hour[m]] = "pending"]
  /\ Goto(m, "wait")
  /\ UNCHANGED <<now, registry, lock, at, hour, todo, covered, faults>>

DetachFinish(m) ==
  /\ pc[m] = "wait"
  /\ table' = [table EXCEPT ![hour[m]] = "detached"]
  /\ Goto(m, "dropTable")
  /\ UNCHANGED <<now, registry, lock, at, hour, todo, covered, faults>>

DetachRefused(m) ==
  /\ pc[m] = "detach"
  /\ \E h \in Hours : table[h] = "pending"
  /\ Return(m)
  /\ UNCHANGED <<now, table, registry, covered, faults>>

DropTable(m) ==
  /\ pc[m] = "dropTable"
  /\ table' = [table EXCEPT ![hour[m]] = "none"]
  /\ Goto(m, "forget")
  /\ UNCHANGED <<now, registry, lock, at, hour, todo, covered, faults>>

ForgetPartition(m) ==
  /\ pc[m] = "forget"
  /\ registry' = registry \ {hour[m]}
  /\ todo' = [todo EXCEPT ![m] = @ \ {hour[m]}]
  /\ Goto(m, "drop")
  /\ UNCHANGED <<now, table, lock, at, hour, covered, faults>>

PassDone(m) ==
  /\ pc[m] = "drop"
  /\ todo[m] = {}
  /\ Return(m)
  /\ UNCHANGED <<now, table, registry, covered, faults>>

(* A statement fails, the context is canceled or the process dies.  In the  *)
(* middle of a detach this leaves the partition pending.                    *)
PassFails(m) ==
  /\ pc[m] # "idle"
  /\ (IF pc[m] = "wait" THEN "detach" ELSE "pass") \in FaultKinds
  /\ faults < MaxFaults
  /\ faults' = faults + 1
  /\ Return(m)
  /\ UNCHANGED <<now, table, registry, covered>>

Tick ==
  /\ now < MaxTime
  /\ now + 1 <= covered + MaxOutage
  /\ now' = now + 1
  /\ UNCHANGED <<table, registry, lock, pass, covered, faults>>

Proceed(m) ==
  \/ ReadClock(m) \/ createDeltaPartition(m) \/ RecordPartition(m) \/ ListExpired(m)
  \/ InspectPartition(m) \/ DetachBegin(m) \/ DetachFinish(m) \/ DetachRefused(m)
  \/ DropTable(m) \/ ForgetPartition(m) \/ PassDone(m)

Next == Tick \/ \E m \in Managers : Maintain(m) \/ Proceed(m) \/ PassFails(m)

Spec == Init /\ [][Next]_vars

(* Time passes, the ticker of Run starts passes, and a pass that nothing    *)
(* cuts short goes on.                                                      *)
FairSpec ==
  /\ Spec
  /\ WF_vars(Tick)
  /\ \A m \in Managers : WF_vars(Maintain(m)) /\ WF_vars(Proceed(m))

-----------------------------------------------------------------------------
(* Every hour that has begun and is not older than the retention has its    *)
(* partition attached: deltas stamped with the current time find one, and   *)
(* none are dropped before the cutoff, whatever clock reading a pass works  *)
(* with and wherever earlier passes ended.                                  *)
RetainedHoursAttached ==
  \A h \in Hours : Start(h) <= now /\ now < End(h) + Retention => table[h] = "attached"

(* A table that exists is registered before its hour begins, although       *)
(* CREATE TABLE and the registry row are two statements: a partition that   *)
(* the registry misses would never be dropped.                              *)
TablesAreRegistered ==
  \A h \in Hours : table[h] # "none" /\ Start(h) <= now => h \in registry

(* An interrupted detach: DETACH ... CONCURRENTLY is refused from then on,  *)
(* and nothing in the code finalizes it.                                    *)
DetachInterrupted ==
  \E h \in Hours :
    /\ table[h] = "pending"
    /\ \A m \in Managers : ~(pc[m] = "wait" /\ hour[m] = h)

(* Retention is enforced ("A failed pass is logged and retried on the next  *)
(* tick"): a fully expired hour loses its table and its registry row in the *)
(* end, wherever passes were cut short, unless that was inside a detach.    *)
ExpiredHoursGo ==
  \A h \in Hours :
    End(h) + Retention <= now ~>
      (table[h] = "none" /\ h \notin registry) \/ DetachInterrupted

=============================================================================
