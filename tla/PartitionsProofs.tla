--------------------------- MODULE PartitionsProofs ---------------------------
(***************************************************************************)
(* Proofs about Partitions for every number of runtime processes, every    *)
(* horizon and retention, and passes that end at any statement.            *)
(***************************************************************************)
EXTENDS Partitions, TLAPS

LEMMA HourArithmetic ==
  ASSUME NEW t \in Nat
  PROVE  /\ HourOf(t) \in Nat
         /\ Start(HourOf(t)) <= t /\ t < End(HourOf(t))
         /\ \A h \in Nat : h < HourOf(t) => Start(h) < t
         /\ \A h \in Nat : HourOf(t) <= h => t < End(h)
<1> DEFINE q == t \div 2
<1>1. q \in Nat /\ 2 * q <= t /\ t < 2 * q + 2
  OBVIOUS
<1> QED
  BY <1>1 DEF HourOf, Start, End, Hour

LEMMA HoursType ==
  /\ \A h \in Hours : h \in Nat /\ Start(h) \in Nat /\ End(h) \in Nat
  /\ 0 \in Hours
  /\ \A t \in 0 .. MaxTime : HourOf(t) \in Hours
  /\ \A h \in Nat : Start(h) < MaxTime + Horizon => h \in Hours
<1> DEFINE N == HourOf(MaxTime + Horizon)
<1>1. MaxTime \in Nat /\ Horizon \in Nat
  BY BoundAssumption, DurationAssumption
<1>2. N \in Nat /\ 2 * N <= MaxTime + Horizon /\ MaxTime + Horizon < 2 * N + 2
  BY <1>1, HourArithmetic DEF Start, End, Hour
<1>3. ASSUME NEW t \in 0 .. MaxTime PROVE HourOf(t) \in Nat /\ 2 * HourOf(t) <= t
  BY <1>1, HourArithmetic DEF Start, Hour
<1> HIDE DEF N
<1>4. Hours = 0 .. N
  BY DEF Hours, N
<1>5. \A t \in 0 .. MaxTime : HourOf(t) \in 0 .. N
  BY <1>1, <1>2, <1>3
<1>6. \A h \in Nat : 2 * h < MaxTime + Horizon => h \in 0 .. N
  BY <1>1, <1>2
<1> QED
  BY <1>2, <1>4, <1>5, <1>6 DEF Start, End, Hour

LEMMA TypeInit == Init => TypeOK
<1> SUFFICES ASSUME Init PROVE TypeOK
  OBVIOUS
<1>1. now \in 0 .. MaxTime /\ 0 \in 0 .. MaxTime /\ 0 \in 0 .. MaxFaults
  BY BoundAssumption DEF Init
<1> QED
  BY <1>1, HoursType, ManagersAssumption, MigratedAssumption DEF Init, TypeOK, TableStates, PCs

LEMMA TypeReturn ==
  ASSUME TypeOK, NEW m \in Managers, lock = m, Return(m), UNCHANGED <<now, table, registry, covered>>,
         faults' \in 0 .. MaxFaults
  PROVE  TypeOK'
<1>1. 0 \in 0 .. MaxTime
  BY BoundAssumption
<1> QED
  BY <1>1, HoursType, ManagersAssumption DEF TypeOK, Return, Goto, PCs

LEMMA TypeStep ==
  ASSUME TypeOK, Next
  PROVE  TypeOK'
<1> USE DEF Goto, PCs, TableStates
<1>0. MaxTime \in Nat /\ MaxFaults \in Nat
  BY BoundAssumption
<1>1. CASE Tick
  BY <1>0, <1>1 DEF TypeOK, Tick, pass
<1>2. ASSUME NEW m \in Managers, Maintain(m) PROVE TypeOK'
  BY <1>2, ManagersAssumption DEF TypeOK, Maintain
<1>3. ASSUME NEW m \in Managers, PassFails(m) PROVE TypeOK'
  BY <1>0, <1>3, TypeReturn DEF TypeOK, PassFails
<1>4. ASSUME NEW m \in Managers, Proceed(m) PROVE TypeOK'
  <2>1. CASE ReadClock(m)
    BY <2>1, HoursType DEF TypeOK, ReadClock
  <2>2. CASE createDeltaPartition(m)
    BY <2>2 DEF TypeOK, createDeltaPartition
  <2>3. CASE RecordPartition(m)
    <3>1. hour[m] \in Hours /\ at[m] \in 0 .. MaxTime /\ Horizon \in Nat
      BY DurationAssumption DEF TypeOK
    <3>2. Precreate(m, hour[m] + 1) => hour[m] + 1 \in Hours
      BY <1>0, <3>1, HoursType DEF Precreate, Start, Hour
    <3> QED
      BY <2>3, <3>1, <3>2 DEF TypeOK, RecordPartition
  <2>4. CASE ListExpired(m)
    BY <2>4 DEF TypeOK, ListExpired, Expired
  <2>5. CASE InspectPartition(m)
    BY <2>5 DEF TypeOK, InspectPartition
  <2>6. CASE DetachBegin(m) \/ DetachFinish(m) \/ DropTable(m)
    BY <2>6 DEF TypeOK, DetachBegin, DetachFinish, DropTable
  <2>7. CASE ForgetPartition(m)
    BY <2>7 DEF TypeOK, ForgetPartition
  <2>8. CASE DetachRefused(m) \/ PassDone(m)
    BY <2>8, TypeReturn DEF TypeOK, DetachRefused, PassDone
  <2> QED
    BY <1>4, <2>1, <2>2, <2>3, <2>4, <2>5, <2>6, <2>7, <2>8 DEF Proceed
<1> QED
  BY <1>1, <1>2, <1>3, <1>4 DEF Next

(***************************************************************************)
(* Types, and the advisory lock: a pass is under way exactly in the        *)
(* process that holds it, so no two processes run Maintain's statements at *)
(* once, and a pass only detaches and drops hours it listed as expired.    *)
(***************************************************************************)
THEOREM TypeCorrect == Spec => []TypeOK
<1>1. TypeOK /\ [Next]_vars => TypeOK'
  <2> SUFFICES ASSUME TypeOK, [Next]_vars PROVE TypeOK'
    OBVIOUS
  <2>1. CASE UNCHANGED vars
    BY <2>1 DEF TypeOK, vars, pass
  <2> QED
    BY <2>1, TypeStep
<1> QED
  BY <1>1, TypeInit, PTL DEF Spec

-----------------------------------------------------------------------------
(* Past its clock reading, a pass works with the hours of that reading. *)
Working(m) == pc[m] \notin {"idle", "clock"}

(* Hours that should have a partition and do not, or not a usable one. *)
Lost(h) ==
  \/ table[h] \in {"pending", "detached"}
  \/ table[h] = "none" /\ Start(h) < covered + Horizon

(* Only hours beyond the retention, seen from time t, are lost. *)
LostBy(t) == \A h \in Hours : Lost(h) => End(h) + Retention <= t

(* The database clock runs ahead of the last full pass by a bounded outage. *)
ClockInv == covered <= now /\ now <= covered + MaxOutage

(* What the pass has read is not older than the last full pass, and no hour *)
(* it takes for retained is lost.                                           *)
ReadingFits(m) == Working(m) => covered <= at[m] /\ at[m] <= now /\ LostBy(at[m])

(* What the pass has still to drop is expired by its own reading. *)
OnlyExpired(m) ==
  IF Working(m) THEN \A h \in todo[m] : End(h) + Retention <= at[m] ELSE todo[m] = {}

(* The hours the creating loop has passed are attached and registered. *)
Created(m) ==
  pc[m] \in {"create", "record"} =>
    /\ HourOf(at[m]) <= hour[m]
    /\ \A h \in Hours : HourOf(at[m]) <= h /\ h < hour[m] => table[h] = "attached" /\ h \in registry
    /\ pc[m] = "record" => table[hour[m]] = "attached"

(* What the pass found or left of the table it drops is still so. *)
TableSeen(m) ==
  /\ pc[m] \in {"detach", "wait"} => table[hour[m]] # "none"
  /\ pc[m] = "forget" => table[hour[m]] = "none"

(* A table inside the horizon of the last full pass is registered. *)
Registered ==
  \A h \in Hours : table[h] # "none" /\ Start(h) < covered + Horizon => h \in registry

PassInv(m) == ReadingFits(m) /\ OnlyExpired(m) /\ Created(m) /\ TableSeen(m)

CoverInv ==
  /\ ClockInv
  /\ LostBy(now)
  /\ Registered
  /\ \A m \in Managers : PassInv(m)

(* A pass past the lock excludes every other. *)
LEMMA OthersIdle ==
  ASSUME TypeOK, NEW m \in Managers, pc[m] # "idle", NEW n \in Managers, n # m
  PROVE  pc[n] = "idle" /\ lock = m
BY DEF TypeOK

LEMMA IdleInv ==
  ASSUME NEW m \in Managers, pc[m] \in {"idle", "clock"}, todo[m] = {}
  PROVE  PassInv(m)
BY DEF PassInv, ReadingFits, OnlyExpired, Created, TableSeen, Working

LEMMA Numbers ==
  ASSUME TypeOK
  PROVE  /\ now \in Nat /\ covered \in Nat
         /\ \A m \in Managers : at[m] \in Nat /\ hour[m] \in Hours /\ hour[m] \in Nat
         /\ Horizon \in Nat /\ Retention \in Nat /\ MaxOutage \in Nat /\ MaxTime \in Nat
         /\ MaxOutage < Horizon /\ Retention # 0
BY HoursType, BoundAssumption, DurationAssumption, OutageAssumption DEF TypeOK

LEMMA CoverInit == Init => CoverInv
<1> SUFFICES ASSUME Init PROVE CoverInv
  OBVIOUS
<1>1. now \in 0 .. 1 /\ covered = now /\ MaxOutage \in Nat /\ Horizon \in Nat
  BY BoundAssumption, DurationAssumption DEF Init
<1>2. ClockInv
  BY <1>1 DEF ClockInv
<1>3. \A h \in Hours : Start(h) \in Nat /\ (Start(h) < covered + Horizon => h \in Migrated)
  BY <1>1, HoursType, MigratedAssumption
<1>4. LostBy(now) /\ Registered
  BY <1>3 DEF Init, LostBy, Lost, Registered
<1>5. \A m \in Managers : PassInv(m)
  BY IdleInv DEF Init
<1> QED
  BY <1>2, <1>4, <1>5 DEF CoverInv

(* Steps of a pass that leave the tables, the registry and the clock alone. *)
LEMMA CoverPassOnly ==
  ASSUME TypeOK, CoverInv, NEW m \in Managers, pc[m] # "idle" \/ lock = None,
         UNCHANGED <<now, table, registry, covered>>,
         \A n \in Managers \ {m} : pc'[n] = pc[n] /\ at'[n] = at[n] /\ hour'[n] = hour[n] /\ todo'[n] = todo[n],
         PassInv(m)'
  PROVE  CoverInv'
<1>1. ClockInv' /\ LostBy(now)' /\ Registered'
  BY DEF CoverInv, ClockInv, LostBy, Lost, Registered
<1>2. \A n \in Managers \ {m} : PassInv(n)'
  BY DEF CoverInv, PassInv, ReadingFits, OnlyExpired, Created, TableSeen, Working, LostBy, Lost
<1> QED
  BY <1>1, <1>2 DEF CoverInv

(* A pass that returns, at any statement. *)
LEMMA CoverReturn ==
  ASSUME TypeOK, CoverInv, NEW m \in Managers, Return(m), pc[m] # "idle",
         UNCHANGED <<now, table, registry, covered>>
  PROVE  CoverInv'
<1>1. /\ pc'[m] = "idle" /\ todo'[m] = {}
      /\ \A n \in Managers \ {m} : pc'[n] = pc[n] /\ at'[n] = at[n] /\ hour'[n] = hour[n] /\ todo'[n] = todo[n]
  BY DEF Return, Goto, TypeOK
<1>2. PassInv(m)'
  BY <1>1 DEF PassInv, ReadingFits, OnlyExpired, Created, TableSeen, Working
<1> QED
  BY <1>1, <1>2, CoverPassOnly

LEMMA CoverTick ==
  ASSUME TypeOK, CoverInv, Tick
  PROVE  CoverInv'
<1>1. now' = now + 1 /\ now + 1 <= covered + MaxOutage /\ UNCHANGED <<table, registry, pc, at, hour, todo, covered>>
  BY DEF Tick, pass
<1>2. ClockInv'
  BY <1>1, Numbers DEF CoverInv, ClockInv
<1>3. LostBy(now)'
  BY <1>1, Numbers, HoursType DEF CoverInv, LostBy, Lost
<1>4. Registered'
  BY <1>1 DEF CoverInv, Registered
<1>5. ASSUME NEW m \in Managers PROVE PassInv(m)'
  <2>1. ReadingFits(m)'
    BY <1>1, Numbers DEF CoverInv, PassInv, ReadingFits, Working, LostBy, Lost
  <2>2. OnlyExpired(m)' /\ Created(m)' /\ TableSeen(m)'
    BY <1>1 DEF CoverInv, PassInv, OnlyExpired, Created, TableSeen, Working
  <2> QED
    BY <2>1, <2>2 DEF PassInv
<1> QED
  BY <1>2, <1>3, <1>4, <1>5 DEF CoverInv

LEMMA CoverReadClock ==
  ASSUME TypeOK, CoverInv, NEW m \in Managers, ReadClock(m)
  PROVE  CoverInv'
<1>1. /\ pc[m] = "clock" /\ pc'[m] = "create" /\ at'[m] = now /\ hour'[m] = HourOf(now) /\ todo'[m] = todo[m]
      /\ UNCHANGED <<now, table, registry, covered>>
      /\ \A n \in Managers \ {m} : pc'[n] = pc[n] /\ at'[n] = at[n] /\ hour'[n] = hour[n] /\ todo'[n] = todo[n]
  BY DEF ReadClock, Goto, TypeOK
<1>2. todo[m] = {} /\ covered <= now /\ LostBy(now) /\ now \in Nat /\ HourOf(now) \in Nat
  BY <1>1, Numbers, HourArithmetic DEF CoverInv, PassInv, OnlyExpired, Working, ClockInv
<1>3. ReadingFits(m)'
  BY <1>1, <1>2 DEF ReadingFits, LostBy, Lost
<1>4. OnlyExpired(m)' /\ TableSeen(m)'
  BY <1>1, <1>2 DEF OnlyExpired, TableSeen
<1>5. Created(m)'
  BY <1>1, <1>2, HoursType DEF Created
<1> QED
  BY <1>1, <1>3, <1>4, <1>5, CoverPassOnly DEF PassInv

(* What the working pass knows of the hour it is about to create. *)
LEMMA CurrentHourKept ==
  ASSUME TypeOK, CoverInv, NEW m \in Managers, Working(m), NEW h \in Hours, HourOf(at[m]) <= h
  PROVE  ~Lost(h)
<1>1. at[m] < End(h)
  BY Numbers, HoursType, HourArithmetic
<1>2. ~(End(h) + Retention <= at[m])
  BY <1>1, Numbers, HoursType
<1> QED
  BY <1>2 DEF CoverInv, PassInv, ReadingFits, LostBy

LEMMA CoverCreate ==
  ASSUME TypeOK, CoverInv, NEW m \in Managers, createDeltaPartition(m)
  PROVE  CoverInv'
<1> DEFINE h0 == hour[m]
<1>1. /\ pc[m] = "create" /\ pc'[m] = "record" /\ UNCHANGED <<now, registry, at, hour, todo, covered>>
      /\ table' = [table EXCEPT ![h0] = IF @ = "none" THEN "attached" ELSE @]
      /\ \A n \in Managers \ {m} : pc'[n] = pc[n]
  BY DEF createDeltaPartition, Goto, TypeOK
<1>2. h0 \in Hours /\ Working(m) /\ HourOf(at[m]) <= h0 /\ PassInv(m)
  BY <1>1, Numbers DEF CoverInv, PassInv, Created, Working
<1>3. ~Lost(h0)
  BY <1>2, CurrentHourKept
<1>4. table'[h0] = "attached" /\ \A h \in Hours \ {h0} : table'[h] = table[h]
  BY <1>1, <1>2, <1>3 DEF Lost, TypeOK, TableStates
<1>5. \A h \in Hours : Lost(h)' => Lost(h)
  BY <1>1, <1>4 DEF Lost
<1>6. ClockInv' /\ LostBy(now)'
  BY <1>1, <1>5 DEF CoverInv, ClockInv, LostBy
<1>7. Registered'
  <2> SUFFICES ASSUME NEW h \in Hours, table'[h] # "none", Start(h) < covered + Horizon
               PROVE  h \in registry
    BY <1>1 DEF Registered
  <2>1. table[h] # "none"
    BY <1>3, <1>4 DEF Lost
  <2> QED
    BY <2>1 DEF CoverInv, Registered
<1>8. PassInv(m)'
  <2>1. ReadingFits(m)'
    BY <1>1, <1>2, <1>5 DEF PassInv, ReadingFits, LostBy
  <2>2. OnlyExpired(m)' /\ TableSeen(m)'
    BY <1>1, <1>2 DEF PassInv, OnlyExpired, TableSeen, Working
  <2>3. Created(m)'
    BY <1>1, <1>2, <1>4, HoursType DEF PassInv, Created
  <2> QED
    BY <2>1, <2>2, <2>3 DEF PassInv
<1>9. \A n \in Managers \ {m} : PassInv(n)'
  <2> SUFFICES ASSUME NEW n \in Managers \ {m} PROVE PassInv(n)'
    OBVIOUS
  <2>1. pc[n] = "idle"
    BY <1>1, OthersIdle
  <2> QED
    BY <1>1, <2>1 DEF CoverInv, PassInv, ReadingFits, OnlyExpired, Created, TableSeen, Working
<1> QED
  BY <1>6, <1>7, <1>8, <1>9 DEF CoverInv

(* The hours before a reading lie inside the horizon of the last full pass. *)
LEMMA PastHoursInside ==
  ASSUME TypeOK, CoverInv, NEW m \in Managers, Working(m), NEW h \in Hours, h < HourOf(at[m])
  PROVE  Start(h) < covered + Horizon
<1>1. Start(h) < at[m]
  BY Numbers, HoursType, HourArithmetic
<1>2. at[m] <= now /\ now <= covered + MaxOutage
  BY DEF CoverInv, PassInv, ReadingFits, ClockInv
<1> QED
  BY <1>1, <1>2, Numbers, HoursType

LEMMA CoverRecord ==
  ASSUME TypeOK, CoverInv, NEW m \in Managers, RecordPartition(m)
  PROVE  CoverInv'
<1> DEFINE h0 == hour[m]
           next == hour[m] + 1
<1>1. /\ pc[m] = "record" /\ registry' = registry \cup {h0} /\ UNCHANGED <<now, table, at, todo>>
      /\ \A n \in Managers \ {m} : pc'[n] = pc[n] /\ hour'[n] = hour[n]
  BY DEF RecordPartition, Goto, TypeOK
<1>2. h0 \in Hours /\ h0 \in Nat /\ Working(m) /\ PassInv(m)
  BY <1>1, Numbers DEF CoverInv, Working
<1>3. /\ HourOf(at[m]) <= h0 /\ table[h0] = "attached"
      /\ \A h \in Hours : HourOf(at[m]) <= h /\ h <= h0 => table[h] = "attached" /\ h \in registry'
  BY <1>1, <1>2, HoursType DEF PassInv, Created
<1>4. \A n \in Managers \ {m} : PassInv(n)'
  <2> SUFFICES ASSUME NEW n \in Managers \ {m} PROVE PassInv(n)'
    OBVIOUS
  <2>1. pc[n] = "idle"
    BY <1>1, OthersIdle
  <2> QED
    BY <1>1, <2>1 DEF CoverInv, PassInv, ReadingFits, OnlyExpired, Created, TableSeen, Working
<1>5. CASE Precreate(m, next)
  <2>1. hour'[m] = next /\ pc'[m] = "create" /\ UNCHANGED covered
    BY <1>5 DEF RecordPartition, Goto, TypeOK
  <2>2. \A h \in Hours : Lost(h)' = Lost(h)
    BY <1>1, <2>1 DEF Lost
  <2>3. ClockInv' /\ LostBy(now)'
    BY <1>1, <2>1, <2>2 DEF CoverInv, ClockInv, LostBy
  <2>4. Registered'
    BY <1>1, <2>1 DEF CoverInv, Registered
  <2>5. ReadingFits(m)' /\ OnlyExpired(m)' /\ TableSeen(m)'
    BY <1>1, <1>2, <2>1, <2>2 DEF PassInv, ReadingFits, OnlyExpired, TableSeen, Working, LostBy
  <2>6. Created(m)'
    <3>1. HourOf(at[m]) \in Nat
      BY Numbers, HourArithmetic
    <3> QED
      BY <1>1, <1>2, <1>3, <2>1, <3>1, HoursType DEF Created
  <2> QED
    BY <1>4, <2>3, <2>4, <2>5, <2>6 DEF CoverInv, PassInv
<1>6. CASE ~Precreate(m, next)
  <2>1. UNCHANGED hour /\ pc'[m] = "list" /\ covered' = at[m]
    BY <1>6 DEF RecordPartition, Goto, TypeOK
  <2>2. covered <= at[m] /\ at[m] <= now /\ now <= covered + MaxOutage /\ LostBy(at[m])
    BY <1>2 DEF PassInv, ReadingFits, CoverInv, ClockInv
  <2>3. \A h \in Hours : Start(h) < at[m] + Horizon => h <= h0
    <3>1. ~(Start(next) < at[m] + Horizon)
      BY <1>6 DEF Precreate
    <3> QED
      BY <1>2, <3>1, HoursType, Numbers DEF Start, Hour
  <2>4. \A h \in Hours : Lost(h)' => Lost(h)
    <3> SUFFICES ASSUME NEW h \in Hours, table[h] = "none", Start(h) < at[m] + Horizon
                 PROVE  Start(h) < covered + Horizon
      BY <1>1, <2>1 DEF Lost
    <3>1. ~(HourOf(at[m]) <= h)
      BY <1>3, <2>3
    <3>2. h < HourOf(at[m])
      BY <3>1, HoursType, Numbers, HourArithmetic
    <3> QED
      BY <1>2, <3>2, PastHoursInside
  <2>5. ClockInv'
    BY <1>1, <2>1, <2>2, Numbers DEF ClockInv
  <2>6. LostBy(now)' /\ LostBy(at[m])'
    BY <1>1, <2>2, <2>4 DEF CoverInv, LostBy
  <2>7. Registered'
    <3> SUFFICES ASSUME NEW h \in Hours, table[h] # "none", Start(h) < at[m] + Horizon
                 PROVE  h \in registry'
      BY <1>1, <2>1 DEF Registered
    <3>1. CASE HourOf(at[m]) <= h
      BY <1>3, <2>3, <3>1
    <3>2. CASE ~(HourOf(at[m]) <= h)
      <4>1. h < HourOf(at[m])
        BY <3>2, HoursType, Numbers, HourArithmetic
      <4>2. Start(h) < covered + Horizon
        BY <1>2, <4>1, PastHoursInside
      <4> QED
        BY <1>1, <4>2 DEF CoverInv, Registered
    <3> QED
      BY <3>1, <3>2
  <2>8. ReadingFits(m)'
    BY <1>1, <2>1, <2>2, <2>6, Numbers DEF ReadingFits
  <2>9. OnlyExpired(m)' /\ TableSeen(m)' /\ Created(m)'
    BY <1>1, <1>2, <2>1 DEF PassInv, OnlyExpired, TableSeen, Created, Working
  <2> QED
    BY <1>4, <2>5, <2>6, <2>7, <2>8, <2>9 DEF CoverInv, PassInv
<1> QED
  BY <1>5, <1>6

LEMMA CoverList ==
  ASSUME TypeOK, CoverInv, NEW m \in Managers, ListExpired(m)
  PROVE  CoverInv'
<1>1. /\ pc[m] = "list" /\ pc'[m] = "drop" /\ UNCHANGED <<now, table, registry, covered, at, hour>>
      /\ todo'[m] = Expired(m)
      /\ \A n \in Managers \ {m} : pc'[n] = pc[n] /\ todo'[n] = todo[n]
  BY DEF ListExpired, Goto, TypeOK
<1>2. PassInv(m) /\ registry \subseteq Hours
  BY DEF CoverInv, TypeOK
<1>3. OnlyExpired(m)'
  <2>1. \A h \in Expired(m) : End(h) + Retention <= at[m]
    BY <1>2, Numbers, HoursType DEF Expired
  <2> QED
    BY <1>1, <2>1 DEF OnlyExpired, Working
<1>4. ReadingFits(m)' /\ Created(m)' /\ TableSeen(m)'
  BY <1>1, <1>2 DEF PassInv, ReadingFits, Created, TableSeen, Working, LostBy, Lost
<1> QED
  BY <1>1, <1>3, <1>4, CoverPassOnly DEF PassInv

LEMMA CoverInspect ==
  ASSUME TypeOK, CoverInv, NEW m \in Managers, InspectPartition(m)
  PROVE  CoverInv'
<1>1. /\ pc[m] = "drop" /\ pc'[m] \in {"detach", "dropTable"} /\ UNCHANGED <<now, table, registry, covered, at, todo>>
      /\ \A n \in Managers \ {m} : pc'[n] = pc[n] /\ hour'[n] = hour[n]
  BY DEF InspectPartition, Goto, TypeOK
<1>2. PassInv(m)
  BY DEF CoverInv
<1>3. pc'[m] = "detach" => table[hour'[m]] # "none"
  BY DEF InspectPartition, Goto, TypeOK
<1>4. PassInv(m)'
  BY <1>1, <1>2, <1>3 DEF PassInv, ReadingFits, OnlyExpired, Created, TableSeen, Working, LostBy, Lost
<1> QED
  BY <1>1, <1>4, CoverPassOnly

(* A statement that takes the partition of an expired hour away. *)
LEMMA CoverTakeAway ==
  ASSUME TypeOK, CoverInv, NEW m \in Managers, pc[m] \in {"detach", "wait", "dropTable"},
         NEW s \in {"pending", "detached", "none"}, table' = [table EXCEPT ![hour[m]] = s],
         s # "none" => pc[m] \in {"detach", "wait"},
         pc' = [pc EXCEPT ![m] = IF s = "none" THEN "forget" ELSE IF s = "pending" THEN "wait" ELSE "dropTable"],
         UNCHANGED <<now, registry, at, hour, todo, covered>>
  PROVE  CoverInv'
<1> DEFINE h0 == hour[m]
<1>1. /\ h0 \in Hours /\ h0 \in todo[m] /\ Working(m) /\ PassInv(m)
      /\ pc'[m] \in {"forget", "wait", "dropTable"} /\ (pc'[m] = "forget" <=> s = "none")
      /\ \A n \in Managers \ {m} : pc'[n] = pc[n]
  BY Numbers DEF CoverInv, TypeOK, Working
<1>2. table'[h0] = s /\ \A h \in Hours \ {h0} : table'[h] = table[h]
  BY <1>1 DEF TypeOK
<1>3. End(h0) + Retention <= at[m] /\ at[m] <= now
  BY <1>1 DEF PassInv, OnlyExpired, ReadingFits
<1>4. End(h0) + Retention <= now
  BY <1>1, <1>3, Numbers, HoursType
<1>5. \A h \in Hours : Lost(h)' => Lost(h) \/ h = h0
  BY <1>2 DEF Lost
<1>6. ClockInv' /\ LostBy(now)' /\ LostBy(at[m])'
  BY <1>1, <1>3, <1>4, <1>5 DEF CoverInv, ClockInv, LostBy, PassInv, ReadingFits
<1>7. Registered'
  <2> SUFFICES ASSUME NEW h \in Hours, table'[h] # "none", Start(h) < covered + Horizon
               PROVE  h \in registry
    BY DEF Registered
  <2>1. table[h] # "none"
    BY <1>1, <1>2 DEF PassInv, TableSeen
  <2> QED
    BY <2>1 DEF CoverInv, Registered
<1>8. PassInv(m)'
  <2>1. ReadingFits(m)'
    BY <1>1, <1>6 DEF PassInv, ReadingFits
  <2>2. OnlyExpired(m)' /\ Created(m)' /\ TableSeen(m)'
    BY <1>1, <1>2 DEF PassInv, OnlyExpired, Created, TableSeen, Working
  <2> QED
    BY <2>1, <2>2 DEF PassInv
<1>9. \A n \in Managers \ {m} : PassInv(n)'
  <2> SUFFICES ASSUME NEW n \in Managers \ {m} PROVE PassInv(n)'
    OBVIOUS
  <2>1. pc[n] = "idle"
    BY OthersIdle
  <2> QED
    BY <1>1, <2>1 DEF CoverInv, PassInv, ReadingFits, OnlyExpired, Created, TableSeen, Working
<1> QED
  BY <1>6, <1>7, <1>8, <1>9 DEF CoverInv

LEMMA CoverForget ==
  ASSUME TypeOK, CoverInv, NEW m \in Managers, ForgetPartition(m)
  PROVE  CoverInv'
<1>1. /\ pc[m] = "forget" /\ pc'[m] = "drop" /\ UNCHANGED <<now, table, at, hour, covered>>
      /\ registry' = registry \ {hour[m]} /\ todo'[m] \subseteq todo[m]
      /\ \A n \in Managers \ {m} : pc'[n] = pc[n] /\ todo'[n] = todo[n]
  BY DEF ForgetPartition, Goto, TypeOK
<1>2. PassInv(m) /\ table[hour[m]] = "none"
  BY <1>1 DEF CoverInv, PassInv, TableSeen
<1>3. ClockInv' /\ LostBy(now)'
  BY <1>1 DEF CoverInv, ClockInv, LostBy, Lost
<1>4. Registered'
  BY <1>1, <1>2 DEF CoverInv, Registered
<1>5. PassInv(m)'
  BY <1>1, <1>2 DEF PassInv, ReadingFits, OnlyExpired, Created, TableSeen, Working, LostBy, Lost
<1>6. \A n \in Managers \ {m} : PassInv(n)'
  <2> SUFFICES ASSUME NEW n \in Managers \ {m} PROVE PassInv(n)'
    OBVIOUS
  <2>1. pc[n] = "idle"
    BY <1>1, OthersIdle
  <2> QED
    BY <1>1, <2>1 DEF CoverInv, PassInv, ReadingFits, OnlyExpired, Created, TableSeen, Working
<1> QED
  BY <1>3, <1>4, <1>5, <1>6 DEF CoverInv

LEMMA CoverStep ==
  ASSUME TypeOK, CoverInv, Next
  PROVE  CoverInv'
<1>1. CASE Tick
  BY <1>1, CoverTick
<1>2. ASSUME NEW m \in Managers, Maintain(m) PROVE CoverInv'
  <2>1. /\ pc[m] = "idle" /\ pc'[m] = "clock" /\ todo'[m] = todo[m] /\ lock = None
        /\ UNCHANGED <<now, table, registry, covered, at, hour, todo>>
        /\ \A n \in Managers \ {m} : pc'[n] = pc[n]
    BY <1>2 DEF Maintain, Goto, TypeOK
  <2>2. PassInv(m)'
    BY <2>1 DEF CoverInv, PassInv, ReadingFits, OnlyExpired, Created, TableSeen, Working
  <2> QED
    BY <2>1, <2>2, CoverPassOnly
<1>3. ASSUME NEW m \in Managers, PassFails(m) PROVE CoverInv'
  BY <1>3, CoverReturn DEF PassFails
<1>4. ASSUME NEW m \in Managers, Proceed(m) PROVE CoverInv'
  <2>1. CASE ReadClock(m)
    BY <2>1, CoverReadClock
  <2>2. CASE createDeltaPartition(m)
    BY <2>2, CoverCreate
  <2>3. CASE RecordPartition(m)
    BY <2>3, CoverRecord
  <2>4. CASE ListExpired(m)
    BY <2>4, CoverList
  <2>5. CASE InspectPartition(m)
    BY <2>5, CoverInspect
  <2>6. CASE DetachBegin(m)
    BY <2>6, CoverTakeAway DEF DetachBegin, Goto
  <2>7. CASE DetachFinish(m)
    BY <2>7, CoverTakeAway DEF DetachFinish, Goto
  <2>8. CASE DropTable(m)
    BY <2>8, CoverTakeAway DEF DropTable, Goto
  <2>9. CASE DetachRefused(m) \/ PassDone(m)
    BY <2>9, CoverReturn DEF DetachRefused, PassDone
  <2>10. CASE ForgetPartition(m)
    BY <2>10, CoverForget
  <2> QED
    BY <1>4, <2>1, <2>2, <2>3, <2>4, <2>5, <2>6, <2>7, <2>8, <2>9, <2>10 DEF Proceed
<1> QED
  BY <1>1, <1>2, <1>3, <1>4 DEF Next

LEMMA CoverInvariant == Spec => [](TypeOK /\ CoverInv)
<1>1. TypeOK /\ CoverInv /\ [Next]_vars => CoverInv'
  <2> SUFFICES ASSUME TypeOK, CoverInv, [Next]_vars PROVE CoverInv'
    OBVIOUS
  <2>1. CASE UNCHANGED vars
    BY <2>1 DEF CoverInv, ClockInv, LostBy, Lost, Registered, PassInv, ReadingFits, OnlyExpired,
         Created, TableSeen, Working, vars, pass
  <2> QED
    BY <2>1, CoverStep
<1> QED
  BY <1>1, CoverInit, TypeCorrect, PTL DEF Spec

(***************************************************************************)
(* Every hour that has begun and is within the retention has an attached   *)
(* partition, as long as some process completes its creating loop before   *)
(* the horizon is used up: for any number of processes, any horizon and    *)
(* retention, passes that read the clock and stall, and passes that end    *)
(* between any two statements.                                             *)
(***************************************************************************)
THEOREM RetainedAttached == Spec => []RetainedHoursAttached
<1>1. TypeOK /\ CoverInv => RetainedHoursAttached
  <2> SUFFICES ASSUME TypeOK, CoverInv, NEW h \in Hours, Start(h) <= now, now < End(h) + Retention
               PROVE  table[h] = "attached"
    BY DEF RetainedHoursAttached
  <2>1. ~Lost(h)
    <3>1. ~(End(h) + Retention <= now)
      BY Numbers, HoursType
    <3> QED
      BY <3>1 DEF CoverInv, LostBy
  <2>2. Start(h) < covered + Horizon
    BY Numbers, HoursType DEF CoverInv, ClockInv
  <2> QED
    BY <2>1, <2>2 DEF Lost, TypeOK, TableStates
<1> QED
  BY <1>1, CoverInvariant, PTL

(***************************************************************************)
(* No table escapes the registry, although CREATE TABLE and the registry   *)
(* row are two statements and DROP TABLE and the row's removal two more: a *)
(* table whose hour has begun has its row, so retention will find it.      *)
(***************************************************************************)
THEOREM TablesRegistered == Spec => []TablesAreRegistered
<1>1. TypeOK /\ CoverInv => TablesAreRegistered
  <2> SUFFICES ASSUME TypeOK, CoverInv, NEW h \in Hours, table[h] # "none", Start(h) <= now
               PROVE  h \in registry
    BY DEF TablesAreRegistered
  <2>1. Start(h) < covered + Horizon
    BY Numbers, HoursType DEF CoverInv, ClockInv
  <2> QED
    BY <2>1 DEF CoverInv, Registered
<1> QED
  BY <1>1, CoverInvariant, PTL

=============================================================================
