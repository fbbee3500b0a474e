---------------------------- MODULE TdrDuck_proofs ----------------------------
(* Theorems about TdrDuck, for any monitors and adapters, in both duck modes, *)
(* and any number of resets, final exits and requests.                        *)
EXTENDS TdrDuck, SequenceTheorems, TLAPS

-----------------------------------------------------------------------------
(* Sequences: what one element more or less leaves.                        *)

LEMMA Appended ==
  ASSUME NEW T, NEW s \in Seq(T), NEW e \in T
  PROVE  /\ Append(s, e) \in Seq(T) /\ DOMAIN Append(s, e) = DOMAIN s \cup {Len(s) + 1}
         /\ Append(s, e)[Len(s) + 1] = e /\ \A i \in DOMAIN s : Append(s, e)[i] = s[i]
         /\ Len(s) + 1 \notin DOMAIN s
  BY AppendProperties

LEMMA Served ==
  ASSUME NEW T, NEW s \in Seq(T), s # <<>>
  PROVE  /\ Tail(s) \in Seq(T) /\ Head(s) \in T /\ 1 \in DOMAIN s /\ Head(s) = s[1]
         /\ \A i \in DOMAIN Tail(s) : i + 1 \in DOMAIN s \ {1} /\ Tail(s)[i] = s[i + 1]
         /\ \A i \in DOMAIN s \ {1} : i - 1 \in DOMAIN Tail(s) /\ Tail(s)[i - 1] = s[i]
         /\ DOMAIN s \subseteq Int
  <1>1. Len(s) \in Nat \ {0} /\ DOMAIN s = 1 .. Len(s) /\ Head(s) = s[1]
    BY EmptySeq
  <1>2. /\ Tail(s) \in Seq(T) /\ Len(Tail(s)) = Len(s) - 1
        /\ \A i \in 1 .. Len(Tail(s)) : Tail(s)[i] = s[i + 1]
    BY HeadTailProperties
  <1>3. DOMAIN Tail(s) = 1 .. Len(s) - 1
    BY <1>2
  <1> QED
    BY <1>1, <1>2, <1>3

LEMMA Removed ==
  ASSUME NEW T, NEW s \in Seq(T), NEW k \in DOMAIN s
  PROVE  /\ RemoveAt(s, k) \in Seq(T)
         /\ \A i \in DOMAIN RemoveAt(s, k) :
              LET j == IF i < k THEN i ELSE i + 1 IN j \in DOMAIN s \ {k} /\ RemoveAt(s, k)[i] = s[j]
         /\ \A j \in DOMAIN s \ {k} :
              LET i == IF j < k THEN j ELSE j - 1 IN i \in DOMAIN RemoveAt(s, k) /\ RemoveAt(s, k)[i] = s[j]
         /\ DOMAIN s \subseteq Int /\ DOMAIN RemoveAt(s, k) \subseteq Int
  <1> DEFINE a == SubSeq(s, 1, k - 1)
  <1> DEFINE b == SubSeq(s, k + 1, Len(s))
  <1>1. Len(s) \in Nat /\ DOMAIN s = 1 .. Len(s) /\ k \in 1 .. Len(s)
    OBVIOUS
  <1>2. a \in Seq(T) /\ Len(a) = k - 1 /\ \A i \in 1 .. (k - 1) : a[i] = s[i]
    BY <1>1, SubSeqProperties
  <1>3. b \in Seq(T) /\ Len(b) = Len(s) - k /\ \A i \in 1 .. (Len(s) - k) : b[i] = s[k + i]
    BY <1>1, SubSeqProperties
  <1> HIDE DEF a, b
  <1>4. /\ a \o b \in Seq(T) /\ Len(a \o b) = Len(s) - 1
        /\ \A i \in 1 .. (Len(s) - 1) : (a \o b)[i] = IF i <= k - 1 THEN a[i] ELSE b[i - (k - 1)]
    <2>1. /\ a \o b \in Seq(T) /\ Len(a \o b) = Len(a) + Len(b)
          /\ \A i \in 1 .. Len(a) + Len(b) : (a \o b)[i] = IF i <= Len(a) THEN a[i] ELSE b[i - Len(a)]
      BY <1>2, <1>3, ConcatProperties
    <2>2. Len(a) + Len(b) = Len(s) - 1
      BY <1>1, <1>2, <1>3
    <2> QED
      BY <1>1, <1>2, <2>1, <2>2
  <1>5. RemoveAt(s, k) = a \o b
    BY DEF RemoveAt, a, b
  <1>6. \A i \in 1 .. (Len(s) - 1) : (a \o b)[i] = IF i < k THEN s[i] ELSE s[i + 1]
    <2> SUFFICES ASSUME NEW i \in 1 .. (Len(s) - 1)
                 PROVE (a \o b)[i] = IF i < k THEN s[i] ELSE s[i + 1]
      OBVIOUS
    <2>1. CASE i < k
      BY <1>1, <1>2, <1>4, <2>1
    <2>2. CASE ~ (i < k)
      <3>1. i - (k - 1) \in 1 .. (Len(s) - k) /\ k + (i - (k - 1)) = i + 1 /\ ~ (i <= k - 1)
        BY <1>1, <2>2
      <3> QED
        BY <1>3, <1>4, <2>2, <3>1
    <2> QED
      BY <2>1, <2>2
  <1>7. DOMAIN (a \o b) = 1 .. Len(s) - 1
    BY <1>4
  <1> DEFINE c == RemoveAt(s, k)
  <1>8. c \in Seq(T) /\ DOMAIN c = 1 .. Len(s) - 1 /\ \A i \in DOMAIN c : c[i] = IF i < k THEN s[i] ELSE s[i + 1]
    BY <1>4, <1>5, <1>6, <1>7
  <1> HIDE DEF c
  <1> QED
    BY <1>1, <1>8 DEF c

LEMMA Kept ==
  ASSUME NEW T, NEW s \in Seq(T), NEW k \in DOMAIN s, NEW e \in T
  PROVE  [s EXCEPT ![k] = e] \in Seq(T)
  BY ExceptSeq

-----------------------------------------------------------------------------
(* Types.                                                                  *)

LEMMA TypingStep == TypeOK /\ [Next]_vars => TypeOK'
  <1> SUFFICES ASSUME TypeOK, [Next]_vars PROVE TypeOK'
    OBVIOUS
  <1> USE MachineAssumption, BoundsAssumption DEF TypeOK
  (* The queue, one task more or less.                                      *)
  <1>a. /\ queue \in Seq(TaskType) /\ epoch \in 0 .. MaxEpoch
        /\ pollers \in Seq(PollerType) /\ \A p \in DOMAIN pollers : pollers[p] \in PollerType
        /\ luid \in [Sessions -> Luids]
    BY DEF WorkerTypes, DeviceTypes, DuckTypes, MachineTypes
  <1>b. ASSUME NEW op \in TaskOps \cup {"plug", "unplug", "ready"}, NEW e \in 0 .. MaxEpoch,
               NEW S \in SUBSET Sessions
        PROVE [op |-> op, epoch |-> e, sessions |-> S] \in TaskType
    BY DEF TaskType
  <1>c. ASSUME NEW t \in TaskType, queue' = Append(queue, t), job' = job PROVE WorkerTypes'
    BY <1>a, <1>c, Appended DEF WorkerTypes
  <1>d. ASSUME queue # <<>>, queue' = Tail(queue), job' \in JobType \cup {Idle} PROVE WorkerTypes'
    BY <1>a, <1>d, Served DEF WorkerTypes
  <1>e. queue # <<>> => Task \in TaskType
    BY <1>a, Served DEF Task
  (* What the effects worker is at.                                         *)
  <1>f. job.at # "idle" => job \in JobType
    BY DEF WorkerTypes, Idle
  <1>g. ASSUME NEW j \in JobType, queue' = queue, job' = j PROVE WorkerTypes'
    BY <1>g DEF WorkerTypes
  (* The pollers, one more or less, or one that goes on.                    *)
  <1>h. ASSUME NEW kind \in {"device", "display"}, NEW e \in 0 .. MaxEpoch, NEW l \in Luids, NEW S \in SUBSET Sessions
        PROVE Append(pollers, Poller(kind, e, l, S)) \in Seq(PollerType)
    BY <1>a, Appended DEF Poller, PollerType
  <1>i. \A p \in DOMAIN pollers : RemoveAt(pollers, p) \in Seq(PollerType)
    BY <1>a, Removed
  <1>j. ASSUME NEW p \in DOMAIN pollers, NEW q \in PollerType PROVE [pollers EXCEPT ![p] = q] \in Seq(PollerType)
    BY <1>a, Kept
  <1>1. ASSUME NEW l \in Luids, GpuResets(l) PROVE TypeOK'
    <2>1. MachineTypes'
      BY <1>1 DEF GpuResets, MachineTypes, device, duck, table
    <2>2. MonitorTypes'
      BY <1>1 DEF GpuResets, MonitorTypes, device, duck, table, WorkerTypes
    <2>3. DuckTypes'
      BY <1>1 DEF GpuResets, DuckTypes, PollerType, device, duck, table, WorkerTypes,
         MachineTypes, DeviceTypes
    <2>4. WorkerTypes'
      BY <1>1 DEF GpuResets, WorkerTypes, Idle, JobType, TaskOps, TaskType, device, duck,
         table, MachineTypes, DeviceTypes, DuckTypes, MonitorTypes
    <2>5. DeviceTypes'
      BY <1>1 DEF GpuResets, DeviceTypes, device, duck, table
    <2> QED
      BY <2>1, <2>2, <2>3, <2>4, <2>5
  <1>2. ASSUME NEW l \in Luids, GpuAnswers(l) PROVE TypeOK'
    <2>1. MachineTypes'
      BY <1>2 DEF GpuAnswers, MachineTypes, device, duck, monitors, table
    <2>2. MonitorTypes'
      BY <1>2 DEF GpuAnswers, MonitorTypes, device, duck, monitors, table, WorkerTypes
    <2>3. DuckTypes'
      BY <1>2 DEF GpuAnswers, DuckTypes, PollerType, device, duck, monitors, table,
         WorkerTypes, MachineTypes, DeviceTypes
    <2>4. WorkerTypes'
      BY <1>2 DEF GpuAnswers, WorkerTypes, Idle, JobType, TaskOps, TaskType, device, duck,
         monitors, table, MachineTypes, DeviceTypes, DuckTypes, MonitorTypes
    <2>5. DeviceTypes'
      BY <1>2 DEF GpuAnswers, DeviceTypes, device, duck, monitors, table
    <2> QED
      BY <2>1, <2>2, <2>3, <2>4, <2>5
  <1>3. ASSUME NEW s \in Sessions, Assign(s) PROVE TypeOK'
    <2>1. MachineTypes'
      BY <1>3 DEF Assign, MachineTypes, Arrived, device, duck, machine, table
    <2>2. MonitorTypes'
      BY <1>3 DEF Assign, MonitorTypes, Arrived, device, duck, machine, table, WorkerTypes
    <2>3. DuckTypes'
      BY <1>3 DEF Assign, DuckTypes, Arrived, PollerType, device, duck, machine, table,
         WorkerTypes, MachineTypes, DeviceTypes
    <2>4. WorkerTypes'
      BY <1>3 DEF Assign, WorkerTypes, Arrived, Idle, JobType, TaskOps, TaskType, device,
         duck, machine, table, MachineTypes, DeviceTypes, DuckTypes, MonitorTypes
    <2>5. DeviceTypes'
      BY <1>3 DEF Assign, DeviceTypes, Arrived, device, duck, machine, table
    <2> QED
      BY <2>1, <2>2, <2>3, <2>4, <2>5
  <1>4. ASSUME NEW s \in Sessions, Unassign(s) PROVE TypeOK'
    <2>1. MachineTypes'
      BY <1>4 DEF Unassign, MachineTypes, device, duck, machine, table
    <2>2. MonitorTypes'
      BY <1>4 DEF Unassign, MonitorTypes, device, duck, machine, table, WorkerTypes
    <2>3. DuckTypes'
      BY <1>4 DEF Unassign, DuckTypes, PollerType, device, duck, machine, table,
         WorkerTypes, MachineTypes, DeviceTypes
    <2>4. WorkerTypes'
      BY <1>4 DEF Unassign, WorkerTypes, Idle, JobType, TaskOps, TaskType, device, duck,
         machine, table, MachineTypes, DeviceTypes, DuckTypes, MonitorTypes
    <2>5. DeviceTypes'
      BY <1>4 DEF Unassign, DeviceTypes, device, duck, machine, table
    <2> QED
      BY <2>1, <2>2, <2>3, <2>4, <2>5
  <1>5. ASSUME NEW s \in Sessions, NEW op \in {"plug", "unplug"}, Request(s, op) PROVE TypeOK'
    <2>1. MachineTypes'
      BY <1>5 DEF Request, MachineTypes, device, duck, machine
    <2>2. MonitorTypes'
      BY <1>5 DEF Request, MonitorTypes, device, duck, machine, WorkerTypes
    <2>3. DuckTypes'
      BY <1>5 DEF Request, DuckTypes, PollerType, device, duck, machine, WorkerTypes,
         MachineTypes, DeviceTypes
    <2>4. DeviceTypes'
      BY <1>5 DEF Request, DeviceTypes, device, duck, machine
    <2>5. WorkerTypes'
      <3>1. [op |-> op, epoch |-> epoch, sessions |-> {s}] \in TaskType
        BY <1>5, <1>a, <1>b DEF TaskOps, PollerType
      <3> QED
        BY <1>5, <3>1, <1>c DEF Request
    <2> QED
      BY <2>1, <2>2, <2>3, <2>4, <2>5
  <1>6. ASSUME TimePasses PROVE TypeOK'
    <2>1. MachineTypes'
      BY <1>6 DEF TimePasses, MachineTypes, device, machine, monitors, table
    <2>2. MonitorTypes'
      BY <1>6 DEF TimePasses, MonitorTypes, device, machine, monitors, table, WorkerTypes
    <2>3. DuckTypes'
      BY <1>6 DEF TimePasses, DuckTypes, PollerType, device, machine, monitors, table,
         WorkerTypes, MachineTypes, DeviceTypes
    <2>4. WorkerTypes'
      BY <1>6 DEF TimePasses, WorkerTypes, Idle, JobType, TaskOps, TaskType, device, duck,
         machine, monitors, table, MachineTypes, DeviceTypes, DuckTypes, MonitorTypes
    <2>5. DeviceTypes'
      BY <1>6 DEF TimePasses, DeviceTypes, device, machine, monitors, table
    <2> QED
      BY <2>1, <2>2, <2>3, <2>4, <2>5
  <1>7. ASSUME ClearAdapter PROVE TypeOK'
    <2>1. MachineTypes'
      BY <1>7 DEF ClearAdapter, MachineTypes, machine, monitors, table
    <2>2. MonitorTypes'
      BY <1>7 DEF ClearAdapter, MonitorTypes, machine, monitors, table, WorkerTypes
    <2>3. DuckTypes'
      BY <1>7 DEF ClearAdapter, DuckTypes, PollerType, device, machine, monitors, table,
         WorkerTypes, MachineTypes, DeviceTypes
    <2>4. WorkerTypes'
      BY <1>7 DEF ClearAdapter, WorkerTypes, Idle, JobType, TaskOps, TaskType, device, duck,
         machine, monitors, table, MachineTypes, DeviceTypes, DuckTypes, MonitorTypes
    <2>5. DeviceTypes'
      <3>1. epoch + 1 \in 0 .. MaxEpoch
        BY <1>7, <1>a DEF ClearAdapter
      <3> QED
        BY <1>7, <3>1 DEF ClearAdapter, DeviceTypes
    <2> QED
      BY <2>1, <2>2, <2>3, <2>4, <2>5
  <1>8. ASSUME DrainMonitors PROVE TypeOK'
    <2>1. MachineTypes'
      BY <1>8 DEF DrainMonitors, MachineTypes, Dead, Gone, Stop, duck, machine, table
    <2>2. MonitorTypes'
      BY <1>8 DEF DrainMonitors, MonitorTypes, Dead, Gone, Stop, duck, machine, table, WorkerTypes
    <2>3. DuckTypes'
      BY <1>8 DEF DrainMonitors, DuckTypes, Dead, Gone, PollerType, Stop, device, duck,
         machine, table, WorkerTypes, MachineTypes, DeviceTypes
    <2>4. WorkerTypes'
      BY <1>8 DEF DrainMonitors, WorkerTypes, Dead, Gone, Idle, JobType, Stop, TaskOps,
         TaskType, device, duck, machine, table, MachineTypes, DeviceTypes, DuckTypes,
         MonitorTypes
    <2>5. DeviceTypes'
      BY <1>8 DEF DrainMonitors, DeviceTypes, Dead, Gone, Stop, duck, machine, table
    <2> QED
      BY <2>1, <2>2, <2>3, <2>4, <2>5
  <1>9. ASSUME DrainParked PROVE TypeOK'
    <2>1. MachineTypes'
      BY <1>9 DEF DrainParked, MachineTypes, Abandon, Dead, Gone, Parked, duck, machine
    <2>2. MonitorTypes'
      BY <1>9 DEF DrainParked, MonitorTypes, Abandon, Dead, Gone, Parked, duck, machine,
         WorkerTypes
    <2>3. DuckTypes'
      BY <1>9 DEF DrainParked, DuckTypes, Abandon, Dead, Gone, Parked, PollerType, device,
         duck, machine, WorkerTypes, MachineTypes, DeviceTypes
    <2>4. WorkerTypes'
      BY <1>9 DEF DrainParked, WorkerTypes, Abandon, Dead, Gone, Idle, JobType, Parked,
         TaskOps, TaskType, device, duck, machine, MachineTypes, DeviceTypes, DuckTypes,
         MonitorTypes
    <2>5. DeviceTypes'
      BY <1>9 DEF DrainParked, DeviceTypes, Abandon, Dead, Gone, Parked, duck, machine
    <2> QED
      BY <2>1, <2>2, <2>3, <2>4, <2>5
  <1>10. ASSUME BringUp PROVE TypeOK'
    <2>1. MachineTypes'
      BY <1>10 DEF BringUp, MachineTypes, duck, machine, monitors, table
    <2>2. MonitorTypes'
      BY <1>10 DEF BringUp, MonitorTypes, duck, machine, monitors, table, WorkerTypes
    <2>3. DuckTypes'
      BY <1>10 DEF BringUp, DuckTypes, PollerType, device, duck, machine, monitors, table,
         WorkerTypes, MachineTypes, DeviceTypes
    <2>4. DeviceTypes'
      BY <1>10 DEF BringUp, DeviceTypes, duck, machine, monitors, table
    <2>5. WorkerTypes'
      <3>1. [op |-> "ready", epoch |-> epoch, sessions |-> {}] \in TaskType
        BY <1>10, <1>a, <1>b DEF TaskOps, PollerType
      <3> QED
        BY <1>10, <3>1, <1>c DEF BringUp
    <2> QED
      BY <2>1, <2>2, <2>3, <2>4, <2>5
  <1>11. ASSUME DropStale PROVE TypeOK'
    <2>1. MachineTypes'
      BY <1>11 DEF DropStale, MachineTypes, Done, Idle, Quietly, Release, Serving, Stale,
         Task, device, duck, machine, monitors, table
    <2>2. MonitorTypes'
      BY <1>11 DEF DropStale, MonitorTypes, Done, Idle, Quietly, Release, Serving, Stale,
         Task, device, duck, machine, monitors, table, WorkerTypes
    <2>3. DuckTypes'
      BY <1>11 DEF DropStale, DuckTypes, Done, Idle, PollerType, Quietly, Release, Serving,
         Stale, Task, device, duck, machine, monitors, table, WorkerTypes, MachineTypes,
         DeviceTypes
    <2>4. DeviceTypes'
      BY <1>11 DEF DropStale, DeviceTypes, Done, Idle, Quietly, Release, Serving, Stale,
         Task, device, duck, machine, monitors, table
    <2>5. WorkerTypes'
      BY <1>11, <1>d DEF DropStale, Serving, Done, Quietly
    <2> QED
      BY <2>1, <2>2, <2>3, <2>4, <2>5
  <1>12. ASSUME StartDuck PROVE TypeOK'
    <2>1. MachineTypes'
      BY <1>12 DEF StartDuck, MachineTypes, CyclesNow, Done, Idle, Serving, Stale, Task,
         device, duck, machine, monitors, table
    <2>2. MonitorTypes'
      BY <1>12 DEF StartDuck, MonitorTypes, CyclesNow, Done, Idle, Serving, Stale, Task,
         device, duck, machine, monitors, table, WorkerTypes
    <2>3. DuckTypes'
      BY <1>12 DEF StartDuck, DuckTypes, CyclesNow, Done, Idle, PollerType, Serving, Stale,
         Task, device, duck, machine, monitors, table, WorkerTypes, MachineTypes,
         DeviceTypes
    <2>4. DeviceTypes'
      BY <1>12 DEF StartDuck, DeviceTypes, CyclesNow, Done, Idle, Serving, Stale, Task,
         device, duck, machine, monitors, table
    <2>5. WorkerTypes'
      <3>1. queue # <<>> /\ Task.epoch \in 0 .. MaxEpoch /\ Task.sessions \subseteq Sessions
        BY <1>12, <1>e DEF StartDuck, Serving, TaskType
      <3>2. job' \in JobType
        BY <1>12, <3>1 DEF StartDuck, JobType
      <3> QED
        BY <1>12, <3>1, <3>2, <1>d DEF StartDuck, Done
    <2> QED
      BY <2>1, <2>2, <2>3, <2>4, <2>5
  <1>13. ASSUME StartDeviceDuck PROVE TypeOK'
    <2>1. MachineTypes'
      BY <1>13 DEF StartDeviceDuck, MachineTypes, CyclesNow, Dead, Done, Gone, Idle, Parked,
         Poller, Release, SameAdapter, Serving, Settled, Stale, Task, Unrecovered, device,
         duck, machine, table
    <2>2. DeviceTypes'
      BY <1>13 DEF StartDeviceDuck, DeviceTypes, CyclesNow, Dead, Done, Gone, Idle, Parked,
         Poller, Release, SameAdapter, Serving, Settled, Stale, Task, Unrecovered, device,
         duck, machine, table
    <2>3. MonitorTypes'
      <3>1. \/ where' = where /\ ring' = ring
            \/ /\ where' = Gone(Parked, where)
               /\ \E s \in Task.sessions : ring' = Dead(Parked \cup Unrecovered(SameAdapter(s)), ring)
        BY <1>13 DEF StartDeviceDuck
      <3>2. UNCHANGED <<frame, wanted, requests>>
        BY <1>13 DEF StartDeviceDuck, table
      <3> QED
        BY <3>1, <3>2 DEF MonitorTypes, Gone, Dead
    <2>4. DuckTypes'
      <3>0. cycles' \in 0 .. MaxCycles
        <4>1. cycles' = CyclesNow
          BY <1>13 DEF StartDeviceDuck
        <4> QED
          BY <4>1 DEF CyclesNow, DuckTypes
      <3>1. cycles' \in 0 .. MaxCycles /\ latch' \in BOOLEAN
        <4>1. latch' = latch \/ latch' = FALSE
          BY <1>13 DEF StartDeviceDuck, Release
        <4> QED
          BY <3>0, <4>1 DEF DuckTypes
      <3>2. \A s \in Sessions : SameAdapter(s) \subseteq Sessions /\ luid[s] \in Luids
        BY <1>a DEF SameAdapter
      <3>3. queue # <<>> /\ Task.sessions \subseteq Sessions
        BY <1>13, <1>e DEF StartDeviceDuck, Serving, TaskType
      <3>4. pollers' \in Seq(PollerType)
        <4>1. CASE pollers' = pollers
          BY <4>1, <1>a
        <4>2. CASE \E s \in Task.sessions : pollers' = Append(pollers, Poller("device", epoch, luid[s], SameAdapter(s)))
          BY <3>2, <3>3, <4>2, <1>a, <1>h
        <4> QED
          BY <1>13, <4>1, <4>2 DEF StartDeviceDuck
      <3> QED
        BY <1>13, <3>1, <3>4 DEF StartDeviceDuck, DuckTypes
    <2>5. WorkerTypes'
      BY <1>13, <1>d DEF StartDeviceDuck, Serving, Done
    <2> QED
      BY <2>1, <2>2, <2>3, <2>4, <2>5
  <1>14. ASSUME SkipRequalify PROVE TypeOK'
    <2>1. MachineTypes'
      BY <1>14 DEF SkipRequalify, MachineTypes, Done, Idle, Quietly, Release, Serving,
         Settled, Stale, StillLost, Task, Unrecovered, device, machine, monitors, table
    <2>2. MonitorTypes'
      BY <1>14 DEF SkipRequalify, MonitorTypes, Done, Idle, Quietly, Release, Serving,
         Settled, Stale, StillLost, Task, Unrecovered, device, machine, monitors, table,
         WorkerTypes
    <2>3. DuckTypes'
      BY <1>14 DEF SkipRequalify, DuckTypes, Done, Idle, PollerType, Quietly, Release,
         Serving, Settled, Stale, StillLost, Task, Unrecovered, device, machine, monitors,
         table, WorkerTypes, MachineTypes, DeviceTypes
    <2>4. DeviceTypes'
      BY <1>14 DEF SkipRequalify, DeviceTypes, Done, Idle, Quietly, Release, Serving,
         Settled, Stale, StillLost, Task, Unrecovered, device, machine, monitors, table
    <2>5. WorkerTypes'
      BY <1>14, <1>d DEF SkipRequalify, Serving, Done, Quietly
    <2> QED
      BY <2>1, <2>2, <2>3, <2>4, <2>5
  <1>15. ASSUME CapRequalify PROVE TypeOK'
    <2>1. MachineTypes'
      BY <1>15 DEF CapRequalify, MachineTypes, BudgetLeft, Done, Idle, Quietly, Release,
         Serving, Settled, Stale, StillLost, Task, Unrecovered, device, machine, monitors,
         table
    <2>2. MonitorTypes'
      BY <1>15 DEF CapRequalify, MonitorTypes, BudgetLeft, Done, Idle, Quietly, Release,
         Serving, Settled, Stale, StillLost, Task, Unrecovered, device, machine, monitors,
         table, WorkerTypes
    <2>3. DuckTypes'
      BY <1>15 DEF CapRequalify, DuckTypes, BudgetLeft, Done, Idle, PollerType, Quietly,
         Release, Serving, Settled, Stale, StillLost, Task, Unrecovered, device, machine,
         monitors, table, WorkerTypes, MachineTypes, DeviceTypes
    <2>4. DeviceTypes'
      BY <1>15 DEF CapRequalify, DeviceTypes, BudgetLeft, Done, Idle, Quietly, Release,
         Serving, Settled, Stale, StillLost, Task, Unrecovered, device, machine, monitors,
         table
    <2>5. WorkerTypes'
      BY <1>15, <1>d DEF CapRequalify, Serving, Done, Quietly
    <2> QED
      BY <2>1, <2>2, <2>3, <2>4, <2>5
  <1>16. ASSUME StartRequalify PROVE TypeOK'
    <2>1. MachineTypes'
      BY <1>16 DEF StartRequalify, MachineTypes, BudgetLeft, Done, Idle, Serving, Settled,
         Stale, StillLost, Task, Unrecovered, device, machine, monitors, table
    <2>2. MonitorTypes'
      BY <1>16 DEF StartRequalify, MonitorTypes, BudgetLeft, Done, Idle, Serving, Settled,
         Stale, StillLost, Task, Unrecovered, device, machine, monitors, table, WorkerTypes
    <2>3. DeviceTypes'
      BY <1>16 DEF StartRequalify, DeviceTypes, BudgetLeft, Done, Idle, Serving, Settled,
         Stale, StillLost, Task, Unrecovered, device, machine, monitors, table
    <2>4. DuckTypes'
      <3>1. cycles' \in 0 .. MaxCycles
        BY <1>16 DEF StartRequalify, BudgetLeft, DuckTypes
      <3> QED
        BY <1>16, <3>1 DEF StartRequalify, DuckTypes
    <2>5. WorkerTypes'
      <3>1. queue # <<>> /\ Task.epoch \in 0 .. MaxEpoch /\ Task.sessions \subseteq Sessions
        BY <1>16, <1>e DEF StartRequalify, Serving, TaskType
      <3>2. job' \in JobType
        BY <1>16, <3>1 DEF StartRequalify, StillLost, Unrecovered, JobType
      <3> QED
        BY <1>16, <3>1, <3>2, <1>d DEF StartRequalify, Done
    <2> QED
      BY <2>1, <2>2, <2>3, <2>4, <2>5
  <1>17. ASSUME GiveUp PROVE TypeOK'
    <2>1. MachineTypes'
      BY <1>17 DEF GiveUp, MachineTypes, Dead, Done, Gone, Idle, Parked, Release, Serving,
         Settled, Stale, Task, Unrecovered, device, machine, table
    <2>2. MonitorTypes'
      BY <1>17 DEF GiveUp, MonitorTypes, Dead, Done, Gone, Idle, Parked, Release, Serving,
         Settled, Stale, Task, Unrecovered, device, machine, table, WorkerTypes
    <2>3. DuckTypes'
      BY <1>17 DEF GiveUp, DuckTypes, Dead, Done, Gone, Idle, Parked, PollerType, Release,
         Serving, Settled, Stale, Task, Unrecovered, device, machine, table, WorkerTypes,
         MachineTypes, DeviceTypes
    <2>4. DeviceTypes'
      BY <1>17 DEF GiveUp, DeviceTypes, Dead, Done, Gone, Idle, Parked, Release, Serving,
         Settled, Stale, Task, Unrecovered, device, machine, table
    <2>5. WorkerTypes'
      BY <1>17, <1>d DEF GiveUp, Serving, Done
    <2> QED
      BY <2>1, <2>2, <2>3, <2>4, <2>5
  <1>18. ASSUME NEW s \in Sessions, DuckNext(s) PROVE TypeOK'
    <2>1. MachineTypes'
      BY <1>18 DEF DuckNext, MachineTypes, device, duck, machine, table
    <2>2. MonitorTypes'
      BY <1>18 DEF DuckNext, MonitorTypes, device, duck, machine, table, WorkerTypes
    <2>3. DuckTypes'
      BY <1>18 DEF DuckNext, DuckTypes, PollerType, device, duck, machine, table,
         WorkerTypes, MachineTypes, DeviceTypes
    <2>4. DeviceTypes'
      BY <1>18 DEF DuckNext, DeviceTypes, device, duck, machine, table
    <2>5. WorkerTypes'
      <3>1. job \in JobType
        BY <1>18, <1>f DEF DuckNext
      <3>2. job' \in JobType
        BY ZenonT(30), <1>18, <3>1 DEF DuckNext, JobType
      <3> QED
        BY <1>18, <3>2, <1>g DEF DuckNext
    <2> QED
      BY <2>1, <2>2, <2>3, <2>4, <2>5
  <1>19. ASSUME Departs PROVE TypeOK'
    <2>1. MachineTypes'
      BY <1>19 DEF Departs, MachineTypes, Stop, device, duck, machine, table
    <2>2. MonitorTypes'
      BY <1>19 DEF Departs, MonitorTypes, Stop, device, duck, machine, table, WorkerTypes
    <2>3. DuckTypes'
      BY <1>19 DEF Departs, DuckTypes, PollerType, Stop, device, duck, machine, table,
         WorkerTypes, MachineTypes, DeviceTypes
    <2>4. DeviceTypes'
      BY <1>19 DEF Departs, DeviceTypes, Stop, device, duck, machine, table
    <2>5. WorkerTypes'
      <3>1. job \in JobType
        BY <1>19, <1>f DEF Departs
      <3>2. job' \in JobType
        BY <1>19, <3>1 DEF Departs, JobType
      <3> QED
        BY <1>19, <3>2, <1>g DEF Departs
    <2> QED
      BY <2>1, <2>2, <2>3, <2>4, <2>5
  <1>20. ASSUME DepartureFails PROVE TypeOK'
    <2>1. MachineTypes'
      BY <1>20 DEF DepartureFails, MachineTypes, device, duck, machine, monitors, table
    <2>2. MonitorTypes'
      BY <1>20 DEF DepartureFails, MonitorTypes, device, duck, machine, monitors, table,
         WorkerTypes
    <2>3. DuckTypes'
      BY <1>20 DEF DepartureFails, DuckTypes, PollerType, device, duck, machine, monitors,
         table, WorkerTypes, MachineTypes, DeviceTypes
    <2>4. DeviceTypes'
      BY <1>20 DEF DepartureFails, DeviceTypes, device, duck, machine, monitors, table
    <2>5. WorkerTypes'
      <3>1. job \in JobType
        BY <1>20, <1>f DEF DepartureFails
      <3>2. job' \in JobType
        BY <1>20, <3>1 DEF DepartureFails, JobType
      <3> QED
        BY <1>20, <3>2, <1>g DEF DepartureFails
    <2> QED
      BY <2>1, <2>2, <2>3, <2>4, <2>5
  <1>21. ASSUME Unmap PROVE TypeOK'
    <2>1. MachineTypes'
      BY <1>21 DEF Unmap, MachineTypes, device, duck, machine, table
    <2>2. MonitorTypes'
      BY <1>21 DEF Unmap, MonitorTypes, device, duck, machine, table, WorkerTypes
    <2>3. DuckTypes'
      BY <1>21 DEF Unmap, DuckTypes, PollerType, device, duck, machine, table, WorkerTypes,
         MachineTypes, DeviceTypes
    <2>4. DeviceTypes'
      BY <1>21 DEF Unmap, DeviceTypes, device, duck, machine, table
    <2>5. WorkerTypes'
      <3>1. job \in JobType
        BY <1>21, <1>f DEF Unmap
      <3>2. job' \in JobType
        BY <1>21, <3>1 DEF Unmap, JobType
      <3> QED
        BY <1>21, <3>2, <1>g DEF Unmap
    <2> QED
      BY <2>1, <2>2, <2>3, <2>4, <2>5
  <1>22. ASSUME Park PROVE TypeOK'
    <2>1. MachineTypes'
      BY <1>22 DEF Park, MachineTypes, device, duck, machine, table
    <2>2. MonitorTypes'
      BY <1>22 DEF Park, MonitorTypes, device, duck, machine, table, WorkerTypes
    <2>3. DuckTypes'
      BY <1>22 DEF Park, DuckTypes, PollerType, device, duck, machine, table, WorkerTypes,
         MachineTypes, DeviceTypes
    <2>4. DeviceTypes'
      BY <1>22 DEF Park, DeviceTypes, device, duck, machine, table
    <2>5. WorkerTypes'
      <3>1. job \in JobType
        BY <1>22, <1>f DEF Park
      <3>2. job' \in JobType
        BY <1>22, <3>1 DEF Park, JobType
      <3> QED
        BY <1>22, <3>2, <1>g DEF Park
    <2> QED
      BY <2>1, <2>2, <2>3, <2>4, <2>5
  <1>23. ASSUME DuckNone PROVE TypeOK'
    <2>1. MachineTypes'
      BY <1>23 DEF DuckNone, MachineTypes, Abandon, Dead, DuckedAll, Gone, Idle, Parked,
         Release, Stale, TornDown, device, machine, table
    <2>2. MonitorTypes'
      BY <1>23 DEF DuckNone, MonitorTypes, Abandon, Dead, DuckedAll, Gone, Idle, Parked,
         Release, Stale, TornDown, device, machine, table, WorkerTypes
    <2>3. DuckTypes'
      BY <1>23 DEF DuckNone, DuckTypes, Abandon, Dead, DuckedAll, Gone, Idle, Parked,
         PollerType, Release, Stale, TornDown, device, machine, table, WorkerTypes,
         MachineTypes, DeviceTypes
    <2>4. WorkerTypes'
      BY <1>23 DEF DuckNone, WorkerTypes, Abandon, Dead, DuckedAll, Gone, Idle, JobType,
         Parked, Release, Stale, TaskOps, TaskType, TornDown, device, duck, machine, table,
         MachineTypes, DeviceTypes, DuckTypes, MonitorTypes
    <2>5. DeviceTypes'
      BY <1>23 DEF DuckNone, DeviceTypes, Abandon, Dead, DuckedAll, Gone, Idle, Parked,
         Release, Stale, TornDown, device, machine, table
    <2> QED
      BY <2>1, <2>2, <2>3, <2>4, <2>5
  <1>24. ASSUME DuckGivesUp PROVE TypeOK'
    <2>1. MachineTypes'
      BY <1>24 DEF DuckGivesUp, MachineTypes, Abandon, BudgetLeft, Dead, DuckedAll, Gone,
         Idle, Parked, Release, Stale, TornDown, device, duck, machine, table
    <2>2. MonitorTypes'
      BY <1>24 DEF DuckGivesUp, MonitorTypes, Abandon, BudgetLeft, Dead, DuckedAll, Gone,
         Idle, Parked, Release, Stale, TornDown, device, duck, machine, table, WorkerTypes
    <2>3. WorkerTypes'
      BY <1>24 DEF DuckGivesUp, WorkerTypes, Abandon, BudgetLeft, Dead, DuckedAll, Gone,
         Idle, JobType, Parked, Release, Stale, TaskOps, TaskType, TornDown, device, duck,
         machine, table, MachineTypes, DeviceTypes, DuckTypes, MonitorTypes
    <2>4. DeviceTypes'
      BY <1>24 DEF DuckGivesUp, DeviceTypes, Abandon, BudgetLeft, Dead, DuckedAll, Gone,
         Idle, Parked, Release, Stale, TornDown, device, duck, machine, table
    <2>5. DuckTypes'
      <3>1. cycles' \in 0 .. MaxCycles
        <4>1. CASE BudgetLeft
          BY <1>24, <4>1 DEF DuckGivesUp, BudgetLeft, DuckTypes
        <4>2. CASE ~ BudgetLeft
          BY <1>24, <4>2 DEF DuckGivesUp, DuckTypes
        <4> QED
          BY <4>1, <4>2
      <3> QED
        BY <1>24, <3>1 DEF DuckGivesUp, Release, DuckTypes
    <2> QED
      BY <2>1, <2>2, <2>3, <2>4, <2>5
  <1>25. ASSUME DuckWaits PROVE TypeOK'
    <2>1. MachineTypes'
      BY <1>25 DEF DuckWaits, MachineTypes, BudgetLeft, DuckedAll, Idle, Parked, Poller,
         Stale, TornDown, device, duck, machine, monitors, table
    <2>2. MonitorTypes'
      BY <1>25 DEF DuckWaits, MonitorTypes, BudgetLeft, DuckedAll, Idle, Parked, Poller,
         Stale, TornDown, device, duck, machine, monitors, table, WorkerTypes
    <2>3. WorkerTypes'
      BY <1>25 DEF DuckWaits, WorkerTypes, BudgetLeft, DuckedAll, Idle, JobType, Parked,
         Poller, Stale, TaskOps, TaskType, TornDown, device, duck, machine, monitors, table,
         MachineTypes, DeviceTypes, DuckTypes, MonitorTypes
    <2>4. DeviceTypes'
      BY <1>25 DEF DuckWaits, DeviceTypes, BudgetLeft, DuckedAll, Idle, Parked, Poller,
         Stale, TornDown, device, duck, machine, monitors, table
    <2>5. DuckTypes'
      <3>1. pollers' \in Seq(PollerType)
        <4>1. job.epoch \in 0 .. MaxEpoch
          BY <1>25, <1>f DEF DuckWaits, DuckedAll, JobType
        <4> QED
          BY <1>25, <4>1, <1>a, <1>h DEF DuckWaits
      <3>2. cycles' \in 0 .. MaxCycles
        BY <1>25 DEF DuckWaits, BudgetLeft, DuckTypes
      <3> QED
        BY <1>25, <3>1, <3>2 DEF DuckWaits, DuckTypes
    <2> QED
      BY <2>1, <2>2, <2>3, <2>4, <2>5
  <1>26. ASSUME DropReplug PROVE TypeOK'
    <2>1. MachineTypes'
      BY <1>26 DEF DropReplug, MachineTypes, Abandon, Dead, Done, Gone, Idle, Parked,
         Release, Serving, Stale, Task, device, machine, table
    <2>2. MonitorTypes'
      BY <1>26 DEF DropReplug, MonitorTypes, Abandon, Dead, Done, Gone, Idle, Parked,
         Release, Serving, Stale, Task, device, machine, table, WorkerTypes
    <2>3. DuckTypes'
      BY <1>26 DEF DropReplug, DuckTypes, Abandon, Dead, Done, Gone, Idle, Parked,
         PollerType, Release, Serving, Stale, Task, device, machine, table, WorkerTypes,
         MachineTypes, DeviceTypes
    <2>4. DeviceTypes'
      BY <1>26 DEF DropReplug, DeviceTypes, Abandon, Dead, Done, Gone, Idle, Parked,
         Release, Serving, Stale, Task, device, machine, table
    <2>5. WorkerTypes'
      BY <1>26, <1>d DEF DropReplug, Serving, Done
    <2> QED
      BY <2>1, <2>2, <2>3, <2>4, <2>5
  <1>27. ASSUME StartReplug PROVE TypeOK'
    <2>1. MachineTypes'
      BY <1>27 DEF StartReplug, MachineTypes, Abandon, Dead, Done, Gone, Idle, Parked,
         Serving, Stale, TakeParked, Task, device, duck, machine, table
    <2>2. MonitorTypes'
      BY <1>27 DEF StartReplug, MonitorTypes, Abandon, Dead, Done, Gone, Idle, Parked,
         Serving, Stale, TakeParked, Task, device, duck, machine, table, WorkerTypes
    <2>3. DuckTypes'
      BY <1>27 DEF StartReplug, DuckTypes, Abandon, Dead, Done, Gone, Idle, Parked,
         PollerType, Serving, Stale, TakeParked, Task, device, duck, machine, table,
         WorkerTypes, MachineTypes, DeviceTypes
    <2>4. DeviceTypes'
      BY <1>27 DEF StartReplug, DeviceTypes, Abandon, Dead, Done, Gone, Idle, Parked,
         Serving, Stale, TakeParked, Task, device, duck, machine, table
    <2>5. WorkerTypes'
      <3>1. queue # <<>> /\ Task.epoch \in 0 .. MaxEpoch /\ Task.sessions \subseteq Sessions
        BY <1>27, <1>e DEF StartReplug, Serving, TaskType
      <3>2. job' \in JobType
        BY <1>27, <3>1 DEF StartReplug, TakeParked, Parked, JobType
      <3> QED
        BY <1>27, <3>1, <3>2, <1>d DEF StartReplug, Done
    <2> QED
      BY <2>1, <2>2, <2>3, <2>4, <2>5
  <1>28. ASSUME RequalifyReplugs PROVE TypeOK'
    <2>1. MachineTypes'
      BY <1>28 DEF RequalifyReplugs, MachineTypes, Abandon, Dead, DuckedAll, Gone, Parked,
         Stale, TakeParked, TornDown, device, duck, machine, table
    <2>2. MonitorTypes'
      BY <1>28 DEF RequalifyReplugs, MonitorTypes, Abandon, Dead, DuckedAll, Gone, Parked,
         Stale, TakeParked, TornDown, device, duck, machine, table, WorkerTypes
    <2>3. DuckTypes'
      BY <1>28 DEF RequalifyReplugs, DuckTypes, Abandon, Dead, DuckedAll, Gone, Parked,
         PollerType, Stale, TakeParked, TornDown, device, duck, machine, table, WorkerTypes,
         MachineTypes, DeviceTypes
    <2>4. DeviceTypes'
      BY <1>28 DEF RequalifyReplugs, DeviceTypes, Abandon, Dead, DuckedAll, Gone, Parked,
         Stale, TakeParked, TornDown, device, duck, machine, table
    <2>5. WorkerTypes'
      <3>1. job \in JobType
        BY <1>28, <1>f DEF RequalifyReplugs, DuckedAll
      <3>2. job' \in JobType
        BY <1>28, <3>1 DEF RequalifyReplugs, TakeParked, Parked, JobType
      <3> QED
        BY <1>28, <3>2, <1>g DEF RequalifyReplugs
    <2> QED
      BY <2>1, <2>2, <2>3, <2>4, <2>5
  <1>29. ASSUME NEW s \in Sessions, Arrive(s) PROVE TypeOK'
    <2>1. MachineTypes'
      BY <1>29 DEF Arrive, MachineTypes, Dead, Gone, device, duck, machine, table
    <2>2. MonitorTypes'
      BY <1>29 DEF Arrive, MonitorTypes, Dead, Gone, device, duck, machine, table, WorkerTypes
    <2>3. DuckTypes'
      BY <1>29 DEF Arrive, DuckTypes, Dead, Gone, PollerType, device, duck, machine, table,
         WorkerTypes, MachineTypes, DeviceTypes
    <2>4. DeviceTypes'
      BY <1>29 DEF Arrive, DeviceTypes, Dead, Gone, device, duck, machine, table
    <2>5. WorkerTypes'
      <3>1. job \in JobType
        BY <1>29, <1>f DEF Arrive
      <3>2. job' \in JobType
        BY <1>29, <3>1 DEF Arrive, JobType
      <3> QED
        BY <1>29, <3>2, <1>g DEF Arrive
    <2> QED
      BY <2>1, <2>2, <2>3, <2>4, <2>5
  <1>30. ASSUME Replugged PROVE TypeOK'
    <2>1. MachineTypes'
      BY <1>30 DEF Replugged, MachineTypes, Idle, Release, device, machine, monitors, table
    <2>2. MonitorTypes'
      BY <1>30 DEF Replugged, MonitorTypes, Idle, Release, device, machine, monitors, table,
         WorkerTypes
    <2>3. DuckTypes'
      BY <1>30 DEF Replugged, DuckTypes, Idle, PollerType, Release, device, machine,
         monitors, table, WorkerTypes, MachineTypes, DeviceTypes
    <2>4. WorkerTypes'
      BY <1>30 DEF Replugged, WorkerTypes, Idle, JobType, Release, TaskOps, TaskType,
         device, duck, machine, monitors, table, MachineTypes, DeviceTypes, DuckTypes,
         MonitorTypes
    <2>5. DeviceTypes'
      BY <1>30 DEF Replugged, DeviceTypes, Idle, Release, device, machine, monitors, table
    <2> QED
      BY <2>1, <2>2, <2>3, <2>4, <2>5
  <1>31. ASSUME ServePlug PROVE TypeOK'
    <2>1. MachineTypes'
      BY <1>31 DEF ServePlug, MachineTypes, Done, Idle, Serving, Stop, Task, device,
         machine, table
    <2>2. MonitorTypes'
      BY <1>31 DEF ServePlug, MonitorTypes, Done, Idle, Serving, Stop, Task, device,
         machine, table, WorkerTypes
    <2>3. DuckTypes'
      BY <1>31 DEF ServePlug, DuckTypes, Done, Idle, PollerType, Serving, Stop, Task,
         device, machine, table, WorkerTypes, MachineTypes, DeviceTypes
    <2>4. DeviceTypes'
      BY <1>31 DEF ServePlug, DeviceTypes, Done, Idle, Serving, Stop, Task, device, machine, table
    <2>5. WorkerTypes'
      BY <1>31, <1>d DEF ServePlug, Serving, Done
    <2> QED
      BY <2>1, <2>2, <2>3, <2>4, <2>5
  <1>32. ASSUME ServeUnplug PROVE TypeOK'
    <2>1. MachineTypes'
      BY <1>32 DEF ServeUnplug, MachineTypes, Dead, Done, Gone, Idle, Serving, Stop, Task,
         device, duck, machine, table
    <2>2. MonitorTypes'
      BY <1>32 DEF ServeUnplug, MonitorTypes, Dead, Done, Gone, Idle, Serving, Stop, Task,
         device, duck, machine, table, WorkerTypes
    <2>3. DuckTypes'
      BY <1>32 DEF ServeUnplug, DuckTypes, Dead, Done, Gone, Idle, PollerType, Serving,
         Stop, Task, device, duck, machine, table, WorkerTypes, MachineTypes, DeviceTypes
    <2>4. DeviceTypes'
      BY <1>32 DEF ServeUnplug, DeviceTypes, Dead, Done, Gone, Idle, Serving, Stop, Task,
         device, duck, machine, table
    <2>5. WorkerTypes'
      BY <1>32, <1>d DEF ServeUnplug, Serving, Done
    <2> QED
      BY <2>1, <2>2, <2>3, <2>4, <2>5
  <1>33. ASSUME AdapterReady PROVE TypeOK'
    <2>1. MachineTypes'
      BY <1>33 DEF AdapterReady, MachineTypes, Done, Idle, Serving, Stale, Task, duck,
         machine, monitors, table
    <2>2. MonitorTypes'
      BY <1>33 DEF AdapterReady, MonitorTypes, Done, Idle, Serving, Stale, Task, duck,
         machine, monitors, table, WorkerTypes
    <2>3. DuckTypes'
      BY <1>33 DEF AdapterReady, DuckTypes, Done, Idle, PollerType, Serving, Stale, Task,
         device, duck, machine, monitors, table, WorkerTypes, MachineTypes, DeviceTypes
    <2>4. DeviceTypes'
      BY <1>33 DEF AdapterReady, DeviceTypes, Done, Idle, Serving, Stale, Task, duck,
         machine, monitors, table
    <2>5. WorkerTypes'
      BY <1>33, <1>d DEF AdapterReady, Serving, Done
    <2> QED
      BY <2>1, <2>2, <2>3, <2>4, <2>5
  <1>34. ASSUME NEW p \in DOMAIN pollers, DisplayPollerEnds(p) PROVE TypeOK'
    <2>1. MachineTypes'
      BY <1>34 DEF DisplayPollerEnds, MachineTypes, Abandon, Current, Dead, DrainStale,
         Ends, Gone, Kind, Parked, Release, Stale, device, machine, table
    <2>2. MonitorTypes'
      BY <1>34 DEF DisplayPollerEnds, MonitorTypes, Abandon, Current, Dead, DrainStale,
         Ends, Gone, Kind, Parked, Release, Stale, device, machine, table, WorkerTypes
    <2>3. WorkerTypes'
      BY <1>34 DEF DisplayPollerEnds, WorkerTypes, Abandon, Current, Dead, DrainStale, Ends,
         Gone, Idle, JobType, Kind, Parked, Release, Stale, TaskOps, TaskType, device, duck,
         machine, table, MachineTypes, DeviceTypes, DuckTypes, MonitorTypes
    <2>4. DeviceTypes'
      BY <1>34 DEF DisplayPollerEnds, DeviceTypes, Abandon, Current, Dead, DrainStale, Ends,
         Gone, Kind, Parked, Release, Stale, device, machine, table
    <2>5. DuckTypes'
      BY <1>34, <1>i DEF DisplayPollerEnds, DuckTypes, Ends, Release
    <2> QED
      BY <2>1, <2>2, <2>3, <2>4, <2>5
  <1>35. ASSUME NEW p \in DOMAIN pollers, DisplayRecovered(p) PROVE TypeOK'
    <2>1. MachineTypes'
      BY <1>35 DEF DisplayRecovered, MachineTypes, Current, Ends, Kind, Parked, Stale,
         ToWorker, device, machine, monitors, table
    <2>2. MonitorTypes'
      BY <1>35 DEF DisplayRecovered, MonitorTypes, Current, Ends, Kind, Parked, Stale,
         ToWorker, device, machine, monitors, table, WorkerTypes
    <2>3. DeviceTypes'
      BY <1>35 DEF DisplayRecovered, DeviceTypes, Current, Ends, Kind, Parked, Stale,
         ToWorker, device, machine, monitors, table
    <2>4. DuckTypes'
      BY <1>35, <1>i DEF DisplayRecovered, DuckTypes, Ends, Release
    <2>5. WorkerTypes'
      <3>1. [op |-> "replug", epoch |-> pollers[p].epoch, sessions |-> {}] \in TaskType
        BY <1>35, <1>a, <1>b DEF ToWorker, Unrecovered, TaskOps, PollerType
      <3> QED
        BY <1>35, <3>1, <1>c DEF ToWorker, Unrecovered, DisplayRecovered
    <2> QED
      BY <2>1, <2>2, <2>3, <2>4, <2>5
  <1>36. ASSUME NEW p \in DOMAIN pollers, DisplayDeadline(p) PROVE TypeOK'
    <2>1. MachineTypes'
      BY <1>36 DEF DisplayDeadline, MachineTypes, Abandon, Current, Dead, Ends, Gone, Kind,
         Parked, Release, Stale, device, machine, table
    <2>2. MonitorTypes'
      BY <1>36 DEF DisplayDeadline, MonitorTypes, Abandon, Current, Dead, Ends, Gone, Kind,
         Parked, Release, Stale, device, machine, table, WorkerTypes
    <2>3. WorkerTypes'
      BY <1>36 DEF DisplayDeadline, WorkerTypes, Abandon, Current, Dead, Ends, Gone, Idle,
         JobType, Kind, Parked, Release, Stale, TaskOps, TaskType, device, duck, machine,
         table, MachineTypes, DeviceTypes, DuckTypes, MonitorTypes
    <2>4. DeviceTypes'
      BY <1>36 DEF DisplayDeadline, DeviceTypes, Abandon, Current, Dead, Ends, Gone, Kind,
         Parked, Release, Stale, device, machine, table
    <2>5. DuckTypes'
      BY <1>36, <1>i DEF DisplayDeadline, DuckTypes, Ends, Release
    <2> QED
      BY <2>1, <2>2, <2>3, <2>4, <2>5
  <1>37. ASSUME NEW p \in DOMAIN pollers, DevicePollerEnds(p) PROVE TypeOK'
    <2>1. MachineTypes'
      BY <1>37 DEF DevicePollerEnds, MachineTypes, Current, Ends, Kind, Release, Stale,
         Watched, device, machine, monitors, table
    <2>2. MonitorTypes'
      BY <1>37 DEF DevicePollerEnds, MonitorTypes, Current, Ends, Kind, Release, Stale,
         Watched, device, machine, monitors, table, WorkerTypes
    <2>3. WorkerTypes'
      BY <1>37 DEF DevicePollerEnds, WorkerTypes, Current, Ends, Idle, JobType, Kind,
         Release, Stale, TaskOps, TaskType, Watched, device, duck, machine, monitors, table,
         MachineTypes, DeviceTypes, DuckTypes, MonitorTypes
    <2>4. DeviceTypes'
      BY <1>37 DEF DevicePollerEnds, DeviceTypes, Current, Ends, Kind, Release, Stale,
         Watched, device, machine, monitors, table
    <2>5. DuckTypes'
      BY <1>37, <1>i DEF DevicePollerEnds, DuckTypes, Ends, Release
    <2> QED
      BY <2>1, <2>2, <2>3, <2>4, <2>5
  <1>38. ASSUME NEW p \in DOMAIN pollers, AllSettled(p) PROVE TypeOK'
    <2>1. MachineTypes'
      BY <1>38 DEF AllSettled, MachineTypes, Current, Kind, Pending, Settled, Stale,
         Watched, device, machine, monitors, table
    <2>2. MonitorTypes'
      BY <1>38 DEF AllSettled, MonitorTypes, Current, Kind, Pending, Settled, Stale,
         Watched, device, machine, monitors, table, WorkerTypes
    <2>3. WorkerTypes'
      BY <1>38 DEF AllSettled, WorkerTypes, Current, Idle, JobType, Kind, Pending, Settled,
         Stale, TaskOps, TaskType, Watched, device, duck, machine, monitors, table,
         MachineTypes, DeviceTypes, DuckTypes, MonitorTypes
    <2>4. DeviceTypes'
      BY <1>38 DEF AllSettled, DeviceTypes, Current, Kind, Pending, Settled, Stale, Watched,
         device, machine, monitors, table
    <2>5. DuckTypes'
      <3>1. [pollers[p] EXCEPT !.at = "release", !.covers = Watched(p)] \in PollerType
        BY <1>38, <1>a DEF PollerType, Watched
      <3>2. pollers' = [pollers EXCEPT ![p] = [pollers[p] EXCEPT !.at = "release", !.covers = Watched(p)]]
        BY <1>38 DEF AllSettled
      <3>3. pollers' \in Seq(PollerType)
        BY <3>1, <3>2, <1>j
      <3> QED
        BY <1>38, <3>3 DEF AllSettled, DuckTypes
    <2> QED
      BY <2>1, <2>2, <2>3, <2>4, <2>5
  <1>39. ASSUME NEW p \in DOMAIN pollers, GoodExit(p) PROVE TypeOK'
    <2>1. MachineTypes'
      BY <1>39 DEF GoodExit, MachineTypes, Release, device, machine, monitors, table
    <2>2. MonitorTypes'
      BY <1>39 DEF GoodExit, MonitorTypes, Release, device, machine, monitors, table, WorkerTypes
    <2>3. WorkerTypes'
      BY <1>39 DEF GoodExit, WorkerTypes, Idle, JobType, Release, TaskOps, TaskType, device,
         duck, machine, monitors, table, MachineTypes, DeviceTypes, DuckTypes, MonitorTypes
    <2>4. DeviceTypes'
      BY <1>39 DEF GoodExit, DeviceTypes, Release, device, machine, monitors, table
    <2>5. DuckTypes'
      <3>1. [pollers[p] EXCEPT !.at = "recheck"] \in PollerType /\ pollers[p].covers \subseteq Sessions
        BY <1>39, <1>a DEF PollerType
      <3>2. pollers' = [pollers EXCEPT ![p] = [pollers[p] EXCEPT !.at = "recheck"]]
        BY <1>39 DEF GoodExit
      <3> QED
        BY <1>39, <3>1, <3>2, <1>j DEF GoodExit, Release, DuckTypes
    <2> QED
      BY <2>1, <2>2, <2>3, <2>4, <2>5
  <1>40. ASSUME NEW p \in DOMAIN pollers, Recheck(p) PROVE TypeOK'
    <2>1. MachineTypes'
      BY <1>40 DEF Recheck, MachineTypes, Ends, Failed, QueueDuck, Settled, TaskFor, device,
         duck, machine, monitors, table
    <2>2. MonitorTypes'
      BY <1>40 DEF Recheck, MonitorTypes, Ends, Failed, QueueDuck, Settled, TaskFor, device,
         duck, machine, monitors, table, WorkerTypes
    <2>3. DeviceTypes'
      BY <1>40 DEF Recheck, DeviceTypes, Ends, Failed, QueueDuck, Settled, TaskFor, device,
         duck, machine, monitors, table
    <2>4. DuckTypes'
      <3>1. latch' \in BOOLEAN /\ rechecked' \subseteq Sessions
        BY <1>40 DEF Recheck, QueueDuck, DuckTypes
      <3> QED
        BY <1>40, <3>1, <1>i DEF Recheck, Ends, DuckTypes
    <2>5. WorkerTypes'
      <3>1. \A s \in Sessions : TaskFor(s) \in TaskType
        BY <1>a, <1>b DEF TaskFor, TaskOps
      <3>2. queue' = queue \/ \E s \in Sessions : queue' = Append(queue, TaskFor(s))
        BY <1>40, <1>a DEF Recheck, QueueDuck, Failed, PollerType
      <3> QED
        BY <1>40, <3>1, <3>2, <1>c DEF Recheck, WorkerTypes
    <2> QED
      BY <2>1, <2>2, <2>3, <2>4, <2>5
  <1>41. ASSUME NEW p \in DOMAIN pollers, Requalify(p) PROVE TypeOK'
    <2>1. MachineTypes'
      BY <1>41 DEF Requalify, MachineTypes, Current, Ends, Kind, Pending, Settled, Stale,
         ToWorker, Unrecovered, Watched, device, machine, monitors, table
    <2>2. MonitorTypes'
      BY <1>41 DEF Requalify, MonitorTypes, Current, Ends, Kind, Pending, Settled, Stale,
         ToWorker, Unrecovered, Watched, device, machine, monitors, table, WorkerTypes
    <2>3. DeviceTypes'
      BY <1>41 DEF Requalify, DeviceTypes, Current, Ends, Kind, Pending, Settled, Stale,
         ToWorker, Unrecovered, Watched, device, machine, monitors, table
    <2>4. DuckTypes'
      BY <1>41, <1>i DEF Requalify, DuckTypes, Ends, Release
    <2>5. WorkerTypes'
      <3>1. [op |-> "requalify", epoch |-> pollers[p].epoch, sessions |-> Unrecovered(pollers[p].covers)] \in TaskType
        BY <1>41, <1>a, <1>b DEF ToWorker, Unrecovered, TaskOps, PollerType
      <3> QED
        BY <1>41, <3>1, <1>c DEF ToWorker, Unrecovered, Requalify
    <2> QED
      BY <2>1, <2>2, <2>3, <2>4, <2>5
  <1>42. ASSUME NEW p \in DOMAIN pollers, Deadline(p) PROVE TypeOK'
    <2>1. MachineTypes'
      BY <1>42 DEF Deadline, MachineTypes, Current, Ends, Kind, Pending, Settled, Stale,
         ToWorker, Unrecovered, Watched, device, machine, monitors, table
    <2>2. MonitorTypes'
      BY <1>42 DEF Deadline, MonitorTypes, Current, Ends, Kind, Pending, Settled, Stale,
         ToWorker, Unrecovered, Watched, device, machine, monitors, table, WorkerTypes
    <2>3. DeviceTypes'
      BY <1>42 DEF Deadline, DeviceTypes, Current, Ends, Kind, Pending, Settled, Stale,
         ToWorker, Unrecovered, Watched, device, machine, monitors, table
    <2>4. DuckTypes'
      BY <1>42, <1>i DEF Deadline, DuckTypes, Ends, Release
    <2>5. WorkerTypes'
      <3>1. [op |-> "deadline", epoch |-> pollers[p].epoch, sessions |-> Unrecovered(pollers[p].covers)] \in TaskType
        BY <1>42, <1>a, <1>b DEF ToWorker, Unrecovered, TaskOps, PollerType
      <3> QED
        BY <1>42, <3>1, <1>c DEF ToWorker, Unrecovered, Deadline
    <2> QED
      BY <2>1, <2>2, <2>3, <2>4, <2>5
  <1>43. ASSUME NEW s \in Sessions, DeviceCreated(s) PROVE TypeOK'
    <2>1. MachineTypes'
      BY <1>43 DEF DeviceCreated, MachineTypes, device, duck, machine, table
    <2>2. MonitorTypes'
      BY <1>43 DEF DeviceCreated, MonitorTypes, device, duck, machine, table, WorkerTypes
    <2>3. DuckTypes'
      BY <1>43 DEF DeviceCreated, DuckTypes, PollerType, device, duck, machine, table,
         WorkerTypes, MachineTypes, DeviceTypes
    <2>4. WorkerTypes'
      BY <1>43 DEF DeviceCreated, WorkerTypes, Idle, JobType, TaskOps, TaskType, device,
         duck, machine, table, MachineTypes, DeviceTypes, DuckTypes, MonitorTypes
    <2>5. DeviceTypes'
      BY <1>43 DEF DeviceCreated, DeviceTypes, device, duck, machine, table
    <2> QED
      BY <2>1, <2>2, <2>3, <2>4, <2>5
  <1>44. ASSUME NEW s \in Sessions, DeviceCreateFails(s) PROVE TypeOK'
    <2>1. MachineTypes'
      BY <1>44 DEF DeviceCreateFails, MachineTypes, device, duck, machine, table
    <2>2. MonitorTypes'
      BY <1>44 DEF DeviceCreateFails, MonitorTypes, device, duck, machine, table, WorkerTypes
    <2>3. DuckTypes'
      BY <1>44 DEF DeviceCreateFails, DuckTypes, PollerType, device, duck, machine, table,
         WorkerTypes, MachineTypes, DeviceTypes
    <2>4. WorkerTypes'
      BY <1>44 DEF DeviceCreateFails, WorkerTypes, Idle, JobType, TaskOps, TaskType, device,
         duck, machine, table, MachineTypes, DeviceTypes, DuckTypes, MonitorTypes
    <2>5. DeviceTypes'
      BY <1>44 DEF DeviceCreateFails, DeviceTypes, device, duck, machine, table
    <2> QED
      BY <2>1, <2>2, <2>3, <2>4, <2>5
  <1>45. ASSUME NEW s \in Sessions, FirstFrame(s) PROVE TypeOK'
    <2>1. MachineTypes'
      BY <1>45 DEF FirstFrame, MachineTypes, device, duck, machine, table
    <2>2. MonitorTypes'
      BY <1>45 DEF FirstFrame, MonitorTypes, device, duck, machine, table, WorkerTypes
    <2>3. DuckTypes'
      BY <1>45 DEF FirstFrame, DuckTypes, PollerType, device, duck, machine, table,
         WorkerTypes, MachineTypes, DeviceTypes
    <2>4. WorkerTypes'
      BY <1>45 DEF FirstFrame, WorkerTypes, Idle, JobType, TaskOps, TaskType, device, duck,
         machine, table, MachineTypes, DeviceTypes, DuckTypes, MonitorTypes
    <2>5. DeviceTypes'
      BY <1>45 DEF FirstFrame, DeviceTypes, device, duck, machine, table
    <2> QED
      BY <2>1, <2>2, <2>3, <2>4, <2>5
  <1>46. ASSUME NEW s \in Sessions, SwapchainLost(s) PROVE TypeOK'
    <2>1. MachineTypes'
      BY <1>46 DEF SwapchainLost, MachineTypes, device, duck, machine, table
    <2>2. MonitorTypes'
      BY <1>46 DEF SwapchainLost, MonitorTypes, device, duck, machine, table, WorkerTypes
    <2>3. DuckTypes'
      BY <1>46 DEF SwapchainLost, DuckTypes, PollerType, device, duck, machine, table,
         WorkerTypes, MachineTypes, DeviceTypes
    <2>4. WorkerTypes'
      BY <1>46 DEF SwapchainLost, WorkerTypes, Idle, JobType, TaskOps, TaskType, device,
         duck, machine, table, MachineTypes, DeviceTypes, DuckTypes, MonitorTypes
    <2>5. DeviceTypes'
      BY <1>46 DEF SwapchainLost, DeviceTypes, device, duck, machine, table
    <2> QED
      BY <2>1, <2>2, <2>3, <2>4, <2>5
  <1>47. ASSUME NEW s \in Sessions, Arm(s) PROVE TypeOK'
    <2>1. MachineTypes'
      BY <1>47 DEF Arm, MachineTypes, QueueDuck, TaskFor, device, duck, machine, table
    <2>2. MonitorTypes'
      BY <1>47 DEF Arm, MonitorTypes, QueueDuck, TaskFor, device, duck, machine, table,
         WorkerTypes
    <2>3. DuckTypes'
      BY <1>47 DEF Arm, DuckTypes, PollerType, QueueDuck, TaskFor, device, duck, machine,
         table, WorkerTypes, MachineTypes, DeviceTypes
    <2>4. DeviceTypes'
      BY <1>47 DEF Arm, DeviceTypes, QueueDuck, TaskFor, device, duck, machine, table
    <2>5. WorkerTypes'
      <3>1. TaskFor(s) \in TaskType
        BY <1>a, <1>b DEF TaskFor, TaskOps
      <3>2. queue' = queue \/ queue' = Append(queue, TaskFor(s))
        BY <1>47 DEF Arm, QueueDuck
      <3> QED
        BY <1>47, <3>1, <3>2, <1>c DEF Arm, WorkerTypes
    <2> QED
      BY <2>1, <2>2, <2>3, <2>4, <2>5
  <1>48. ASSUME NEW p \in DOMAIN pollers, ProbeAnswers(p) PROVE TypeOK'
    <2>1. MachineTypes'
      BY <1>48 DEF ProbeAnswers, MachineTypes, device, machine, monitors, table
    <2>2. MonitorTypes'
      BY <1>48 DEF ProbeAnswers, MonitorTypes, device, machine, monitors, table, WorkerTypes
    <2>3. WorkerTypes'
      BY <1>48 DEF ProbeAnswers, WorkerTypes, Idle, JobType, TaskOps, TaskType, device,
         duck, machine, monitors, table, MachineTypes, DeviceTypes, DuckTypes, MonitorTypes
    <2>4. DeviceTypes'
      BY <1>48 DEF ProbeAnswers, DeviceTypes, device, machine, monitors, table
    <2>5. DuckTypes'
      <3>1. [pollers[p] EXCEPT !.seen = TRUE] \in PollerType
        BY <1>48, <1>a DEF PollerType
      <3>2. pollers' = [pollers EXCEPT ![p] = [pollers[p] EXCEPT !.seen = TRUE]]
        BY <1>48 DEF ProbeAnswers
      <3> QED
        BY <1>48, <3>1, <3>2, <1>j DEF ProbeAnswers, DuckTypes
    <2> QED
      BY <2>1, <2>2, <2>3, <2>4, <2>5
  <1>49. CASE UNCHANGED vars
    BY <1>49 DEF vars, machine, table, monitors, duck, device, MachineTypes, MonitorTypes,
       DuckTypes, WorkerTypes, DeviceTypes
  <1> QED
    BY <1>1, <1>2, <1>3, <1>4, <1>5, <1>6, <1>7, <1>8, <1>9, <1>10, <1>11, <1>12, <1>13,
       <1>14, <1>15, <1>16, <1>17, <1>18, <1>19, <1>20, <1>21, <1>22, <1>23, <1>24, <1>25,
       <1>26, <1>27, <1>28, <1>29, <1>30, <1>31, <1>32, <1>33, <1>34, <1>35, <1>36, <1>37,
       <1>38, <1>39, <1>40, <1>41, <1>42, <1>43, <1>44, <1>45, <1>46, <1>47, <1>48, <1>49
       DEF Next, Machine, FrameWorker, EffectsWorker, PollerStep, FinalExit

-----------------------------------------------------------------------------
(* The elements of a sequence that are in a set.                           *)

Those(s, K) == {i \in DOMAIN s : s[i] \in K}
Lone(S) == \A a, b \in S : a = b

LEMMA AppendedThose ==
  ASSUME NEW T, NEW s \in Seq(T), NEW e \in T, NEW K
  PROVE  /\ e \notin K => Those(Append(s, e), K) = Those(s, K)
         /\ e \in K => Those(Append(s, e), K) # {}
         /\ e \in K /\ Those(s, K) = {} => Lone(Those(Append(s, e), K))
         /\ Those(s, K) # {} => Those(Append(s, e), K) # {}
  <1> DEFINE c == Append(s, e)
  <1>1. /\ DOMAIN c = DOMAIN s \cup {Len(s) + 1} /\ c[Len(s) + 1] = e
        /\ \A i \in DOMAIN s : c[i] = s[i]
        /\ Len(s) + 1 \notin DOMAIN s
    BY Appended
  <1> HIDE DEF c
  <1> QED
    BY <1>1 DEF Those, Lone, c

LEMMA ServedThose ==
  ASSUME NEW T, NEW s \in Seq(T), s # <<>>, NEW K
  PROVE  /\ Head(s) \notin K => (Those(Tail(s), K) # {} <=> Those(s, K) # {})
         /\ Lone(Those(s, K)) => Lone(Those(Tail(s), K))
         /\ Lone(Those(s, K)) /\ Head(s) \in K => Those(Tail(s), K) = {}
         /\ Head(s) \in K => 1 \in Those(s, K)
  <1> DEFINE c == Tail(s)
  <1>1. /\ 1 \in DOMAIN s /\ Head(s) = s[1] /\ DOMAIN s \subseteq Int /\ DOMAIN c \subseteq Nat
        /\ \A i \in DOMAIN c : i + 1 \in DOMAIN s \ {1} /\ c[i] = s[i + 1]
        /\ \A i \in DOMAIN s \ {1} : i - 1 \in DOMAIN c /\ c[i - 1] = s[i]
    BY Served
  <1> HIDE DEF c
  <1>2. \A i \in Those(c, K) : i + 1 \in Those(s, K) \ {1}
    BY <1>1 DEF Those
  <1>3. \A i \in Those(s, K) \ {1} : i - 1 \in Those(c, K)
    BY <1>1 DEF Those
  <1>4. Head(s) \in K <=> 1 \in Those(s, K)
    BY <1>1 DEF Those
  <1>5. Those(c, K) \subseteq Nat
    BY <1>1 DEF Those
  <1>6. Head(s) \notin K => (Those(c, K) # {} <=> Those(s, K) # {})
    BY <1>2, <1>3, <1>4
  <1>7. Lone(Those(s, K)) => Lone(Those(c, K)) /\ (Head(s) \in K => Those(c, K) = {})
    BY <1>2, <1>4, <1>5 DEF Lone
  <1> QED
    BY <1>4, <1>6, <1>7 DEF c

LEMMA RemovedThose ==
  ASSUME NEW T, NEW s \in Seq(T), NEW k \in DOMAIN s, NEW K
  PROVE  /\ s[k] \notin K => (Those(RemoveAt(s, k), K) # {} <=> Those(s, K) # {})
         /\ Lone(Those(s, K)) => Lone(Those(RemoveAt(s, k), K))
         /\ Lone(Those(s, K)) /\ s[k] \in K => Those(RemoveAt(s, k), K) = {}
         /\ s[k] \in K => k \in Those(s, K)
  <1> DEFINE c == RemoveAt(s, k)
  <1>1. /\ \A i \in DOMAIN c :
              LET j == IF i < k THEN i ELSE i + 1 IN j \in DOMAIN s \ {k} /\ c[i] = s[j]
        /\ \A j \in DOMAIN s \ {k} :
              LET i == IF j < k THEN j ELSE j - 1 IN i \in DOMAIN c /\ c[i] = s[j]
        /\ DOMAIN s \subseteq Int /\ DOMAIN c \subseteq Int
    BY Removed
  <1> HIDE DEF c
  <1>2. \A i \in Those(c, K) : (IF i < k THEN i ELSE i + 1) \in Those(s, K) \ {k}
    BY <1>1 DEF Those
  <1>3. \A j \in Those(s, K) \ {k} : Those(c, K) # {}
    BY <1>1 DEF Those
  <1>4. s[k] \in K <=> k \in Those(s, K)
    BY DEF Those
  <1>5. Those(c, K) \subseteq Int /\ k \in Int
    BY <1>1 DEF Those
  <1>6. s[k] \notin K => (Those(c, K) # {} <=> Those(s, K) # {})
    BY <1>2, <1>3, <1>4
  <1>7. Lone(Those(s, K)) => Lone(Those(c, K)) /\ (s[k] \in K => Those(c, K) = {})
    BY <1>2, <1>4, <1>5 DEF Lone
  <1> QED
    BY <1>4, <1>6, <1>7 DEF c

LEMMA KeptThose ==
  ASSUME NEW T, NEW s \in Seq(T), NEW k \in DOMAIN s, NEW e \in T, NEW K
  PROVE  /\ (e \in K <=> s[k] \in K) => Those([s EXCEPT ![k] = e], K) = Those(s, K)
         /\ e \notin K /\ s[k] \in K /\ Lone(Those(s, K)) => Those([s EXCEPT ![k] = e], K) = {}
  BY DEF Those, Lone

-----------------------------------------------------------------------------
(* The latch has one owner.                                                *)

DuckTasks == {t \in TaskType : t.op \in TaskOps}
ReplugTasks == {t \in TaskType : t.op = "replug"}
Watchers == {q \in PollerType : q.at # "recheck"}
DisplayPollers == {q \in PollerType : q.kind = "display"}

HasTask == Those(queue, DuckTasks) # {}
HasPoller == Those(pollers, Watchers) # {}
HasJob == job # Idle

OneParty ==
  /\ latch <=> HasTask \/ HasPoller \/ HasJob
  /\ Lone(Those(queue, DuckTasks)) /\ Lone(Those(pollers, Watchers))
  /\ ~ (HasTask /\ HasPoller) /\ (HasJob => ~ HasTask /\ ~ HasPoller)

(* Only a poller of device mode comes to the good exit.                    *)
GoodExitIsDevice == \A p \in DOMAIN pollers : pollers[p].at # "watch" => pollers[p].kind = "device"

(* Whoever is to bring the parked monitors back, or to abandon them.       *)
WillDrain == job # Idle /\ job.at # "arrive" /\ job.parked
DisplayWatched == Those(pollers, DisplayPollers) # {}
ReplugQueued == Those(queue, ReplugTasks) # {}
ParkedIsOwned == Parked # {} => WillDrain \/ DisplayWatched \/ ReplugQueued

Owned == OneParty /\ GoodExitIsDevice /\ ParkedIsOwned

(* While the duck is with anybody else, nothing is parked.                 *)
LEMMA NothingParked ==
  ASSUME TypeOK, Owned
  PROVE  /\ ~ latch => Parked = {}
         /\ HasTask /\ ~ ReplugQueued => Parked = {}
         /\ \A p \in DOMAIN pollers :
              pollers[p].at # "recheck" /\ pollers[p].kind = "device" => Parked = {}
         /\ HasJob /\ ~ WillDrain => Parked = {}
  <1>1. \A p \in DOMAIN pollers : pollers[p] \in PollerType
    BY DEF TypeOK, DuckTypes
  <1>2. Those(pollers, DisplayPollers) \subseteq Those(pollers, Watchers)
    BY <1>1 DEF Owned, GoodExitIsDevice, Those, DisplayPollers, Watchers
  <1>3. Those(queue, ReplugTasks) \subseteq Those(queue, DuckTasks)
    BY DEF Those, DuckTasks, ReplugTasks, TaskOps
  <1>4. ASSUME NEW p \in DOMAIN pollers, pollers[p].at # "recheck", pollers[p].kind = "device"
        PROVE HasPoller /\ ~ DisplayWatched
    <2>1. p \in Those(pollers, Watchers) /\ p \notin Those(pollers, DisplayPollers)
      BY <1>1, <1>4 DEF Those, Watchers, DisplayPollers
    <2> QED
      BY <1>2, <2>1 DEF Owned, OneParty, Lone, HasPoller, DisplayWatched
  <1>5. DisplayWatched => HasPoller
    BY <1>2 DEF DisplayWatched, HasPoller
  <1>6. ReplugQueued => HasTask
    BY <1>3 DEF ReplugQueued, HasTask
  <1>7. WillDrain => HasJob
    BY DEF WillDrain, HasJob
  <1> QED
    BY <1>4, <1>5, <1>6, <1>7 DEF Owned, OneParty, ParkedIsOwned

LEMMA OwnedStep == TypeOK /\ Owned /\ [Next]_vars => Owned'
  <1> SUFFICES ASSUME TypeOK, Owned, [Next]_vars PROVE Owned'
    OBVIOUS
  <1>0. /\ queue \in Seq(TaskType) /\ pollers \in Seq(PollerType) /\ job \in JobType \cup {Idle}
        /\ \A p \in DOMAIN pollers : pollers[p] \in PollerType
        /\ epoch \in 0 .. MaxEpoch /\ luid \in [Sessions -> Luids]
        /\ where \in [Sessions -> {"none", "map", "hand", "parked"}]
    BY DEF TypeOK, WorkerTypes, DuckTypes, DeviceTypes, MachineTypes, MonitorTypes
  <1> DEFINE T == Those(queue, DuckTasks)
  <1> DEFINE P == Those(pollers, Watchers)
  (* Tasks, one more or less.                                               *)
  <1>t. ASSUME NEW t \in TaskType, queue' = Append(queue, t)
        PROVE  /\ t \notin DuckTasks => T' = T
               /\ t \in DuckTasks /\ T = {} => HasTask' /\ Lone(T')
               /\ ReplugQueued \/ t \in ReplugTasks => ReplugQueued'
    BY <1>0, <1>t, AppendedThose DEF HasTask, ReplugQueued
  <1>u. ASSUME queue # <<>>, queue' = Tail(queue)
        PROVE  /\ Lone(T') /\ Task \in TaskType
               /\ Task \notin DuckTasks => (HasTask' <=> HasTask) /\ (ReplugQueued' <=> ReplugQueued)
               /\ Task \in DuckTasks => HasTask /\ ~ HasTask'
               /\ Task \in DuckTasks \ ReplugTasks => ~ ReplugQueued
    <2>1. Lone(T) /\ ReplugTasks \subseteq DuckTasks
      BY DEF Owned, OneParty, DuckTasks, ReplugTasks, TaskOps
    <2>2. /\ Lone(T') /\ Task \in TaskType
          /\ Task \notin DuckTasks => (HasTask' <=> HasTask) /\ (ReplugQueued' <=> ReplugQueued)
          /\ Task \in DuckTasks => HasTask /\ ~ HasTask'
      <3>1. Task \in TaskType
        BY <1>0, <1>u, Served DEF Task
      <3>2. ASSUME NEW K PROVE /\ Task \notin K => (Those(queue', K) # {} <=> Those(queue, K) # {})
                               /\ Lone(Those(queue, K)) => Lone(Those(queue', K))
                               /\ Lone(Those(queue, K)) /\ Task \in K => Those(queue', K) = {}
                               /\ Task \in K => Those(queue, K) # {}
        BY <1>0, <1>u, ServedThose DEF Task
      <3>3. Task \notin DuckTasks => (HasTask' <=> HasTask)
        BY <3>2 DEF HasTask
      <3>4. Task \notin DuckTasks => (ReplugQueued' <=> ReplugQueued)
        BY <2>1, <3>2 DEF ReplugQueued
      <3>5. Task \in DuckTasks => HasTask /\ ~ HasTask'
        BY <2>1, <3>2 DEF HasTask
      <3>6. Lone(T')
        BY <2>1, <3>2
      <3> QED
        BY <3>1, <3>3, <3>4, <3>5, <3>6
    <2>3. ASSUME Task \in DuckTasks \ ReplugTasks PROVE ~ ReplugQueued
      <3>1. 1 \in T /\ queue[1] \notin ReplugTasks
        BY <1>0, <1>u, <2>3, Served, ServedThose DEF Task
      <3>2. Those(queue, ReplugTasks) \subseteq T
        BY <2>1 DEF Those
      <3> QED
        BY <2>1, <3>1, <3>2 DEF Lone, Those, ReplugQueued
    <2> QED
      BY <2>2, <2>3
  (* Pollers, one less, or one that goes on.                                *)
  <1>p. ASSUME NEW p \in DOMAIN pollers, pollers' = RemoveAt(pollers, p)
        PROVE  /\ Lone(P') /\ GoodExitIsDevice'
               /\ pollers[p].at # "recheck" => HasPoller /\ ~ HasPoller'
               /\ pollers[p].at = "recheck" => (HasPoller' <=> HasPoller) /\ (DisplayWatched' <=> DisplayWatched)
    <2>1. Lone(P) /\ pollers[p] \in PollerType /\ (pollers[p] \in Watchers <=> pollers[p].at # "recheck")
      BY <1>0 DEF Owned, OneParty, Watchers
    <2>2. Lone(P') /\ (pollers[p].at # "recheck" => HasPoller /\ ~ HasPoller')
      BY <1>0, <1>p, <2>1, RemovedThose DEF HasPoller
    <2>3. ASSUME pollers[p].at = "recheck"
          PROVE (HasPoller' <=> HasPoller) /\ (DisplayWatched' <=> DisplayWatched)
      <3>1. pollers[p] \notin DisplayPollers
        BY <2>3 DEF Owned, GoodExitIsDevice, DisplayPollers
      <3> QED
        BY <1>0, <1>p, <2>1, <2>3, <3>1, RemovedThose DEF HasPoller, DisplayWatched
    <2>4. GoodExitIsDevice'
      <3> SUFFICES ASSUME NEW i \in DOMAIN RemoveAt(pollers, p)
                   PROVE LET q == RemoveAt(pollers, p)[i] IN q.at # "watch" => q.kind = "device"
        BY <1>p DEF GoodExitIsDevice
      <3>1. \E j \in DOMAIN pollers : RemoveAt(pollers, p)[i] = pollers[j]
        BY <1>0, Removed
      <3> QED
        BY <3>1 DEF Owned, GoodExitIsDevice
    <2> QED
      BY <2>2, <2>3, <2>4
  <1>q. ASSUME NEW p \in DOMAIN pollers, NEW q \in PollerType, pollers' = [pollers EXCEPT ![p] = q],
               pollers[p].at # "recheck", q.kind = pollers[p].kind, q.at # "watch" => q.kind = "device"
        PROVE  /\ Lone(P') /\ GoodExitIsDevice' /\ HasPoller
               /\ q.at # "recheck" => HasPoller' /\ (DisplayWatched' <=> DisplayWatched)
               /\ q.at = "recheck" => ~ HasPoller'
    <2>1. /\ Lone(P) /\ pollers[p] \in Watchers /\ (q \in Watchers <=> q.at # "recheck")
          /\ (q \in DisplayPollers <=> pollers[p] \in DisplayPollers) /\ p \in P
      BY <1>0, <1>q DEF Owned, OneParty, Watchers, DisplayPollers, Those
    <2>2. GoodExitIsDevice'
      BY <1>0, <1>q DEF Owned, GoodExitIsDevice
    <2>3. CASE q.at # "recheck"
      <3>k. ASSUME NEW K, q \in K <=> pollers[p] \in K PROVE Those(pollers', K) = Those(pollers, K)
        BY <1>0, <1>q, <3>k DEF Those
      <3>1. P' = P
        BY <2>1, <2>3, <3>k
      <3>2. Those(pollers', DisplayPollers) = Those(pollers, DisplayPollers)
        BY <2>1, <3>k
      <3> QED
        BY <2>1, <2>2, <2>3, <3>1, <3>2 DEF HasPoller, DisplayWatched, Lone
    <2>4. CASE q.at = "recheck"
      <3>1. P' = {}
        BY <1>0, <1>q, <2>1, <2>4, KeptThose
      <3> QED
        BY <2>1, <2>2, <2>4, <3>1 DEF HasPoller, Lone
    <2> QED
      BY <2>3, <2>4
  (* What a step may do with the duck.                                      *)
  <1>a. ASSUME UNCHANGED <<latch, queue, pollers, job>>, Parked' \subseteq Parked PROVE Owned'
    BY <1>a DEF Owned, OneParty, GoodExitIsDevice, ParkedIsOwned, HasTask, HasPoller,
       HasJob, WillDrain, DisplayWatched, ReplugQueued
  <1>b. ASSUME UNCHANGED <<latch, queue, pollers>>, HasJob, HasJob', Parked' # {} => WillDrain' PROVE Owned'
    BY <1>b DEF Owned, OneParty, GoodExitIsDevice, ParkedIsOwned, HasTask, HasPoller
  <1>c. ASSUME queue # <<>>, queue' = Tail(queue), Task \notin DuckTasks, UNCHANGED <<latch, pollers, job>>,
               Parked' \subseteq Parked
        PROVE Owned'
    BY <1>c, <1>u DEF Owned, OneParty, GoodExitIsDevice, ParkedIsOwned, HasPoller, HasJob,
       WillDrain, DisplayWatched
  <1>d. ASSUME queue # <<>>, queue' = Tail(queue), Task \in DuckTasks, pollers' = pollers, Parked' = {},
               job' = Idle => ~ latch', job' # Idle => latch'
        PROVE Owned'
    BY <1>d, <1>u DEF Owned, OneParty, GoodExitIsDevice, ParkedIsOwned, HasPoller, HasJob
  <1>e. ASSUME HasJob, job' = Idle, UNCHANGED <<queue, pollers>>, ~ latch', Parked' = {} PROVE Owned'
    BY <1>e DEF Owned, OneParty, GoodExitIsDevice, ParkedIsOwned, HasTask, HasPoller, HasJob
  <1>f. ASSUME NEW p \in DOMAIN pollers, pollers[p].at # "recheck", pollers' = RemoveAt(pollers, p),
               UNCHANGED <<queue, job>>, ~ latch', Parked' = {}
        PROVE Owned'
    BY <1>f, <1>p DEF Owned, OneParty, ParkedIsOwned, HasTask, HasJob
  <1>g. ASSUME NEW p \in DOMAIN pollers, pollers[p].at # "recheck", pollers' = RemoveAt(pollers, p),
               NEW t \in DuckTasks, queue' = Append(queue, t), UNCHANGED <<latch, job>>,
               Parked' # {} => t \in ReplugTasks
        PROVE Owned'
    BY <1>g, <1>p, <1>t DEF Owned, OneParty, ParkedIsOwned, HasTask, HasJob, DuckTasks
  (* queue_tdr_duck                                                         *)
  <1>h. ASSUME NEW s \in Sessions, QueueDuck(s), job' = job, Parked' = Parked, Lone(P'), GoodExitIsDevice',
               HasPoller' <=> HasPoller, DisplayWatched' <=> DisplayWatched
        PROVE Owned'
    <2>1. CASE latch
      BY <1>h, <2>1 DEF QueueDuck, Owned, OneParty, ParkedIsOwned, HasTask, HasJob,
         WillDrain, ReplugQueued
    <2>2. CASE ~ latch
      <3>1. TaskFor(s) \in DuckTasks
        BY <1>0 DEF TaskFor, DuckTasks, TaskType, TaskOps
      <3>2. TaskFor(s) \in TaskType /\ queue' = Append(queue, TaskFor(s)) /\ latch'
        BY <1>h, <2>2, <3>1 DEF QueueDuck, DuckTasks
      <3>3. T = {} /\ ~ HasPoller /\ ~ HasJob /\ Parked = {}
        BY <2>2, NothingParked DEF Owned, OneParty, HasTask
      <3> QED
        BY <1>h, <1>t, <3>1, <3>2, <3>3 DEF Owned, OneParty, ParkedIsOwned, HasJob
    <2> QED
      BY <2>1, <2>2
  <1>1. ASSUME NEW l \in Luids, GpuResets(l) PROVE Owned'
    BY <1>1, <1>a DEF GpuResets, Parked, device, duck, table
  <1>2. ASSUME NEW l \in Luids, GpuAnswers(l) PROVE Owned'
    BY <1>2, <1>a DEF GpuAnswers, Parked, device, duck, monitors, table
  <1>3. ASSUME NEW s \in Sessions, Assign(s) PROVE Owned'
    BY <1>3, <1>a DEF Assign, Arrived, Parked, device, duck, machine, table
  <1>4. ASSUME NEW s \in Sessions, Unassign(s) PROVE Owned'
    BY <1>4, <1>a DEF Unassign, Parked, device, duck, machine, table
  <1>5. ASSUME NEW s \in Sessions, NEW op \in {"plug", "unplug"}, Request(s, op) PROVE Owned'
    <2>1. [op |-> op, epoch |-> epoch, sessions |-> {s}] \in TaskType
      BY <1>0, <1>5 DEF TaskType
    <2>2. [op |-> op, epoch |-> epoch, sessions |-> {s}] \notin DuckTasks
      BY <1>5 DEF DuckTasks, TaskOps
    <2>3. T' = T /\ (ReplugQueued => ReplugQueued')
      BY <1>5, <1>t, <2>1, <2>2 DEF Request
    <2>4. UNCHANGED <<latch, pollers, job>> /\ Parked' = Parked
      BY <1>5 DEF Request, duck, monitors, Parked
    <2> QED
      BY <2>3, <2>4 DEF Owned, OneParty, GoodExitIsDevice, ParkedIsOwned, HasTask,
         HasPoller, HasJob, WillDrain, DisplayWatched
  <1>6. ASSUME TimePasses PROVE Owned'
    BY <1>6, <1>a DEF TimePasses, Parked, device, machine, monitors, table
  <1>7. ASSUME ClearAdapter PROVE Owned'
    BY <1>7, <1>a DEF ClearAdapter, Parked, machine, monitors, table
  <1>8. ASSUME DrainMonitors PROVE Owned'
    BY <1>8, <1>a DEF DrainMonitors, Dead, Gone, Parked, Stop, duck, machine, table
  <1>9. ASSUME DrainParked PROVE Owned'
    BY <1>9, <1>a DEF DrainParked, Abandon, Dead, Gone, Parked, duck, machine
  <1>10. ASSUME BringUp PROVE Owned'
    <2>1. [op |-> "ready", epoch |-> epoch, sessions |-> {}] \in TaskType
      BY <1>0, <1>10 DEF TaskType
    <2>2. [op |-> "ready", epoch |-> epoch, sessions |-> {}] \notin DuckTasks
      BY <1>10 DEF DuckTasks, TaskOps
    <2>3. T' = T /\ (ReplugQueued => ReplugQueued')
      BY <1>10, <1>t, <2>1, <2>2 DEF BringUp
    <2>4. UNCHANGED <<latch, pollers, job>> /\ Parked' = Parked
      BY <1>10 DEF BringUp, duck, monitors, Parked
    <2> QED
      BY <2>3, <2>4 DEF Owned, OneParty, GoodExitIsDevice, ParkedIsOwned, HasTask,
         HasPoller, HasJob, WillDrain, DisplayWatched
  <1>11. ASSUME DropStale PROVE Owned'
    <2>1. queue # <<>> /\ queue' = Tail(queue) /\ Task.op \in {"duck", "device duck", "requalify", "deadline"} /\ job = Idle
      BY <1>11 DEF DropStale, Serving, Task, Done
    <2>2. Task \in DuckTasks \ ReplugTasks
      BY <1>u, <2>1 DEF DuckTasks, ReplugTasks, TaskOps
    <2>3. Parked = {}
      BY <1>u, <2>1, <2>2, NothingParked
    <2>4. job' = Idle /\ ~ latch' /\ pollers' = pollers /\ Parked' = {}
      BY <1>11, <2>1, <2>3 DEF DropStale, Release, Parked, Quietly, monitors
    <2> QED
      BY <1>d, <2>1, <2>2, <2>4
  <1>12. ASSUME StartDuck PROVE Owned'
    <2>1. queue # <<>> /\ queue' = Tail(queue) /\ Task.op \in {"duck"} /\ job = Idle
      BY <1>12 DEF StartDuck, Serving, Task, Done
    <2>2. Task \in DuckTasks \ ReplugTasks
      BY <1>u, <2>1 DEF DuckTasks, ReplugTasks, TaskOps
    <2>3. Parked = {}
      BY <1>u, <2>1, <2>2, NothingParked
    <2>4. latch' = latch /\ pollers' = pollers /\ Parked' = {} /\ job'.at = "next"
      BY <1>12, <2>3 DEF StartDuck, monitors, Parked
    <2>5. job' # Idle /\ latch
      BY <1>u, <2>1, <2>2, <2>4 DEF Idle, Owned, OneParty
    <2> QED
      BY <1>d, <2>1, <2>2, <2>4, <2>5
  <1>13. ASSUME StartDeviceDuck PROVE Owned'
    <2>1. queue # <<>> /\ queue' = Tail(queue) /\ Task.op \in {"device duck"} /\ job = Idle
      BY <1>13 DEF StartDeviceDuck, Serving, Task, Done
    <2>2. Task \in DuckTasks \ ReplugTasks
      BY <1>u, <2>1 DEF DuckTasks, ReplugTasks, TaskOps
    <2>3. Parked = {}
      BY <1>u, <2>1, <2>2, NothingParked
    <2>4. job' = Idle /\ Parked' = {}
      <3>1. where' = where \/ where' = Gone(Parked, where)
        BY <1>13 DEF StartDeviceDuck
      <3> QED
        BY <1>13, <2>1, <2>3, <3>1 DEF StartDeviceDuck, Parked, Gone
    <2>5. CASE latch' = FALSE /\ pollers' = pollers
      BY <1>d, <2>1, <2>2, <2>4, <2>5
    <2>6. CASE \E s \in Task.sessions :
                 latch' = latch /\ pollers' = Append(pollers, Poller("device", epoch, luid[s], SameAdapter(s)))
      <3>1. PICK s \in Task.sessions :
                 latch' = latch /\ pollers' = Append(pollers, Poller("device", epoch, luid[s], SameAdapter(s)))
        BY <2>6
      <3> DEFINE q == Poller("device", epoch, luid[s], SameAdapter(s))
      <3>2. q \in PollerType /\ q \in Watchers /\ q.at = "watch"
        <4>1. Task.sessions \subseteq Sessions
          BY <1>u, <2>1 DEF TaskType
        <4> QED
          BY <1>0, <4>1 DEF Poller, SameAdapter, PollerType, Watchers
      <3>3. P = {} /\ ~ HasTask' /\ latch
        BY <1>u, <2>1, <2>2 DEF Owned, OneParty, HasPoller
      <3> HIDE DEF q
      <3>4. Lone(P') /\ HasPoller'
        BY <1>0, <3>1, <3>2, <3>3, AppendedThose DEF q, HasPoller
      <3>5. GoodExitIsDevice'
        BY <1>0, <3>1, <3>2, Appended DEF q, Owned, GoodExitIsDevice
      <3> QED
        BY <1>u, <2>1, <2>4, <3>1, <3>3, <3>4, <3>5 DEF Owned, OneParty, ParkedIsOwned, HasJob
    <2> QED
      BY <1>13, <2>5, <2>6 DEF StartDeviceDuck, Release
  <1>14. ASSUME SkipRequalify PROVE Owned'
    <2>1. queue # <<>> /\ queue' = Tail(queue) /\ Task.op \in {"requalify"} /\ job = Idle
      BY <1>14 DEF SkipRequalify, Serving, Task, Done
    <2>2. Task \in DuckTasks \ ReplugTasks
      BY <1>u, <2>1 DEF DuckTasks, ReplugTasks, TaskOps
    <2>3. Parked = {}
      BY <1>u, <2>1, <2>2, NothingParked
    <2>4. job' = Idle /\ ~ latch' /\ pollers' = pollers /\ Parked' = {}
      BY <1>14, <2>1, <2>3 DEF SkipRequalify, Release, Parked, Quietly, monitors
    <2> QED
      BY <1>d, <2>1, <2>2, <2>4
  <1>15. ASSUME CapRequalify PROVE Owned'
    <2>1. queue # <<>> /\ queue' = Tail(queue) /\ Task.op \in {"requalify"} /\ job = Idle
      BY <1>15 DEF CapRequalify, Serving, Task, Done
    <2>2. Task \in DuckTasks \ ReplugTasks
      BY <1>u, <2>1 DEF DuckTasks, ReplugTasks, TaskOps
    <2>3. Parked = {}
      BY <1>u, <2>1, <2>2, NothingParked
    <2>4. job' = Idle /\ ~ latch' /\ pollers' = pollers /\ Parked' = {}
      BY <1>15, <2>1, <2>3 DEF CapRequalify, Release, Parked, Quietly, monitors
    <2> QED
      BY <1>d, <2>1, <2>2, <2>4
  <1>16. ASSUME StartRequalify PROVE Owned'
    <2>1. queue # <<>> /\ queue' = Tail(queue) /\ Task.op \in {"requalify"} /\ job = Idle
      BY <1>16 DEF StartRequalify, Serving, Task, Done
    <2>2. Task \in DuckTasks \ ReplugTasks
      BY <1>u, <2>1 DEF DuckTasks, ReplugTasks, TaskOps
    <2>3. Parked = {}
      BY <1>u, <2>1, <2>2, NothingParked
    <2>4. latch' = latch /\ pollers' = pollers /\ Parked' = {} /\ job'.at = "next"
      BY <1>16, <2>3 DEF StartRequalify, monitors, Parked
    <2>5. job' # Idle /\ latch
      BY <1>u, <2>1, <2>2, <2>4 DEF Idle, Owned, OneParty
    <2> QED
      BY <1>d, <2>1, <2>2, <2>4, <2>5
  <1>17. ASSUME GiveUp PROVE Owned'
    <2>1. queue # <<>> /\ queue' = Tail(queue) /\ Task.op \in {"deadline"} /\ job = Idle
      BY <1>17 DEF GiveUp, Serving, Task, Done
    <2>2. Task \in DuckTasks \ ReplugTasks
      BY <1>u, <2>1 DEF DuckTasks, ReplugTasks, TaskOps
    <2>3. Parked = {}
      BY <1>u, <2>1, <2>2, NothingParked
    <2>4. job' = Idle /\ ~ latch' /\ pollers' = pollers /\ Parked' = {}
      BY <1>17, <2>1, <2>3 DEF GiveUp, Release, Parked, Gone
    <2> QED
      BY <1>d, <2>1, <2>2, <2>4
  <1>18. ASSUME NEW s \in Sessions, DuckNext(s) PROVE Owned'
    <2>1. job \in JobType
      BY <1>18, <1>0 DEF DuckNext, Idle
    <2>2. job.at # "arrive" /\ job'.at \in {"next", "depart", "remove", "park"} /\ job'.parked = job.parked
      BY <1>18, <2>1 DEF DuckNext, JobType
    <2>3. Parked' \subseteq Parked /\ UNCHANGED <<latch, queue, pollers>>
      BY <1>0, <1>18 DEF DuckNext, duck, monitors, Parked
    <2>4. HasJob /\ HasJob'
      BY <2>1, <2>2 DEF HasJob, JobType, Idle
    <2> QED
      BY <1>b, <2>2, <2>3, <2>4, NothingParked DEF WillDrain, HasJob
  <1>19. ASSUME Departs PROVE Owned'
    <2>1. job \in JobType
      BY <1>19, <1>0 DEF Departs, Idle
    <2>2. job.at # "arrive" /\ job'.at \in {"next", "depart", "remove", "park"} /\ job'.parked = job.parked
      BY <1>19, <2>1 DEF Departs, JobType
    <2>3. Parked' \subseteq Parked /\ UNCHANGED <<latch, queue, pollers>>
      BY <1>0, <1>19 DEF Departs, duck, monitors, Parked
    <2>4. HasJob /\ HasJob'
      BY <2>1, <2>2 DEF HasJob, JobType, Idle
    <2> QED
      BY <1>b, <2>2, <2>3, <2>4, NothingParked DEF WillDrain, HasJob
  <1>20. ASSUME DepartureFails PROVE Owned'
    <2>1. job \in JobType
      BY <1>20, <1>0 DEF DepartureFails, Idle
    <2>2. job.at # "arrive" /\ job'.at \in {"next", "depart", "remove", "park"} /\ job'.parked = job.parked
      BY <1>20, <2>1 DEF DepartureFails, JobType
    <2>3. Parked' \subseteq Parked /\ UNCHANGED <<latch, queue, pollers>>
      BY <1>0, <1>20 DEF DepartureFails, duck, monitors, Parked
    <2>4. HasJob /\ HasJob'
      BY <2>1, <2>2 DEF HasJob, JobType, Idle
    <2> QED
      BY <1>b, <2>2, <2>3, <2>4, NothingParked DEF WillDrain, HasJob
  <1>21. ASSUME Unmap PROVE Owned'
    <2>1. job \in JobType
      BY <1>21, <1>0 DEF Unmap, Idle
    <2>2. job.at # "arrive" /\ job'.at \in {"next", "depart", "remove", "park"} /\ job'.parked = job.parked
      BY <1>21, <2>1 DEF Unmap, JobType
    <2>3. Parked' \subseteq Parked /\ UNCHANGED <<latch, queue, pollers>>
      BY <1>0, <1>21 DEF Unmap, duck, monitors, Parked
    <2>4. HasJob /\ HasJob'
      BY <2>1, <2>2 DEF HasJob, JobType, Idle
    <2> QED
      BY <1>b, <2>2, <2>3, <2>4, NothingParked DEF WillDrain, HasJob
  <1>22. ASSUME Park PROVE Owned'
    <2>1. job \in JobType
      BY <1>22, <1>0 DEF Park, Idle
    <2>2. job'.at = "next" /\ job'.parked
      BY <1>22, <2>1 DEF Park, JobType
    <2>3. UNCHANGED <<latch, queue, pollers>>
      BY <1>22 DEF Park, duck
    <2>4. HasJob /\ HasJob'
      BY <2>1, <2>2 DEF HasJob, JobType, Idle
    <2> QED
      BY <1>b, <2>2, <2>3, <2>4 DEF WillDrain, HasJob
  <1>23. ASSUME DuckNone PROVE Owned'
    <2>1. HasJob /\ job' = Idle /\ UNCHANGED <<queue, pollers>> /\ ~ latch'
      BY <1>23 DEF DuckNone, DuckedAll, Release, HasJob, Idle
    <2>2. Parked' = {}
      <3>1. CASE TornDown
        BY <1>23, <3>1 DEF DuckNone, Abandon, Gone, Parked
      <3>2. CASE ~ TornDown
        BY <1>23, <2>1, <3>2, NothingParked DEF DuckNone, WillDrain, Parked
      <3> QED
        BY <3>1, <3>2
    <2> QED
      BY <1>e, <2>1, <2>2
  <1>24. ASSUME DuckGivesUp PROVE Owned'
    <2>1. HasJob /\ job' = Idle /\ UNCHANGED <<queue, pollers>> /\ ~ latch'
      BY <1>24 DEF DuckGivesUp, DuckedAll, Release, HasJob, Idle
    <2>2. Parked' = {}
      BY <1>24 DEF DuckGivesUp, Abandon, Gone, Parked
    <2> QED
      BY <1>e, <2>1, <2>2
  <1>25. ASSUME DuckWaits PROVE Owned'
    <2>1. PICK s \in Sessions : pollers' = Append(pollers, Poller("display", job.epoch, luid[s], {}))
      BY <1>25 DEF DuckWaits
    <2>2. job \in JobType /\ HasJob
      BY <1>25, <1>0 DEF DuckWaits, DuckedAll, Idle, HasJob
    <2> DEFINE q == Poller("display", job.epoch, luid[s], {})
    <2>3. q \in PollerType /\ q \in Watchers /\ q \in DisplayPollers /\ q.at = "watch"
      BY <1>0, <2>2 DEF Poller, PollerType, Watchers, DisplayPollers, JobType
    <2>4. P = {} /\ ~ HasTask /\ latch
      BY <2>2 DEF Owned, OneParty, HasPoller
    <2> HIDE DEF q
    <2>5. Lone(P') /\ HasPoller' /\ DisplayWatched'
      BY <1>0, <2>1, <2>3, <2>4, AppendedThose DEF q, HasPoller, DisplayWatched
    <2>6. GoodExitIsDevice'
      BY <1>0, <2>1, <2>3, Appended DEF q, Owned, GoodExitIsDevice
    <2>7. job' = Idle /\ UNCHANGED <<queue, latch>>
      BY <1>25 DEF DuckWaits
    <2> QED
      BY <2>4, <2>5, <2>6, <2>7 DEF Owned, OneParty, ParkedIsOwned, HasTask, HasJob
  <1>26. ASSUME DropReplug PROVE Owned'
    <2>1. queue # <<>> /\ queue' = Tail(queue) /\ Task.op = "replug" /\ job' = Idle
      BY <1>26 DEF DropReplug, Serving, Task, Done
    <2>2. Task \in DuckTasks
      BY <1>u, <2>1 DEF DuckTasks, TaskOps
    <2>3. pollers' = pollers /\ ~ latch' /\ Parked' = {}
      BY <1>26 DEF DropReplug, Release, Abandon, Gone, Parked
    <2> QED
      BY <1>d, <2>1, <2>2, <2>3
  <1>27. ASSUME StartReplug PROVE Owned'
    <2>1. queue # <<>> /\ queue' = Tail(queue) /\ Task.op = "replug"
      BY <1>27 DEF StartReplug, Serving, Task, Done
    <2>2. Task \in DuckTasks /\ latch
      BY <1>u, <2>1 DEF DuckTasks, TaskOps, Owned, OneParty
    <2>3. pollers' = pollers /\ latch' = latch /\ job'.at = "arrive"
      BY <1>27 DEF StartReplug, TakeParked, duck
    <2>4. Parked' = {}
      BY <1>27 DEF StartReplug, TakeParked, Abandon, Gone, Parked
    <2>5. job' # Idle
      BY <2>3 DEF Idle
    <2> QED
      BY <1>d, <2>1, <2>2, <2>3, <2>4, <2>5
  <1>28. ASSUME RequalifyReplugs PROVE Owned'
    <2>1. HasJob
      BY <1>28 DEF RequalifyReplugs, DuckedAll, HasJob, Idle
    <2>2. UNCHANGED <<latch, queue, pollers>> /\ job'.at = "arrive"
      BY <1>28 DEF RequalifyReplugs, TakeParked, duck
    <2>3. Parked' = {}
      BY <1>28 DEF RequalifyReplugs, TakeParked, Abandon, Gone, Parked
    <2>4. HasJob'
      BY <2>2 DEF HasJob, Idle
    <2> QED
      BY <1>b, <2>1, <2>2, <2>3, <2>4
  <1>29. ASSUME NEW s \in Sessions, Arrive(s) PROVE Owned'
    <2>1. job \in JobType
      BY <1>29, <1>0 DEF Arrive, Idle
    <2>2. job.at = "arrive" /\ job'.at = "arrive"
      BY <1>29, <2>1 DEF Arrive, JobType
    <2>3. HasJob /\ HasJob' /\ UNCHANGED <<latch, queue, pollers>>
      BY <1>29, <2>2 DEF Arrive, duck, HasJob, Idle
    <2>4. Parked = {}
      BY <2>2, <2>3, NothingParked DEF WillDrain
    <2>5. Parked' \subseteq Parked
      BY <1>0, <1>29 DEF Arrive, Parked, Gone
    <2> QED
      BY <1>b, <2>3, <2>4, <2>5
  <1>30. ASSUME Replugged PROVE Owned'
    <2>1. HasJob /\ job' = Idle /\ UNCHANGED <<queue, pollers>> /\ ~ latch' /\ ~ WillDrain
      BY <1>30 DEF Replugged, Release, HasJob, Idle, WillDrain
    <2>2. Parked' = {}
      BY <1>30, <2>1, NothingParked DEF Replugged, monitors, Parked
    <2> QED
      BY <1>e, <2>1, <2>2
  <1>31. ASSUME ServePlug PROVE Owned'
    <2>1. queue # <<>> /\ queue' = Tail(queue) /\ Task.op = "plug"
      BY <1>31 DEF ServePlug, Serving, Task, Done
    <2>2. Task \notin DuckTasks
      BY <2>1 DEF DuckTasks, TaskOps
    <2>3. UNCHANGED <<latch, pollers, job>> /\ Parked' \subseteq Parked
      BY <1>0, <1>31 DEF ServePlug, duck, monitors, Gone, Parked
    <2> QED
      BY <1>c, <2>1, <2>2, <2>3
  <1>32. ASSUME ServeUnplug PROVE Owned'
    <2>1. queue # <<>> /\ queue' = Tail(queue) /\ Task.op = "unplug"
      BY <1>32 DEF ServeUnplug, Serving, Task, Done
    <2>2. Task \notin DuckTasks
      BY <2>1 DEF DuckTasks, TaskOps
    <2>3. UNCHANGED <<latch, pollers, job>> /\ Parked' \subseteq Parked
      BY <1>0, <1>32 DEF ServeUnplug, duck, monitors, Gone, Parked
    <2> QED
      BY <1>c, <2>1, <2>2, <2>3
  <1>33. ASSUME AdapterReady PROVE Owned'
    <2>1. queue # <<>> /\ queue' = Tail(queue) /\ Task.op = "ready"
      BY <1>33 DEF AdapterReady, Serving, Task, Done
    <2>2. Task \notin DuckTasks
      BY <2>1 DEF DuckTasks, TaskOps
    <2>3. UNCHANGED <<latch, pollers, job>> /\ Parked' \subseteq Parked
      BY <1>0, <1>33 DEF AdapterReady, duck, monitors, Gone, Parked
    <2> QED
      BY <1>c, <2>1, <2>2, <2>3
  <1>34. ASSUME NEW p \in DOMAIN pollers, DisplayPollerEnds(p) PROVE Owned'
    <2>1. /\ pollers[p].at # "recheck" /\ pollers' = RemoveAt(pollers, p) /\ UNCHANGED <<queue, job>>
          /\ ~ latch'
      BY <1>34 DEF DisplayPollerEnds, Kind, Ends, Release
    <2>2. Parked' = {}
      BY <1>34 DEF DisplayPollerEnds, DrainStale, Abandon, Gone, Parked
    <2> QED
      BY <1>f, <2>1, <2>2
  <1>35. ASSUME NEW p \in DOMAIN pollers, DisplayRecovered(p) PROVE Owned'
    <2> DEFINE t == [op |-> "replug", epoch |-> pollers[p].epoch, sessions |-> {}]
    <2>1. /\ pollers[p].at # "recheck" /\ pollers' = RemoveAt(pollers, p) /\ UNCHANGED <<latch, job>>
          /\ queue' = Append(queue, t)
      BY <1>35 DEF DisplayRecovered, Kind, Ends, ToWorker
    <2>2. t \in DuckTasks
      BY <1>0 DEF DuckTasks, TaskType, TaskOps, PollerType, Unrecovered
    <2>4. t \in ReplugTasks
      BY <2>2 DEF ReplugTasks, DuckTasks
    <2> HIDE DEF t
    <2> QED
      BY <1>g, <2>1, <2>2, <2>4
  <1>36. ASSUME NEW p \in DOMAIN pollers, DisplayDeadline(p) PROVE Owned'
    <2>1. /\ pollers[p].at # "recheck" /\ pollers' = RemoveAt(pollers, p) /\ UNCHANGED <<queue, job>>
          /\ ~ latch'
      BY <1>36 DEF DisplayDeadline, Kind, Ends, Release
    <2>2. Parked' = {}
      BY <1>36 DEF DisplayDeadline, Abandon, Gone, Parked
    <2> QED
      BY <1>f, <2>1, <2>2
  <1>37. ASSUME NEW p \in DOMAIN pollers, DevicePollerEnds(p) PROVE Owned'
    <2>1. /\ pollers[p].at # "recheck" /\ pollers' = RemoveAt(pollers, p) /\ UNCHANGED <<queue, job>>
          /\ ~ latch'
      BY <1>37 DEF DevicePollerEnds, Kind, Ends, Release
    <2>2. Parked' = {}
      BY <1>37, <2>1, NothingParked DEF DevicePollerEnds, Kind, monitors, Parked
    <2> QED
      BY <1>f, <2>1, <2>2
  <1>38. ASSUME NEW p \in DOMAIN pollers, AllSettled(p) PROVE Owned'
    <2> DEFINE q == [pollers[p] EXCEPT !.at = "release", !.covers = Watched(p)]
    <2>1. /\ pollers' = [pollers EXCEPT ![p] = q] /\ pollers[p].at = "watch"
          /\ UNCHANGED <<latch, queue, job>> /\ Parked' = Parked
      BY <1>38 DEF AllSettled, Kind, monitors, Parked
    <2>2. q \in PollerType /\ q.kind = pollers[p].kind /\ q.at = "release" /\ q.kind = "device"
      BY <1>0, <1>38 DEF AllSettled, Kind, PollerType, Watched
    <2> HIDE DEF q
    <2>3. Lone(P') /\ GoodExitIsDevice' /\ HasPoller /\ HasPoller' /\ (DisplayWatched' <=> DisplayWatched)
      BY <1>q, <2>1, <2>2
    <2> QED
      BY <2>1, <2>3 DEF Owned, OneParty, ParkedIsOwned, HasTask, HasJob, WillDrain, ReplugQueued
  <1>39. ASSUME NEW p \in DOMAIN pollers, GoodExit(p) PROVE Owned'
    <2> DEFINE q == [pollers[p] EXCEPT !.at = "recheck"]
    <2>1. /\ pollers' = [pollers EXCEPT ![p] = q] /\ pollers[p].at = "release"
          /\ ~ latch' /\ UNCHANGED <<queue, job>> /\ Parked' = Parked
      BY <1>39 DEF GoodExit, Release, monitors, Parked
    <2>2. q \in PollerType /\ q.kind = pollers[p].kind /\ q.at = "recheck" /\ pollers[p].kind = "device"
      BY <1>0, <2>1 DEF PollerType, Owned, GoodExitIsDevice
    <2> HIDE DEF q
    <2>3. Lone(P') /\ GoodExitIsDevice' /\ HasPoller /\ ~ HasPoller'
      BY <1>q, <2>1, <2>2
    <2>4. Parked = {}
      BY <2>1, <2>2, NothingParked
    <2> QED
      BY <2>1, <2>3, <2>4 DEF Owned, OneParty, ParkedIsOwned, HasTask, HasJob
  <1>40. ASSUME NEW p \in DOMAIN pollers, Recheck(p) PROVE Owned'
    <2>1. pollers[p].at = "recheck" /\ pollers' = RemoveAt(pollers, p) /\ job' = job /\ Parked' = Parked
      BY <1>40 DEF Recheck, Ends, monitors, Parked
    <2>2. Lone(P') /\ GoodExitIsDevice' /\ (HasPoller' <=> HasPoller) /\ (DisplayWatched' <=> DisplayWatched)
      BY <1>p, <2>1
    <2>3. CASE UNCHANGED <<latch, queue>>
      BY <2>1, <2>2, <2>3 DEF Owned, OneParty, ParkedIsOwned, HasTask, HasJob, WillDrain,
         ReplugQueued
    <2>4. CASE \E s \in Sessions : QueueDuck(s)
      BY <1>h, <2>1, <2>2, <2>4
    <2>5. Failed(p) \subseteq Sessions
      BY <1>0 DEF Failed, PollerType
    <2> QED
      BY <1>40, <2>3, <2>4, <2>5 DEF Recheck
  <1>41. ASSUME NEW p \in DOMAIN pollers, Requalify(p) PROVE Owned'
    <2> DEFINE t == [op |-> "requalify", epoch |-> pollers[p].epoch, sessions |-> Unrecovered(pollers[p].covers)]
    <2>1. /\ pollers[p].at # "recheck" /\ pollers' = RemoveAt(pollers, p) /\ UNCHANGED <<latch, job>>
          /\ queue' = Append(queue, t)
      BY <1>41 DEF Requalify, Kind, Ends, ToWorker
    <2>2. t \in DuckTasks
      BY <1>0 DEF DuckTasks, TaskType, TaskOps, PollerType, Unrecovered
    <2>4. Parked' = {}
      BY <1>41, <2>1, NothingParked DEF Requalify, Kind, monitors, Parked
    <2> HIDE DEF t
    <2> QED
      BY <1>g, <2>1, <2>2, <2>4
  <1>42. ASSUME NEW p \in DOMAIN pollers, Deadline(p) PROVE Owned'
    <2> DEFINE t == [op |-> "deadline", epoch |-> pollers[p].epoch, sessions |-> Unrecovered(pollers[p].covers)]
    <2>1. /\ pollers[p].at # "recheck" /\ pollers' = RemoveAt(pollers, p) /\ UNCHANGED <<latch, job>>
          /\ queue' = Append(queue, t)
      BY <1>42 DEF Deadline, Kind, Ends, ToWorker
    <2>2. t \in DuckTasks
      BY <1>0 DEF DuckTasks, TaskType, TaskOps, PollerType, Unrecovered
    <2>4. Parked' = {}
      BY <1>42, <2>1, NothingParked DEF Deadline, Kind, monitors, Parked
    <2> HIDE DEF t
    <2> QED
      BY <1>g, <2>1, <2>2, <2>4
  <1>43. ASSUME NEW s \in Sessions, DeviceCreated(s) PROVE Owned'
    BY <1>43, <1>a DEF DeviceCreated, Parked, device, duck, machine, table
  <1>44. ASSUME NEW s \in Sessions, DeviceCreateFails(s) PROVE Owned'
    BY <1>44, <1>a DEF DeviceCreateFails, Parked, device, duck, machine, table
  <1>45. ASSUME NEW s \in Sessions, FirstFrame(s) PROVE Owned'
    BY <1>45, <1>a DEF FirstFrame, Parked, device, duck, machine, table
  <1>46. ASSUME NEW s \in Sessions, SwapchainLost(s) PROVE Owned'
    BY <1>46, <1>a DEF SwapchainLost, Parked, device, duck, machine, table
  <1>47. ASSUME NEW s \in Sessions, Arm(s) PROVE Owned'
    <2>1. QueueDuck(s) /\ UNCHANGED <<job, pollers, where>>
      BY <1>47 DEF Arm
    <2>2. Parked' = Parked /\ Lone(P') /\ GoodExitIsDevice' /\ (HasPoller' <=> HasPoller) /\ (DisplayWatched' <=> DisplayWatched)
      BY <2>1 DEF Parked, Owned, OneParty, GoodExitIsDevice, HasPoller, DisplayWatched
    <2> QED
      BY <1>h, <2>1, <2>2
  <1>48. ASSUME NEW p \in DOMAIN pollers, ProbeAnswers(p) PROVE Owned'
    <2> DEFINE q == [pollers[p] EXCEPT !.seen = TRUE]
    <2>1. /\ pollers' = [pollers EXCEPT ![p] = q] /\ pollers[p].at = "watch"
          /\ UNCHANGED <<latch, queue, job>> /\ Parked' = Parked
      BY <1>48 DEF ProbeAnswers, Kind, monitors, Parked
    <2>2. q \in PollerType /\ q.kind = pollers[p].kind /\ q.at = "watch"
      BY <1>0, <1>48 DEF ProbeAnswers, Kind, PollerType, Watched
    <2> HIDE DEF q
    <2>3. Lone(P') /\ GoodExitIsDevice' /\ HasPoller /\ HasPoller' /\ (DisplayWatched' <=> DisplayWatched)
      BY <1>q, <2>1, <2>2
    <2> QED
      BY <2>1, <2>3 DEF Owned, OneParty, ParkedIsOwned, HasTask, HasJob, WillDrain, ReplugQueued
  <1>49. CASE UNCHANGED vars
    BY <1>49, <1>a DEF vars, machine, table, monitors, duck, device, Parked
  <1> QED
    <2>m. CASE Machine
      BY <1>1, <1>2, <1>3, <1>4, <1>5, <1>6, <1>7, <2>m DEF Machine
    <2>f. CASE FinalExit
      BY <1>8, <1>9, <1>10, <2>f DEF FinalExit
    <2>e. CASE EffectsWorker
      BY <1>11, <1>12, <1>13, <1>14, <1>15, <1>16, <1>17, <1>18, <1>19, <1>20, <1>21,
        <1>22, <1>23, <1>24, <1>25, <1>26, <1>27, <1>28, <1>29, <1>30, <1>31, <1>32,
        <1>33, <2>e DEF EffectsWorker
    <2>p. CASE PollerStep
      BY <1>34, <1>35, <1>36, <1>37, <1>38, <1>39, <1>40, <1>41, <1>42, <2>p DEF
        PollerStep
    <2>w. CASE \E s \in Sessions : FrameWorker(s) \/ Arm(s)
      BY <1>43, <1>44, <1>45, <1>46, <1>47, <2>w DEF FrameWorker
    <2>a. CASE \E p \in DOMAIN pollers : ProbeAnswers(p)
      BY <1>48, <2>a
    <2> QED
      BY <1>49, <2>m, <2>f, <2>e, <2>p, <2>w, <2>a DEF Next

-----------------------------------------------------------------------------
LEMMA TypingInit == Init => TypeOK
  <1> SUFFICES ASSUME Init PROVE TypeOK
    OBVIOUS
  <1> USE MachineAssumption, BoundsAssumption DEF Init
  <1>1. MachineTypes /\ MonitorTypes /\ DeviceTypes
    BY DEF MachineTypes, MonitorTypes, DeviceTypes
  <1>2. <<>> \in Seq(PollerType) /\ <<>> \in Seq(TaskType)
    BY EmptySeq
  <1>3. DuckTypes
    <2>1. cycles = 0 /\ latch = FALSE /\ recovery = "never"
      OBVIOUS
    <2>3. 0 \in 0 .. MaxCycles
      BY SMT
    <2>2. pollers \in Seq(PollerType) /\ rechecked \subseteq Sessions
      BY <1>2, Zenon
    <2> QED
      BY <2>1, <2>2, <2>3, Zenon DEF DuckTypes
  <1>4. WorkerTypes
    BY <1>2 DEF WorkerTypes
  <1> QED
    BY <1>1, <1>3, <1>4 DEF TypeOK

LEMMA OwnedInit == Init => Owned
  <1> SUFFICES ASSUME Init PROVE Owned
    OBVIOUS
  <1>1. \A K : Those(<<>>, K) = {}
    BY DEF Those
  <1> QED
    BY <1>1 DEF Init, Owned, OneParty, GoodExitIsDevice, ParkedIsOwned, HasTask, HasPoller,
       HasJob, Lone, Parked

LEMMA OwnedMeans == TypeOK /\ Owned => DuckOwnsItsState
  <1> SUFFICES ASSUME TypeOK, Owned PROVE DuckOwnsItsState
    OBVIOUS
  <1>1. Queued = Those(queue, DuckTasks)
    BY DEF TypeOK, WorkerTypes, Queued, Those, DuckTasks
  <1>2. Polling = Those(pollers, Watchers)
    BY DEF TypeOK, DuckTypes, Polling, Those, Watchers
  <1>3. OneDuck
    <2>1. \A a \in Parties :
            (\E i \in Queued : a = <<"queue", i>>) \/ (\E p \in Polling : a = <<"poller", p>>)
              \/ (job # Idle /\ a = <<"worker", 1>>)
      BY DEF Parties
    <2>2. ASSUME HasTask \/ HasPoller \/ HasJob PROVE Parties # {}
      <3>1. ASSUME HasTask PROVE Parties # {}
        BY <1>1, <3>1 DEF Parties, HasTask
      <3>2. ASSUME HasPoller PROVE Parties # {}
        BY <1>2, <3>2 DEF Parties, HasPoller
      <3>3. ASSUME HasJob PROVE Parties # {}
        BY <3>3 DEF Parties, HasJob
      <3> QED
        BY <2>2, <3>1, <3>2, <3>3
    <2>4. Parties # {} => HasTask \/ HasPoller \/ HasJob
      BY <1>1, <1>2, <2>1 DEF HasTask, HasPoller, HasJob
    <2>3. \A a, b \in Parties : a = b
      BY <1>1, <1>2, <2>1 DEF Owned, OneParty, HasTask, HasPoller, HasJob, Lone
    <2> QED
      BY <2>2, <2>3, <2>4 DEF OneDuck, Owned, OneParty
  <1>4. ParkedHasDuck
    BY NothingParked DEF ParkedHasDuck
  <1> QED
    BY <1>3, <1>4 DEF DuckOwnsItsState

(* Every variable stays within its type; the incident's cycles within       *)
(* TDR_MAX_DUCK_CYCLES.                                                    *)
THEOREM TypeCorrect == Spec => []TypeOK
  BY TypingInit, TypingStep, PTL DEF Spec

(* The latch is held exactly while one party has the duck, and parked       *)
(* monitors always have one that brings them back or abandons them.        *)
THEOREM OneOwner == Spec => []DuckOwnsItsState
  BY TypingInit, TypingStep, OwnedInit, OwnedStep, OwnedMeans, PTL DEF Spec

-----------------------------------------------------------------------------
(* The good exit.                                                          *)

(* Whoever has the duck holds the latch.                                   *)
LEMMA OwnerHoldsLatch ==
  ASSUME TypeOK, Owned
  PROVE  /\ job # Idle => latch
         /\ \A p \in DOMAIN pollers : pollers[p].at # "recheck" => latch
         /\ queue # <<>> /\ Task.op \in TaskOps => latch
  <1>1. \A p \in DOMAIN pollers : pollers[p].at # "recheck" => p \in Those(pollers, Watchers)
    BY DEF TypeOK, DuckTypes, Those, Watchers
  <1>2. ASSUME queue # <<>>, Task.op \in TaskOps PROVE 1 \in Those(queue, DuckTasks)
    <2>1. queue \in Seq(TaskType)
      BY DEF TypeOK, WorkerTypes
    <2>2. Task \in TaskType /\ 1 \in DOMAIN queue /\ Task = queue[1]
      BY <1>2, <2>1, Served DEF Task
    <2> QED
      BY <1>2, <2>2 DEF Those, DuckTasks
  <1> QED
    BY <1>1, <1>2 DEF Owned, OneParty, HasJob, HasPoller, HasTask

(* A monitor the good exit gave up watching is stranded only as long as the *)
(* poller that let go of it has yet to look again; and a new duck starts    *)
(* the account afresh.                                                      *)
Rechecking(s) == \E p \in DOMAIN pollers : pollers[p].at = "recheck" /\ s \in pollers[p].covers
Watchful ==
  /\ latch => rechecked = {}
  /\ ~ latch => \A s \in rechecked : Stranded(s) => Rechecking(s)

LEMMA WatchfulStep == TypeOK /\ Owned /\ Watchful /\ [Next]_vars => Watchful'
  <1> SUFFICES ASSUME TypeOK, Owned, Watchful, [Next]_vars PROVE Watchful'
    OBVIOUS
  <1>0. /\ pollers \in Seq(PollerType) /\ \A p \in DOMAIN pollers : pollers[p] \in PollerType
        /\ where \in [Sessions -> {"none", "map", "hand", "parked"}]
        /\ ring \in [Sessions -> {"REBUILDING", "ACTIVE", "DEAD"}]
        /\ frame \in [Sessions -> {"none", "creating", "running", "removed", "arming", "lost"}]
        /\ rechecked \subseteq Sessions
    BY DEF TypeOK, DuckTypes, MonitorTypes
  (* While somebody has the duck the account is empty.                      *)
  <1>a. ASSUME latch, rechecked' = rechecked PROVE Watchful'
    BY <1>a DEF Watchful
  <1>j. ASSUME job # Idle, rechecked' = rechecked PROVE Watchful'
    BY <1>a, <1>j, OwnerHoldsLatch
  <1>t. ASSUME queue # <<>>, Task.op \in TaskOps, rechecked' = rechecked PROVE Watchful'
    BY <1>a, <1>t, OwnerHoldsLatch
  <1>p. ASSUME NEW p \in DOMAIN pollers, pollers[p].at # "recheck", rechecked' = rechecked PROVE Watchful'
    BY <1>a, <1>p, OwnerHoldsLatch
  (* Nobody on the account is stranded anew.                                *)
  <1>b. ASSUME UNCHANGED <<latch, pollers>>, rechecked' \subseteq rechecked,
               \A s \in rechecked' : Stranded(s)' => Stranded(s)
        PROVE Watchful'
    BY <1>b DEF Watchful, Rechecking
  (* queue_tdr_duck                                                         *)
  <1>h. ASSUME NEW s \in Sessions, QueueDuck(s),
               latch => rechecked' = rechecked
        PROVE latch' /\ Watchful'
    BY <1>h DEF QueueDuck, Watchful
  <1>1. ASSUME NEW l \in Luids, GpuResets(l) PROVE Watchful'
    BY <1>1, <1>0, <1>b DEF GpuResets, device, duck, table, Stranded, Settled, machine,
       monitors
  <1>2. ASSUME NEW l \in Luids, GpuAnswers(l) PROVE Watchful'
    BY <1>2, <1>0, <1>b DEF GpuAnswers, device, duck, monitors, table, Stranded,
       Settled, machine
  <1>3. ASSUME NEW s \in Sessions, Assign(s) PROVE Watchful'
    BY <1>3, <1>0, <1>b DEF Assign, device, duck, machine, table, Stranded, Settled,
       monitors
  <1>4. ASSUME NEW s \in Sessions, Unassign(s) PROVE Watchful'
    BY <1>4, <1>0, <1>b DEF Unassign, device, duck, machine, table, Stranded, Settled,
       monitors
  <1>5. ASSUME NEW s \in Sessions, NEW op \in {"plug", "unplug"}, Request(s, op) PROVE Watchful'
    BY <1>5, <1>0, <1>b DEF Request, device, duck, machine, Stranded, Settled, monitors,
       table
  <1>6. ASSUME TimePasses PROVE Watchful'
    BY <1>6, <1>0, <1>b DEF TimePasses, device, machine, monitors, table, Stranded,
       Settled, duck
  <1>7. ASSUME ClearAdapter PROVE Watchful'
    BY <1>7, <1>0, <1>b DEF ClearAdapter, machine, monitors, table, Stranded, Settled,
       duck, device
  <1>8. ASSUME DrainMonitors PROVE Watchful'
    BY <1>8, <1>0, <1>b DEF DrainMonitors, Dead, Gone, Stop, duck, machine, table,
       Stranded, Settled, monitors, device
  <1>9. ASSUME DrainParked PROVE Watchful'
    BY <1>9, <1>0, <1>b DEF DrainParked, Abandon, Dead, Gone, Parked, duck, machine,
       Stranded, Settled, monitors, table, device
  <1>10. ASSUME BringUp PROVE Watchful'
    BY <1>10, <1>0, <1>b DEF BringUp, duck, machine, monitors, table, Stranded, Settled,
       device
  <1>11. ASSUME DropStale PROVE Watchful'
    BY <1>11, <1>t DEF DropStale, Serving, Task, TaskOps, Quietly
  <1>12. ASSUME StartDuck PROVE Watchful'
    BY <1>12, <1>t DEF StartDuck, Serving, Task, TaskOps, Quietly
  <1>13. ASSUME StartDeviceDuck PROVE Watchful'
    BY <1>13, <1>t DEF StartDeviceDuck, Serving, Task, TaskOps, Quietly
  <1>14. ASSUME SkipRequalify PROVE Watchful'
    BY <1>14, <1>t DEF SkipRequalify, Serving, Task, TaskOps, Quietly
  <1>15. ASSUME CapRequalify PROVE Watchful'
    BY <1>15, <1>t DEF CapRequalify, Serving, Task, TaskOps, Quietly
  <1>16. ASSUME StartRequalify PROVE Watchful'
    BY <1>16, <1>t DEF StartRequalify, Serving, Task, TaskOps, Quietly
  <1>17. ASSUME GiveUp PROVE Watchful'
    BY <1>17, <1>t DEF GiveUp, Serving, Task, TaskOps, Quietly
  <1>18. ASSUME NEW s \in Sessions, DuckNext(s) PROVE Watchful'
    BY <1>18, <1>j DEF DuckNext, DuckedAll, Idle, duck
  <1>19. ASSUME Departs PROVE Watchful'
    BY <1>19, <1>j DEF Departs, Idle, duck
  <1>20. ASSUME DepartureFails PROVE Watchful'
    BY <1>20, <1>j DEF DepartureFails, Idle, duck
  <1>21. ASSUME Unmap PROVE Watchful'
    BY <1>21, <1>j DEF Unmap, Idle, duck
  <1>22. ASSUME Park PROVE Watchful'
    BY <1>22, <1>j DEF Park, Idle, duck
  <1>23. ASSUME DuckNone PROVE Watchful'
    BY <1>23, <1>j DEF DuckNone, DuckedAll, Idle, duck
  <1>24. ASSUME DuckGivesUp PROVE Watchful'
    BY <1>24, <1>j DEF DuckGivesUp, DuckedAll, Idle, duck
  <1>25. ASSUME DuckWaits PROVE Watchful'
    BY <1>25, <1>j DEF DuckWaits, DuckedAll, Idle, duck
  <1>26. ASSUME DropReplug PROVE Watchful'
    BY <1>26, <1>t DEF DropReplug, Serving, Task, TaskOps, Quietly
  <1>27. ASSUME StartReplug PROVE Watchful'
    BY <1>27, <1>t DEF StartReplug, Serving, Task, TaskOps, Quietly, TakeParked, duck
  <1>28. ASSUME RequalifyReplugs PROVE Watchful'
    BY <1>28, <1>j DEF RequalifyReplugs, DuckedAll, TakeParked, Idle, duck
  <1>29. ASSUME NEW s \in Sessions, Arrive(s) PROVE Watchful'
    BY <1>29, <1>j DEF Arrive, Idle, duck
  <1>30. ASSUME Replugged PROVE Watchful'
    BY <1>30, <1>j DEF Replugged, Idle, duck
  <1>31. ASSUME ServePlug PROVE Watchful'
    BY <1>31, <1>0, <1>b DEF ServePlug, Done, Serving, Stop, Task, device, machine,
       table, Stranded, Settled, monitors, duck
  <1>32. ASSUME ServeUnplug PROVE Watchful'
    BY <1>32, <1>0, <1>b DEF ServeUnplug, Dead, Done, Gone, Stop, Task, device, duck,
       machine, table, Stranded, Settled, monitors
  <1>33. ASSUME AdapterReady PROVE Watchful'
    BY <1>33, <1>0, <1>b DEF AdapterReady, Done, Stale, Task, duck, machine, monitors,
       table, Stranded, Settled, device
  <1>34. ASSUME NEW p \in DOMAIN pollers, DisplayPollerEnds(p) PROVE Watchful'
    BY <1>34, <1>p DEF DisplayPollerEnds, Kind
  <1>35. ASSUME NEW p \in DOMAIN pollers, DisplayRecovered(p) PROVE Watchful'
    BY <1>35, <1>p DEF DisplayRecovered, Kind
  <1>36. ASSUME NEW p \in DOMAIN pollers, DisplayDeadline(p) PROVE Watchful'
    BY <1>36, <1>p DEF DisplayDeadline, Kind
  <1>37. ASSUME NEW p \in DOMAIN pollers, DevicePollerEnds(p) PROVE Watchful'
    BY <1>37, <1>p DEF DevicePollerEnds, Kind
  <1>38. ASSUME NEW p \in DOMAIN pollers, AllSettled(p) PROVE Watchful'
    BY <1>38, <1>p DEF AllSettled, Kind
  <1>39. ASSUME NEW p \in DOMAIN pollers, GoodExit(p) PROVE Watchful'
    <2>1. /\ ~ latch' /\ rechecked' = pollers[p].covers
          /\ pollers' = [pollers EXCEPT ![p].at = "recheck"]
      BY <1>39 DEF GoodExit, Release
    <2>2. pollers'[p].at = "recheck" /\ pollers'[p].covers = pollers[p].covers /\ p \in DOMAIN pollers'
      BY <1>0, <2>1 DEF PollerType
    <2> QED
      BY <2>1, <2>2 DEF Watchful, Rechecking
  <1>40. ASSUME NEW p \in DOMAIN pollers, Recheck(p) PROVE Watchful'
    <2>1. pollers[p].at = "recheck" /\ pollers' = RemoveAt(pollers, p) /\ UNCHANGED <<where, frame, ring>>
      BY <1>40 DEF Recheck, Ends, monitors
    <2>2. CASE Failed(p) = {}
      <3>1. UNCHANGED <<latch, rechecked>>
        BY <1>40, <2>2 DEF Recheck
      <3>2. ASSUME NEW s \in rechecked, ~ latch, Stranded(s)' PROVE Rechecking(s)'
        <4>1. Stranded(s) /\ ring[s] = "REBUILDING"
          BY <2>1, <3>2 DEF Stranded, Settled
        <4>2. PICK q \in DOMAIN pollers : pollers[q].at = "recheck" /\ s \in pollers[q].covers
          BY <3>2, <4>1 DEF Watchful, Rechecking
        <4>3. q # p
          BY <2>2, <4>1, <4>2 DEF Failed, Settled
        <4>4. \E i \in DOMAIN RemoveAt(pollers, p) : RemoveAt(pollers, p)[i] = pollers[q]
          <5>1. \A j \in DOMAIN pollers \ {p} :
                  LET i == IF j < p THEN j ELSE j - 1
                  IN  i \in DOMAIN RemoveAt(pollers, p) /\ RemoveAt(pollers, p)[i] = pollers[j]
            BY <1>0, Removed
          <5> QED
            BY <4>3, <5>1
        <4> QED
          BY <2>1, <4>2, <4>4 DEF Rechecking
      <3> QED
        BY <3>1, <3>2 DEF Watchful
    <2>3. CASE Failed(p) # {}
      <3>1. PICK s \in Failed(p) : QueueDuck(s)
        BY <1>40, <2>3 DEF Recheck
      <3>2. s \in Sessions
        BY <1>0, <3>1 DEF Failed, PollerType
      <3> QED
        BY <1>h, <3>1, <3>2 DEF QueueDuck
    <2> QED
      BY <2>2, <2>3
  <1>41. ASSUME NEW p \in DOMAIN pollers, Requalify(p) PROVE Watchful'
    BY <1>41, <1>p DEF Requalify, Kind
  <1>42. ASSUME NEW p \in DOMAIN pollers, Deadline(p) PROVE Watchful'
    BY <1>42, <1>p DEF Deadline, Kind
  <1>43. ASSUME NEW s \in Sessions, DeviceCreated(s) PROVE Watchful'
    BY <1>43, <1>0, <1>b DEF DeviceCreated, device, duck, machine, table, Stranded,
       Settled, monitors
  <1>44. ASSUME NEW s \in Sessions, DeviceCreateFails(s) PROVE Watchful'
    BY <1>44, <1>0, <1>b DEF DeviceCreateFails, device, duck, machine, table, Stranded,
       Settled, monitors
  <1>45. ASSUME NEW s \in Sessions, FirstFrame(s) PROVE Watchful'
    BY <1>45, <1>0, <1>b DEF FirstFrame, device, duck, machine, table, Stranded,
       Settled, monitors
  <1>46. ASSUME NEW s \in Sessions, SwapchainLost(s) PROVE Watchful'
    BY <1>46, <1>0, <1>b DEF SwapchainLost, device, duck, machine, table, Stranded,
       Settled, monitors
  <1>47. ASSUME NEW s \in Sessions, Arm(s) PROVE Watchful'
    BY <1>47, <1>h DEF Arm, QueueDuck
  <1>48. ASSUME NEW p \in DOMAIN pollers, ProbeAnswers(p) PROVE Watchful'
    BY <1>48, <1>p DEF ProbeAnswers, Kind
  <1>49. ASSUME UNCHANGED vars PROVE Watchful'
    BY <1>49, <1>0, <1>b DEF vars, machine, monitors, table, duck, device, Stranded,
       Settled
  <1> QED
    <2>m. CASE Machine
      BY <1>1, <1>2, <1>3, <1>4, <1>5, <1>6, <1>7, <2>m DEF Machine
    <2>f. CASE FinalExit
      BY <1>8, <1>9, <1>10, <2>f DEF FinalExit
    <2>e. CASE EffectsWorker
      BY <1>11, <1>12, <1>13, <1>14, <1>15, <1>16, <1>17, <1>18, <1>19, <1>20, <1>21,
        <1>22, <1>23, <1>24, <1>25, <1>26, <1>27, <1>28, <1>29, <1>30, <1>31, <1>32,
        <1>33, <2>e DEF EffectsWorker
    <2>p. CASE PollerStep
      BY <1>34, <1>35, <1>36, <1>37, <1>38, <1>39, <1>40, <1>41, <1>42, <2>p DEF
        PollerStep
    <2>w. CASE \E s \in Sessions : FrameWorker(s) \/ Arm(s)
      BY <1>43, <1>44, <1>45, <1>46, <1>47, <2>w DEF FrameWorker
    <2>a. CASE \E p \in DOMAIN pollers : ProbeAnswers(p)
      BY <1>48, <2>a
    <2> QED
      BY <1>49, <2>m, <2>f, <2>e, <2>p, <2>w, <2>a DEF Next

LEMMA WatchfulInit == Init => Watchful
  BY DEF Init, Watchful

(* When a duck has ended by the good exit, the latch is free and nobody is *)
(* polling, no monitor it covered has lost its worker behind a ring that   *)
(* is REBUILDING: the order "release the latch, then read the mirrors      *)
(* again" of device_duck_poller leaves nobody out.                         *)
THEOREM GoodExitWatches == Spec => []GoodExitStrandsNone
  <1>1. Init => TypeOK /\ Owned /\ Watchful
    BY TypingInit, OwnedInit, WatchfulInit
  <1>2. TypeOK /\ Owned /\ Watchful /\ [Next]_vars => (TypeOK /\ Owned /\ Watchful)'
    BY TypingStep, OwnedStep, WatchfulStep
  <1>3. TypeOK /\ Owned /\ Watchful => GoodExitStrandsNone
    BY DEF Watchful, Rechecking, GoodExitStrandsNone
  <1> QED
    BY <1>1, <1>2, <1>3, PTL DEF Spec

-----------------------------------------------------------------------------
(* In device mode a duck is scoped to an adapter that was reset.           *)

WasReset(s) == resets[luid[s]] > 0

(* A worker with its device removed, or with none to be had, renders on an *)
(* adapter that was reset ...                                              *)
MachineEarned ==
  /\ \A l \in Luids : gpu[l] = "gone" => resets[l] > 0
  /\ \A s \in Sessions : frame[s] \in {"removed", "arming"} => WasReset(s)

(* ... and so does every monitor that the duck it armed is about: in the   *)
(* queue, watched by a poller, or chosen by the effects worker.            *)
EarnedTask(t) ==
  t.op # "duck" /\ (t.op \in TaskOps => \A s \in t.sessions : WasReset(s))
TasksEarned == \A i \in DOMAIN queue : EarnedTask(queue[i])
PollersEarned == \A p \in DOMAIN pollers : \A s \in pollers[p].covers : WasReset(s)
JobEarned ==
  job # Idle =>
    /\ job.op # "duck"
    /\ job.at # "arrive" => \A s \in job.todo : WasReset(s)
    /\ job.at \in {"depart", "remove", "park"} => job.cur \in Sessions /\ WasReset(job.cur)
DuckEarned == mode = "device" => TasksEarned /\ PollersEarned /\ JobEarned

LEMMA ResetsStay ==
  ASSUME TypeOK, [Next]_vars
  PROVE  mode' = mode /\ luid' = luid /\ \A s \in Sessions : WasReset(s) => WasReset(s)'
  <1> DEFINE Stay ==
        /\ mode' = mode /\ luid' = luid
        /\ \A t \in Sessions : WasReset(t) => WasReset(t)'
  <1>0. luid \in [Sessions -> Luids] /\ resets \in [Luids -> Nat]
    BY DEF TypeOK, MachineTypes
  <1>a. ASSUME UNCHANGED machine
        PROVE  Stay
    BY <1>a DEF machine, WasReset
  <1>1. ASSUME NEW l \in Luids, GpuResets(l) PROVE Stay
    BY <1>0, <1>1 DEF GpuResets, WasReset
  <1>2. ASSUME NEW l \in Luids, GpuAnswers(l) PROVE Stay
    BY <1>0, <1>2 DEF GpuAnswers, WasReset
  <1>3. ASSUME NEW s \in Sessions, Assign(s) PROVE Stay
    BY <1>3, <1>a DEF Assign
  <1>4. ASSUME NEW s \in Sessions, Unassign(s) PROVE Stay
    BY <1>4, <1>a DEF Unassign
  <1>5. ASSUME NEW s \in Sessions, NEW op \in {"plug", "unplug"}, Request(s, op) PROVE Stay
    BY <1>5, <1>a DEF Request
  <1>6. ASSUME TimePasses PROVE Stay
    BY <1>6, <1>a DEF TimePasses
  <1>7. ASSUME ClearAdapter PROVE Stay
    BY <1>7, <1>a DEF ClearAdapter
  <1>8. ASSUME DrainMonitors PROVE Stay
    BY <1>8, <1>a DEF DrainMonitors
  <1>9. ASSUME DrainParked PROVE Stay
    BY <1>9, <1>a DEF DrainParked
  <1>10. ASSUME BringUp PROVE Stay
    BY <1>10, <1>a DEF BringUp
  <1>11. ASSUME DropStale PROVE Stay
    BY <1>11, <1>a DEF DropStale, Quietly
  <1>12. ASSUME StartDuck PROVE Stay
    BY <1>12, <1>a DEF StartDuck
  <1>13. ASSUME StartDeviceDuck PROVE Stay
    BY <1>13, <1>a DEF StartDeviceDuck
  <1>14. ASSUME SkipRequalify PROVE Stay
    BY <1>14, <1>a DEF SkipRequalify, Quietly
  <1>15. ASSUME CapRequalify PROVE Stay
    BY <1>15, <1>a DEF CapRequalify, Quietly
  <1>16. ASSUME StartRequalify PROVE Stay
    BY <1>16, <1>a DEF StartRequalify
  <1>17. ASSUME GiveUp PROVE Stay
    BY <1>17, <1>a DEF GiveUp
  <1>18. ASSUME NEW s \in Sessions, DuckNext(s) PROVE Stay
    BY <1>18, <1>a DEF DuckNext
  <1>19. ASSUME Departs PROVE Stay
    BY <1>19, <1>a DEF Departs
  <1>20. ASSUME DepartureFails PROVE Stay
    BY <1>20, <1>a DEF DepartureFails
  <1>21. ASSUME Unmap PROVE Stay
    BY <1>21, <1>a DEF Unmap
  <1>22. ASSUME Park PROVE Stay
    BY <1>22, <1>a DEF Park
  <1>23. ASSUME DuckNone PROVE Stay
    BY <1>23, <1>a DEF DuckNone
  <1>24. ASSUME DuckGivesUp PROVE Stay
    BY <1>24, <1>a DEF DuckGivesUp
  <1>25. ASSUME DuckWaits PROVE Stay
    BY <1>25, <1>a DEF DuckWaits
  <1>26. ASSUME DropReplug PROVE Stay
    BY <1>26, <1>a DEF DropReplug
  <1>27. ASSUME StartReplug PROVE Stay
    BY <1>27, <1>a DEF StartReplug, TakeParked
  <1>28. ASSUME RequalifyReplugs PROVE Stay
    BY <1>28, <1>a DEF RequalifyReplugs, TakeParked
  <1>29. ASSUME NEW s \in Sessions, Arrive(s) PROVE Stay
    BY <1>29, <1>a DEF Arrive
  <1>30. ASSUME Replugged PROVE Stay
    BY <1>30, <1>a DEF Replugged
  <1>31. ASSUME ServePlug PROVE Stay
    BY <1>31, <1>a DEF ServePlug
  <1>32. ASSUME ServeUnplug PROVE Stay
    BY <1>32, <1>a DEF ServeUnplug
  <1>33. ASSUME AdapterReady PROVE Stay
    BY <1>33, <1>a DEF AdapterReady
  <1>34. ASSUME NEW p \in DOMAIN pollers, DisplayPollerEnds(p) PROVE Stay
    BY <1>34, <1>a DEF DisplayPollerEnds
  <1>35. ASSUME NEW p \in DOMAIN pollers, DisplayRecovered(p) PROVE Stay
    BY <1>35, <1>a DEF DisplayRecovered
  <1>36. ASSUME NEW p \in DOMAIN pollers, DisplayDeadline(p) PROVE Stay
    BY <1>36, <1>a DEF DisplayDeadline
  <1>37. ASSUME NEW p \in DOMAIN pollers, DevicePollerEnds(p) PROVE Stay
    BY <1>37, <1>a DEF DevicePollerEnds
  <1>38. ASSUME NEW p \in DOMAIN pollers, AllSettled(p) PROVE Stay
    BY <1>38, <1>a DEF AllSettled
  <1>39. ASSUME NEW p \in DOMAIN pollers, GoodExit(p) PROVE Stay
    BY <1>39, <1>a DEF GoodExit
  <1>40. ASSUME NEW p \in DOMAIN pollers, Recheck(p) PROVE Stay
    BY <1>40, <1>a DEF Recheck
  <1>41. ASSUME NEW p \in DOMAIN pollers, Requalify(p) PROVE Stay
    BY <1>41, <1>a DEF Requalify
  <1>42. ASSUME NEW p \in DOMAIN pollers, Deadline(p) PROVE Stay
    BY <1>42, <1>a DEF Deadline
  <1>43. ASSUME NEW s \in Sessions, DeviceCreated(s) PROVE Stay
    BY <1>43, <1>a DEF DeviceCreated
  <1>44. ASSUME NEW s \in Sessions, DeviceCreateFails(s) PROVE Stay
    BY <1>44, <1>a DEF DeviceCreateFails
  <1>45. ASSUME NEW s \in Sessions, FirstFrame(s) PROVE Stay
    BY <1>45, <1>a DEF FirstFrame
  <1>46. ASSUME NEW s \in Sessions, SwapchainLost(s) PROVE Stay
    BY <1>46, <1>a DEF SwapchainLost
  <1>47. ASSUME NEW s \in Sessions, Arm(s) PROVE Stay
    BY <1>47, <1>a DEF Arm
  <1>48. ASSUME NEW p \in DOMAIN pollers, ProbeAnswers(p) PROVE Stay
    BY <1>48, <1>a DEF ProbeAnswers
  <1>49. ASSUME UNCHANGED vars PROVE Stay
    BY <1>49, <1>a DEF vars
  <1> QED
    <2>m. CASE Machine
      BY <1>1, <1>2, <1>3, <1>4, <1>5, <1>6, <1>7, <2>m DEF Machine
    <2>f. CASE FinalExit
      BY <1>8, <1>9, <1>10, <2>f DEF FinalExit
    <2>e. CASE EffectsWorker
      BY <1>11, <1>12, <1>13, <1>14, <1>15, <1>16, <1>17, <1>18, <1>19, <1>20, <1>21,
        <1>22, <1>23, <1>24, <1>25, <1>26, <1>27, <1>28, <1>29, <1>30, <1>31, <1>32,
        <1>33, <2>e DEF EffectsWorker
    <2>p. CASE PollerStep
      BY <1>34, <1>35, <1>36, <1>37, <1>38, <1>39, <1>40, <1>41, <1>42, <2>p DEF
        PollerStep
    <2>w. CASE \E s \in Sessions : FrameWorker(s) \/ Arm(s)
      BY <1>43, <1>44, <1>45, <1>46, <1>47, <2>w DEF FrameWorker
    <2>a. CASE \E p \in DOMAIN pollers : ProbeAnswers(p)
      BY <1>48, <2>a
    <2> QED
      BY <1>49, <2>m, <2>f, <2>e, <2>p, <2>w, <2>a DEF Next

LEMMA MachineEarnedStep == TypeOK /\ MachineEarned /\ [Next]_vars => MachineEarned'
  <1> SUFFICES ASSUME TypeOK, MachineEarned, [Next]_vars PROVE MachineEarned'
    OBVIOUS
  <1>0. /\ luid \in [Sessions -> Luids] /\ resets \in [Luids -> Nat] /\ gpu \in [Luids -> {"ok", "gone"}]
        /\ frame \in [Sessions -> {"none", "creating", "running", "removed", "arming", "lost"}]
        /\ job \in JobType \cup {Idle}
    BY DEF TypeOK, MachineTypes, MonitorTypes, WorkerTypes
  (* No worker comes to the removed or the arming state.                    *)
  <1>a. ASSUME UNCHANGED machine,
               \A s \in Sessions : frame'[s] \in {"removed", "arming"} => frame[s] \in {"removed", "arming"}
        PROVE MachineEarned'
    BY <1>a DEF MachineEarned, WasReset, machine
  <1>f. ASSUME UNCHANGED <<machine, frame>> PROVE MachineEarned'
    BY <1>a, <1>f
  <1>1. ASSUME NEW l \in Luids, GpuResets(l) PROVE MachineEarned'
    BY <1>0, <1>1 DEF GpuResets, MachineEarned, WasReset
  <1>2. ASSUME NEW l \in Luids, GpuAnswers(l) PROVE MachineEarned'
    BY <1>0, <1>2 DEF GpuAnswers, MachineEarned, WasReset, monitors
  <1>3. ASSUME NEW s \in Sessions, Assign(s) PROVE MachineEarned'
    BY <1>0, <1>3, <1>a DEF Assign
  <1>4. ASSUME NEW s \in Sessions, Unassign(s) PROVE MachineEarned'
    BY <1>0, <1>4, <1>a DEF Unassign
  <1>5. ASSUME NEW s \in Sessions, NEW op \in {"plug", "unplug"}, Request(s, op) PROVE MachineEarned'
    BY <1>5, <1>f DEF Request, monitors
  <1>6. ASSUME TimePasses PROVE MachineEarned'
    BY <1>6, <1>f DEF TimePasses, monitors
  <1>7. ASSUME ClearAdapter PROVE MachineEarned'
    BY <1>7, <1>f DEF ClearAdapter, monitors
  <1>8. ASSUME DrainMonitors PROVE MachineEarned'
    BY <1>0, <1>8, <1>a DEF DrainMonitors, Stop
  <1>9. ASSUME DrainParked PROVE MachineEarned'
    BY <1>9, <1>f DEF DrainParked, monitors
  <1>10. ASSUME BringUp PROVE MachineEarned'
    BY <1>10, <1>f DEF BringUp, monitors
  <1>11. ASSUME DropStale PROVE MachineEarned'
    BY <1>11, <1>f DEF DropStale, monitors, Quietly
  <1>12. ASSUME StartDuck PROVE MachineEarned'
    BY <1>12, <1>f DEF StartDuck, monitors
  <1>13. ASSUME StartDeviceDuck PROVE MachineEarned'
    BY <1>13, <1>f DEF StartDeviceDuck, monitors
  <1>14. ASSUME SkipRequalify PROVE MachineEarned'
    BY <1>14, <1>f DEF SkipRequalify, monitors, Quietly
  <1>15. ASSUME CapRequalify PROVE MachineEarned'
    BY <1>15, <1>f DEF CapRequalify, monitors, Quietly
  <1>16. ASSUME StartRequalify PROVE MachineEarned'
    BY <1>16, <1>f DEF StartRequalify, monitors
  <1>17. ASSUME GiveUp PROVE MachineEarned'
    BY <1>17, <1>f DEF GiveUp, monitors
  <1>18. ASSUME NEW s \in Sessions, DuckNext(s) PROVE MachineEarned'
    BY <1>18, <1>f DEF DuckNext, monitors
  <1>19. ASSUME Departs PROVE MachineEarned'
    BY <1>0, <1>19, <1>a DEF Departs, Stop
  <1>20. ASSUME DepartureFails PROVE MachineEarned'
    BY <1>20, <1>f DEF DepartureFails, monitors
  <1>21. ASSUME Unmap PROVE MachineEarned'
    BY <1>21, <1>f DEF Unmap, monitors
  <1>22. ASSUME Park PROVE MachineEarned'
    BY <1>22, <1>f DEF Park, monitors
  <1>23. ASSUME DuckNone PROVE MachineEarned'
    BY <1>23, <1>f DEF DuckNone, monitors
  <1>24. ASSUME DuckGivesUp PROVE MachineEarned'
    BY <1>24, <1>f DEF DuckGivesUp, monitors
  <1>25. ASSUME DuckWaits PROVE MachineEarned'
    BY <1>25, <1>f DEF DuckWaits, monitors
  <1>26. ASSUME DropReplug PROVE MachineEarned'
    BY <1>26, <1>f DEF DropReplug, monitors
  <1>27. ASSUME StartReplug PROVE MachineEarned'
    BY <1>27, <1>f DEF StartReplug, monitors, TakeParked
  <1>28. ASSUME RequalifyReplugs PROVE MachineEarned'
    BY <1>28, <1>f DEF RequalifyReplugs, monitors, TakeParked
  <1>29. ASSUME NEW s \in Sessions, Arrive(s) PROVE MachineEarned'
    BY <1>29, <1>f DEF Arrive, monitors
  <1>30. ASSUME Replugged PROVE MachineEarned'
    BY <1>30, <1>f DEF Replugged, monitors
  <1>31. ASSUME ServePlug PROVE MachineEarned'
    BY <1>0, <1>31, <1>a DEF ServePlug, Stop
  <1>32. ASSUME ServeUnplug PROVE MachineEarned'
    BY <1>0, <1>32, <1>a DEF ServeUnplug, Stop
  <1>33. ASSUME AdapterReady PROVE MachineEarned'
    BY <1>33, <1>f DEF AdapterReady, monitors
  <1>34. ASSUME NEW p \in DOMAIN pollers, DisplayPollerEnds(p) PROVE MachineEarned'
    BY <1>34, <1>f DEF DisplayPollerEnds, monitors
  <1>35. ASSUME NEW p \in DOMAIN pollers, DisplayRecovered(p) PROVE MachineEarned'
    BY <1>35, <1>f DEF DisplayRecovered, monitors
  <1>36. ASSUME NEW p \in DOMAIN pollers, DisplayDeadline(p) PROVE MachineEarned'
    BY <1>36, <1>f DEF DisplayDeadline, monitors
  <1>37. ASSUME NEW p \in DOMAIN pollers, DevicePollerEnds(p) PROVE MachineEarned'
    BY <1>37, <1>f DEF DevicePollerEnds, monitors
  <1>38. ASSUME NEW p \in DOMAIN pollers, AllSettled(p) PROVE MachineEarned'
    BY <1>38, <1>f DEF AllSettled, monitors
  <1>39. ASSUME NEW p \in DOMAIN pollers, GoodExit(p) PROVE MachineEarned'
    BY <1>39, <1>f DEF GoodExit, monitors
  <1>40. ASSUME NEW p \in DOMAIN pollers, Recheck(p) PROVE MachineEarned'
    BY <1>40, <1>f DEF Recheck, monitors
  <1>41. ASSUME NEW p \in DOMAIN pollers, Requalify(p) PROVE MachineEarned'
    BY <1>41, <1>f DEF Requalify, monitors
  <1>42. ASSUME NEW p \in DOMAIN pollers, Deadline(p) PROVE MachineEarned'
    BY <1>42, <1>f DEF Deadline, monitors
  <1>43. ASSUME NEW s \in Sessions, DeviceCreated(s) PROVE MachineEarned'
    BY <1>0, <1>43, <1>a DEF DeviceCreated
  <1>44. ASSUME NEW s \in Sessions, DeviceCreateFails(s) PROVE MachineEarned'
    BY <1>0, <1>44 DEF DeviceCreateFails, MachineEarned, WasReset, machine
  <1>45. ASSUME NEW s \in Sessions, FirstFrame(s) PROVE MachineEarned'
    BY <1>45, <1>f DEF FirstFrame, monitors
  <1>46. ASSUME NEW s \in Sessions, SwapchainLost(s) PROVE MachineEarned'
    BY <1>0, <1>46 DEF SwapchainLost, MachineEarned, WasReset, machine
  <1>47. ASSUME NEW s \in Sessions, Arm(s) PROVE MachineEarned'
    BY <1>0, <1>47, <1>a DEF Arm
  <1>48. ASSUME NEW p \in DOMAIN pollers, ProbeAnswers(p) PROVE MachineEarned'
    BY <1>48, <1>f DEF ProbeAnswers, monitors
  <1>49. ASSUME UNCHANGED vars PROVE MachineEarned'
    BY <1>49, <1>f DEF vars, monitors
  <1> QED
    <2>m. CASE Machine
      BY <1>1, <1>2, <1>3, <1>4, <1>5, <1>6, <1>7, <2>m DEF Machine
    <2>f. CASE FinalExit
      BY <1>8, <1>9, <1>10, <2>f DEF FinalExit
    <2>e. CASE EffectsWorker
      BY <1>11, <1>12, <1>13, <1>14, <1>15, <1>16, <1>17, <1>18, <1>19, <1>20, <1>21,
        <1>22, <1>23, <1>24, <1>25, <1>26, <1>27, <1>28, <1>29, <1>30, <1>31, <1>32,
        <1>33, <2>e DEF EffectsWorker
    <2>p. CASE PollerStep
      BY <1>34, <1>35, <1>36, <1>37, <1>38, <1>39, <1>40, <1>41, <1>42, <2>p DEF
        PollerStep
    <2>w. CASE \E s \in Sessions : FrameWorker(s) \/ Arm(s)
      BY <1>43, <1>44, <1>45, <1>46, <1>47, <2>w DEF FrameWorker
    <2>a. CASE \E p \in DOMAIN pollers : ProbeAnswers(p)
      BY <1>48, <2>a
    <2> QED
      BY <1>49, <2>m, <2>f, <2>e, <2>p, <2>w, <2>a DEF Next

LEMMA DuckEarnedStep == TypeOK /\ MachineEarned /\ DuckEarned /\ [Next]_vars => DuckEarned'
  <1> SUFFICES ASSUME TypeOK, MachineEarned, DuckEarned, [Next]_vars, mode' = "device"
               PROVE  TasksEarned' /\ PollersEarned' /\ JobEarned'
    BY DEF DuckEarned
  <1> DEFINE Goal == TasksEarned /\ PollersEarned /\ JobEarned
  <1> SUFFICES Goal'
    OBVIOUS
  <1>0. /\ queue \in Seq(TaskType) /\ pollers \in Seq(PollerType) /\ job \in JobType \cup {Idle}
        /\ \A p \in DOMAIN pollers : pollers[p] \in PollerType
        /\ \A i \in DOMAIN queue : queue[i] \in TaskType
        /\ epoch \in 0 .. MaxEpoch /\ luid \in [Sessions -> Luids] /\ mode \in {"device", "display"}
    BY MachineAssumption DEF TypeOK, WorkerTypes, DuckTypes, DeviceTypes, MachineTypes
  <1>r. /\ mode = "device" /\ TasksEarned /\ PollersEarned /\ JobEarned /\ luid' = luid
        /\ \A s \in Sessions : WasReset(s) => WasReset(s)'
    BY ResetsStay DEF DuckEarned
  (* The queue as it was, with one task more, or one less.                  *)
  <1>k. ASSUME queue' = queue PROVE TasksEarned'
    BY <1>0, <1>k, <1>r DEF TasksEarned, EarnedTask, TaskType
  <1>t. ASSUME NEW t \in TaskType, EarnedTask(t), queue' = Append(queue, t) PROVE TasksEarned'
    BY <1>0, <1>r, <1>t, Appended DEF TasksEarned, EarnedTask, TaskType
  <1>u. ASSUME queue # <<>>
        PROVE  EarnedTask(Task) /\ Task \in TaskType /\ (queue' = Tail(queue) => TasksEarned')
    <2>1. EarnedTask(Task) /\ Task \in TaskType
      BY <1>0, <1>r, <1>u, Served DEF Task, TasksEarned
    <2>2. ASSUME queue' = Tail(queue), NEW i \in DOMAIN queue' PROVE EarnedTask(queue[i])'
      <3>1. i + 1 \in DOMAIN queue /\ queue'[i] = queue[i + 1]
        BY <1>0, <1>u, <2>2, Served
      <3> QED
        BY <1>0, <1>r, <3>1 DEF TasksEarned, EarnedTask, TaskType
    <2> QED
      BY <2>1, <2>2 DEF TasksEarned
  (* The pollers likewise.                                                  *)
  <1>m. ASSUME pollers' = pollers PROVE PollersEarned'
    BY <1>0, <1>m, <1>r DEF PollersEarned, PollerType
  <1>p. ASSUME NEW p \in DOMAIN pollers, pollers' = RemoveAt(pollers, p) PROVE PollersEarned'
    <2>1. \A i \in DOMAIN pollers' :
             LET j == IF i < p THEN i ELSE i + 1 IN j \in DOMAIN pollers \ {p} /\ pollers'[i] = pollers[j]
      BY <1>0, <1>p, Removed
    <2> QED
      BY <1>0, <1>r, <2>1 DEF PollersEarned, PollerType
  <1>q. ASSUME NEW p \in DOMAIN pollers, NEW q, pollers' = [pollers EXCEPT ![p] = q],
               q.covers \subseteq pollers[p].covers
        PROVE PollersEarned'
    BY <1>0, <1>q, <1>r DEF PollersEarned, PollerType
  (* What the worker is at.                                                 *)
  <1>j. ASSUME job' = job \/ job' = Idle PROVE JobEarned'
    BY <1>0, <1>j, <1>r DEF JobEarned, JobType, Idle
  <1>a. ASSUME UNCHANGED <<queue, pollers, job>> PROVE Goal'
    BY <1>a, <1>j, <1>k, <1>m
  <1>c. ASSUME queue # <<>>, queue' = Tail(queue), UNCHANGED <<pollers, job>> PROVE Goal'
    BY <1>c, <1>j, <1>m, <1>u
  <1>e. ASSUME UNCHANGED <<queue, pollers>>, job' = Idle PROVE Goal'
    BY <1>e, <1>j, <1>k, <1>m
  <1>s. ASSUME UNCHANGED <<queue, pollers>>, JobEarned' PROVE Goal'
    BY <1>s, <1>k, <1>m
  <1>h. ASSUME NEW s \in Sessions, WasReset(s), QueueDuck(s) PROVE TasksEarned'
    <2>1. EarnedTask(TaskFor(s)) /\ TaskFor(s) \in TaskType
      BY <1>0, <1>h, <1>r DEF TaskFor, EarnedTask, TaskType, TaskOps
    <2> QED
      BY <1>h, <1>k, <1>t, <2>1 DEF QueueDuck
  <1> HIDE DEF Goal
  <1>1. ASSUME NEW l \in Luids, GpuResets(l) PROVE Goal'
    BY <1>1, <1>a DEF GpuResets, duck
  <1>2. ASSUME NEW l \in Luids, GpuAnswers(l) PROVE Goal'
    BY <1>2, <1>a DEF GpuAnswers, duck
  <1>3. ASSUME NEW s \in Sessions, Assign(s) PROVE Goal'
    BY <1>3, <1>a DEF Assign, duck
  <1>4. ASSUME NEW s \in Sessions, Unassign(s) PROVE Goal'
    BY <1>4, <1>a DEF Unassign, duck
  <1>5. ASSUME NEW s \in Sessions, NEW op \in {"plug", "unplug"}, Request(s, op) PROVE Goal'
    <2> DEFINE t == [op |-> op, epoch |-> epoch, sessions |-> {s}]
    <2>1. queue' = Append(queue, t) /\ UNCHANGED <<pollers, job>>
      BY <1>5 DEF Request, duck
    <2>2. t \in TaskType /\ EarnedTask(t)
      BY <1>0, <1>5 DEF TaskType, EarnedTask, TaskOps
    <2> HIDE DEF t
    <2> QED
      BY <1>j, <1>m, <1>t, <2>1, <2>2 DEF Goal
  <1>6. ASSUME TimePasses PROVE Goal'
    BY <1>6, <1>a DEF TimePasses, duck
  <1>7. ASSUME ClearAdapter PROVE Goal'
    BY <1>7, <1>a DEF ClearAdapter, duck
  <1>8. ASSUME DrainMonitors PROVE Goal'
    BY <1>8, <1>a DEF DrainMonitors, duck
  <1>9. ASSUME DrainParked PROVE Goal'
    BY <1>9, <1>a DEF DrainParked, duck
  <1>10. ASSUME BringUp PROVE Goal'
    <2> DEFINE t == [op |-> "ready", epoch |-> epoch, sessions |-> {}]
    <2>1. queue' = Append(queue, t) /\ UNCHANGED <<pollers, job>>
      BY <1>10 DEF BringUp, duck
    <2>2. t \in TaskType /\ EarnedTask(t)
      BY <1>0, <1>10 DEF TaskType, EarnedTask, TaskOps
    <2> HIDE DEF t
    <2> QED
      BY <1>j, <1>m, <1>t, <2>1, <2>2 DEF Goal
  <1>11. ASSUME DropStale PROVE Goal'
    BY <1>11, <1>c DEF DropStale, Serving, Done, Quietly, duck
  <1>12. ASSUME StartDuck PROVE Goal'
    BY <1>12, <1>u DEF StartDuck, Serving, Task, EarnedTask
  <1>13. ASSUME StartDeviceDuck PROVE Goal'
    <2>1. queue # <<>> /\ queue' = Tail(queue) /\ job' = job /\ Task.op = "device duck"
      BY <1>13 DEF StartDeviceDuck, Serving, Task, Done
    <2>2. PICK s \in Task.sessions :
             \/ pollers' = pollers
             \/ pollers' = Append(pollers, Poller("device", epoch, luid[s], SameAdapter(s)))
      BY <1>13 DEF StartDeviceDuck
    <2>3. s \in Sessions /\ WasReset(s)
      BY <1>u, <2>1 DEF EarnedTask, TaskType, TaskOps
    <2> DEFINE q == Poller("device", epoch, luid[s], SameAdapter(s))
    <2>4. q \in PollerType /\ \A t \in q.covers : WasReset(t)'
      BY <1>0, <1>r, <2>3 DEF Poller, PollerType, SameAdapter, WasReset
    <2>5. ASSUME pollers' = Append(pollers, q) PROVE PollersEarned'
      <3> HIDE DEF q
      <3>1. /\ DOMAIN pollers' = DOMAIN pollers \cup {Len(pollers) + 1} /\ pollers'[Len(pollers) + 1] = q
            /\ \A i \in DOMAIN pollers : pollers'[i] = pollers[i]
        BY <1>0, <2>4, <2>5, Appended
      <3> QED
        BY <1>0, <1>r, <2>4, <3>1 DEF PollersEarned, PollerType
    <2> QED
      BY <1>j, <1>m, <1>u, <2>1, <2>2, <2>5 DEF Goal
  <1>14. ASSUME SkipRequalify PROVE Goal'
    BY <1>14, <1>c DEF SkipRequalify, Serving, Done, Quietly, duck
  <1>15. ASSUME CapRequalify PROVE Goal'
    BY <1>15, <1>c DEF CapRequalify, Serving, Done, Quietly, duck
  <1>16. ASSUME StartRequalify PROVE Goal'
    <2>1. queue # <<>> /\ queue' = Tail(queue) /\ pollers' = pollers /\ Task.op = "requalify"
      BY <1>16 DEF StartRequalify, Serving, Task, Done
    <2>2. job' = [at |-> "next", op |-> "requalify", epoch |-> Task.epoch, cur |-> "none",
                  parked |-> FALSE, todo |-> StillLost(Task.sessions)]
      BY <1>16 DEF StartRequalify
    <2>3. \A s \in StillLost(Task.sessions) : WasReset(s)'
      BY <1>r, <1>u, <2>1 DEF EarnedTask, TaskType, TaskOps, StillLost, Unrecovered
    <2>4. JobEarned'
      BY <2>2, <2>3 DEF JobEarned
    <2> QED
      BY <1>m, <1>u, <2>1, <2>4 DEF Goal
  <1>17. ASSUME GiveUp PROVE Goal'
    BY <1>17, <1>c DEF GiveUp, Serving, Done, Quietly, duck
  <1>18. ASSUME NEW s \in Sessions, DuckNext(s) PROVE Goal'
    <2>1. UNCHANGED <<queue, pollers>> /\ job # Idle
      BY <1>18 DEF DuckNext, Idle, duck
    <2>2. JobEarned'
      BY <1>0, <1>18, <1>r, <2>1 DEF DuckNext, JobEarned, JobType
    <2> QED
      BY <1>s, <2>1, <2>2
  <1>19. ASSUME Departs PROVE Goal'
    <2>1. UNCHANGED <<queue, pollers>> /\ job # Idle
      BY <1>19 DEF Departs, Idle, duck
    <2>2. JobEarned'
      BY <1>0, <1>19, <1>r, <2>1 DEF Departs, JobEarned, JobType
    <2> QED
      BY <1>s, <2>1, <2>2
  <1>20. ASSUME DepartureFails PROVE Goal'
    <2>1. UNCHANGED <<queue, pollers>> /\ job # Idle
      BY <1>20 DEF DepartureFails, Idle, duck
    <2>2. JobEarned'
      BY <1>0, <1>20, <1>r, <2>1 DEF DepartureFails, JobEarned, JobType
    <2> QED
      BY <1>s, <2>1, <2>2
  <1>21. ASSUME Unmap PROVE Goal'
    <2>1. UNCHANGED <<queue, pollers>> /\ job # Idle
      BY <1>21 DEF Unmap, Idle, duck
    <2>2. JobEarned'
      BY <1>0, <1>21, <1>r, <2>1 DEF Unmap, JobEarned, JobType
    <2> QED
      BY <1>s, <2>1, <2>2
  <1>22. ASSUME Park PROVE Goal'
    <2>1. UNCHANGED <<queue, pollers>> /\ job # Idle
      BY <1>22 DEF Park, Idle, duck
    <2>2. JobEarned'
      BY <1>0, <1>22, <1>r, <2>1 DEF Park, JobEarned, JobType
    <2> QED
      BY <1>s, <2>1, <2>2
  <1>23. ASSUME DuckNone PROVE Goal'
    BY <1>23, <1>e DEF DuckNone
  <1>24. ASSUME DuckGivesUp PROVE Goal'
    BY <1>24, <1>e DEF DuckGivesUp
  <1>25. ASSUME DuckWaits PROVE Goal'
    BY <1>25, <1>r DEF DuckWaits, DuckedAll, JobEarned, Idle
  <1>26. ASSUME DropReplug PROVE Goal'
    BY <1>26, <1>c DEF DropReplug, Serving, Done, Quietly, duck
  <1>27. ASSUME StartReplug PROVE Goal'
    <2>1. queue # <<>> /\ queue' = Tail(queue) /\ pollers' = pollers
      BY <1>27 DEF StartReplug, Serving, Done, TakeParked, duck
    <2>2. job'.op = "replug" /\ job'.at = "arrive"
      BY <1>27 DEF StartReplug, TakeParked
    <2>3. JobEarned'
      BY <2>2 DEF JobEarned
    <2> QED
      BY <1>m, <1>u, <2>1, <2>3 DEF Goal
  <1>28. ASSUME RequalifyReplugs PROVE Goal'
    <2>1. UNCHANGED <<queue, pollers>> /\ job'.op = "requalify" /\ job'.at = "arrive"
      BY <1>28 DEF RequalifyReplugs, TakeParked, duck
    <2> QED
      BY <1>s, <2>1 DEF JobEarned
  <1>29. ASSUME NEW s \in Sessions, Arrive(s) PROVE Goal'
    <2>1. UNCHANGED <<queue, pollers>> /\ job # Idle
      BY <1>29 DEF Arrive, Idle, duck
    <2>2. JobEarned'
      BY <1>0, <1>29, <1>r, <2>1 DEF Arrive, JobEarned, JobType
    <2> QED
      BY <1>s, <2>1, <2>2
  <1>30. ASSUME Replugged PROVE Goal'
    BY <1>30, <1>e DEF Replugged
  <1>31. ASSUME ServePlug PROVE Goal'
    BY <1>31, <1>c DEF ServePlug, Serving, Done, Quietly, duck
  <1>32. ASSUME ServeUnplug PROVE Goal'
    BY <1>32, <1>c DEF ServeUnplug, Serving, Done, Quietly, duck
  <1>33. ASSUME AdapterReady PROVE Goal'
    BY <1>33, <1>c DEF AdapterReady, Serving, Done, Quietly, duck
  <1>34. ASSUME NEW p \in DOMAIN pollers, DisplayPollerEnds(p) PROVE Goal'
    BY <1>34, <1>j, <1>k, <1>p DEF DisplayPollerEnds, Ends, Goal
  <1>35. ASSUME NEW p \in DOMAIN pollers, DisplayRecovered(p) PROVE Goal'
    <2> DEFINE t == [op |-> "replug", epoch |-> pollers[p].epoch, sessions |-> {}]
    <2>1. queue' = Append(queue, t) /\ pollers' = RemoveAt(pollers, p) /\ job' = job
      BY <1>35 DEF DisplayRecovered, Ends, ToWorker
    <2>2. t \in TaskType /\ EarnedTask(t)
      BY <1>0, <1>r DEF TaskType, EarnedTask, TaskOps, PollerType, PollersEarned, Unrecovered
    <2> HIDE DEF t
    <2> QED
      BY <1>j, <1>p, <1>t, <2>1, <2>2 DEF Goal
  <1>36. ASSUME NEW p \in DOMAIN pollers, DisplayDeadline(p) PROVE Goal'
    BY <1>36, <1>j, <1>k, <1>p DEF DisplayDeadline, Ends, Goal
  <1>37. ASSUME NEW p \in DOMAIN pollers, DevicePollerEnds(p) PROVE Goal'
    BY <1>37, <1>j, <1>k, <1>p DEF DevicePollerEnds, Ends, Goal
  <1>38. ASSUME NEW p \in DOMAIN pollers, AllSettled(p) PROVE Goal'
    <2> DEFINE q == [pollers[p] EXCEPT !.at = "release", !.covers = Watched(p)]
    <2>1. pollers' = [pollers EXCEPT ![p] = q] /\ UNCHANGED <<queue, job>>
      BY <1>38 DEF AllSettled
    <2>2. q.covers \subseteq pollers[p].covers
      BY <1>0 DEF PollerType, Watched
    <2> HIDE DEF q
    <2> QED
      BY <1>j, <1>k, <1>q, <2>1, <2>2 DEF Goal
  <1>39. ASSUME NEW p \in DOMAIN pollers, GoodExit(p) PROVE Goal'
    <2> DEFINE q == [pollers[p] EXCEPT !.at = "recheck"]
    <2>1. pollers' = [pollers EXCEPT ![p] = q] /\ UNCHANGED <<queue, job>>
      BY <1>39 DEF GoodExit
    <2>2. q.covers \subseteq pollers[p].covers
      BY <1>0 DEF PollerType, Watched
    <2> HIDE DEF q
    <2> QED
      BY <1>j, <1>k, <1>q, <2>1, <2>2 DEF Goal
  <1>40. ASSUME NEW p \in DOMAIN pollers, Recheck(p) PROVE Goal'
    <2>1. pollers' = RemoveAt(pollers, p) /\ job' = job
      BY <1>40 DEF Recheck, Ends
    <2>2. queue' = queue \/ \E s \in Failed(p) : QueueDuck(s)
      BY <1>40 DEF Recheck
    <2>3. \A s \in Failed(p) : s \in Sessions /\ WasReset(s)
      BY <1>0, <1>r DEF Failed, PollersEarned, PollerType
    <2> QED
      BY <1>h, <1>j, <1>k, <1>p, <2>1, <2>2, <2>3 DEF Goal
  <1>41. ASSUME NEW p \in DOMAIN pollers, Requalify(p) PROVE Goal'
    <2> DEFINE t == [op |-> "requalify", epoch |-> pollers[p].epoch, sessions |-> Unrecovered(pollers[p].covers)]
    <2>1. queue' = Append(queue, t) /\ pollers' = RemoveAt(pollers, p) /\ job' = job
      BY <1>41 DEF Requalify, Ends, ToWorker
    <2>2. t \in TaskType /\ EarnedTask(t)
      BY <1>0, <1>r DEF TaskType, EarnedTask, TaskOps, PollerType, PollersEarned, Unrecovered
    <2> HIDE DEF t
    <2> QED
      BY <1>j, <1>p, <1>t, <2>1, <2>2 DEF Goal
  <1>42. ASSUME NEW p \in DOMAIN pollers, Deadline(p) PROVE Goal'
    <2> DEFINE t == [op |-> "deadline", epoch |-> pollers[p].epoch, sessions |-> Unrecovered(pollers[p].covers)]
    <2>1. queue' = Append(queue, t) /\ pollers' = RemoveAt(pollers, p) /\ job' = job
      BY <1>42 DEF Deadline, Ends, ToWorker
    <2>2. t \in TaskType /\ EarnedTask(t)
      BY <1>0, <1>r DEF TaskType, EarnedTask, TaskOps, PollerType, PollersEarned, Unrecovered
    <2> HIDE DEF t
    <2> QED
      BY <1>j, <1>p, <1>t, <2>1, <2>2 DEF Goal
  <1>43. ASSUME NEW s \in Sessions, DeviceCreated(s) PROVE Goal'
    BY <1>43, <1>a DEF DeviceCreated, duck
  <1>44. ASSUME NEW s \in Sessions, DeviceCreateFails(s) PROVE Goal'
    BY <1>44, <1>a DEF DeviceCreateFails, duck
  <1>45. ASSUME NEW s \in Sessions, FirstFrame(s) PROVE Goal'
    BY <1>45, <1>a DEF FirstFrame, duck
  <1>46. ASSUME NEW s \in Sessions, SwapchainLost(s) PROVE Goal'
    BY <1>46, <1>a DEF SwapchainLost, duck
  <1>47. ASSUME NEW s \in Sessions, Arm(s) PROVE Goal'
    <2>1. QueueDuck(s) /\ UNCHANGED <<pollers, job>> /\ WasReset(s)
      BY <1>47 DEF Arm, MachineEarned
    <2> QED
      BY <1>h, <1>j, <1>m, <2>1 DEF Goal
  <1>48. ASSUME NEW p \in DOMAIN pollers, ProbeAnswers(p) PROVE Goal'
    <2> DEFINE q == [pollers[p] EXCEPT !.seen = TRUE]
    <2>1. pollers' = [pollers EXCEPT ![p] = q] /\ UNCHANGED <<queue, job>>
      BY <1>48 DEF ProbeAnswers
    <2>2. q.covers \subseteq pollers[p].covers
      BY <1>0 DEF PollerType, Watched
    <2> HIDE DEF q
    <2> QED
      BY <1>j, <1>k, <1>q, <2>1, <2>2 DEF Goal
  <1>49. ASSUME UNCHANGED vars PROVE Goal'
    BY <1>49, <1>a DEF vars, duck
  <1> QED
    <2>m. CASE Machine
      BY <1>1, <1>2, <1>3, <1>4, <1>5, <1>6, <1>7, <2>m DEF Machine
    <2>f. CASE FinalExit
      BY <1>8, <1>9, <1>10, <2>f DEF FinalExit
    <2>e. CASE EffectsWorker
      BY <1>11, <1>12, <1>13, <1>14, <1>15, <1>16, <1>17, <1>18, <1>19, <1>20, <1>21,
        <1>22, <1>23, <1>24, <1>25, <1>26, <1>27, <1>28, <1>29, <1>30, <1>31, <1>32,
        <1>33, <2>e DEF EffectsWorker
    <2>p. CASE PollerStep
      BY <1>34, <1>35, <1>36, <1>37, <1>38, <1>39, <1>40, <1>41, <1>42, <2>p DEF
        PollerStep
    <2>w. CASE \E s \in Sessions : FrameWorker(s) \/ Arm(s)
      BY <1>43, <1>44, <1>45, <1>46, <1>47, <2>w DEF FrameWorker
    <2>a. CASE \E p \in DOMAIN pollers : ProbeAnswers(p)
      BY <1>48, <2>a
    <2> QED
      BY <1>49, <2>m, <2>f, <2>e, <2>p, <2>w, <2>a DEF Next

LEMMA EarnedInit == Init => MachineEarned /\ DuckEarned
  BY DEF Init, MachineEarned, DuckEarned, TasksEarned, PollersEarned, JobEarned

(* Only Unmap takes a monitor from the map to be parked.                   *)
LEMMA DepartedWasChosen ==
  ASSUME TypeOK, [Next]_vars, NEW s \in Sessions, DepartedByDuck(s)
  PROVE  job.at = "remove" /\ job.cur = s
  <1>0. where \in [Sessions -> {"none", "map", "hand", "parked"}]
    BY DEF TypeOK, MonitorTypes
  <1>a. ASSUME where'[s] = where[s] PROVE FALSE
    BY <1>a DEF DepartedByDuck
  <1>b. ASSUME where'[s] # "hand" PROVE FALSE
    BY <1>b DEF DepartedByDuck
  <1>d. where[s] = "map"
    BY DEF DepartedByDuck
  <1>1. ASSUME NEW l \in Luids, GpuResets(l) PROVE job.at = "remove" /\ job.cur = s
    BY <1>a, <1>1 DEF GpuResets, monitors, Quietly
  <1>2. ASSUME NEW l \in Luids, GpuAnswers(l) PROVE job.at = "remove" /\ job.cur = s
    BY <1>a, <1>2 DEF GpuAnswers, monitors, Quietly
  <1>3. ASSUME NEW m \in Sessions, Assign(m) PROVE job.at = "remove" /\ job.cur = s
    BY <1>a, <1>3 DEF Assign, monitors, Quietly
  <1>4. ASSUME NEW m \in Sessions, Unassign(m) PROVE job.at = "remove" /\ job.cur = s
    BY <1>a, <1>4 DEF Unassign, monitors, Quietly
  <1>5. ASSUME NEW m \in Sessions, NEW op \in {"plug", "unplug"}, Request(m, op) PROVE job.at = "remove" /\ job.cur = s
    BY <1>a, <1>5 DEF Request, monitors, Quietly
  <1>6. ASSUME TimePasses PROVE job.at = "remove" /\ job.cur = s
    BY <1>a, <1>6 DEF TimePasses, monitors, Quietly
  <1>7. ASSUME ClearAdapter PROVE job.at = "remove" /\ job.cur = s
    BY <1>a, <1>7 DEF ClearAdapter, monitors, Quietly
  <1>8. ASSUME DrainMonitors PROVE job.at = "remove" /\ job.cur = s
    BY <1>0, <1>a, <1>b, <1>d, <1>8 DEF DrainMonitors, Gone
  <1>9. ASSUME DrainParked PROVE job.at = "remove" /\ job.cur = s
    BY <1>0, <1>a, <1>b, <1>d, <1>9 DEF DrainParked, Abandon, Gone, Parked
  <1>10. ASSUME BringUp PROVE job.at = "remove" /\ job.cur = s
    BY <1>a, <1>10 DEF BringUp, monitors, Quietly
  <1>11. ASSUME DropStale PROVE job.at = "remove" /\ job.cur = s
    BY <1>a, <1>11 DEF DropStale, monitors, Quietly
  <1>12. ASSUME StartDuck PROVE job.at = "remove" /\ job.cur = s
    BY <1>a, <1>12 DEF StartDuck, monitors, Quietly
  <1>13. ASSUME StartDeviceDuck PROVE job.at = "remove" /\ job.cur = s
    BY <1>0, <1>a, <1>b, <1>d, <1>13 DEF StartDeviceDuck, Gone, Parked
  <1>14. ASSUME SkipRequalify PROVE job.at = "remove" /\ job.cur = s
    BY <1>a, <1>14 DEF SkipRequalify, monitors, Quietly
  <1>15. ASSUME CapRequalify PROVE job.at = "remove" /\ job.cur = s
    BY <1>a, <1>15 DEF CapRequalify, monitors, Quietly
  <1>16. ASSUME StartRequalify PROVE job.at = "remove" /\ job.cur = s
    BY <1>a, <1>16 DEF StartRequalify, monitors, Quietly
  <1>17. ASSUME GiveUp PROVE job.at = "remove" /\ job.cur = s
    BY <1>0, <1>a, <1>b, <1>d, <1>17 DEF GiveUp, Gone, Parked
  <1>18. ASSUME NEW m \in Sessions, DuckNext(m) PROVE job.at = "remove" /\ job.cur = s
    BY <1>a, <1>18 DEF DuckNext, monitors, Quietly
  <1>19. ASSUME Departs PROVE job.at = "remove" /\ job.cur = s
    BY <1>a, <1>19 DEF Departs, monitors, Quietly
  <1>20. ASSUME DepartureFails PROVE job.at = "remove" /\ job.cur = s
    BY <1>a, <1>20 DEF DepartureFails, monitors, Quietly
  <1>21. ASSUME Unmap PROVE job.at = "remove" /\ job.cur = s
    BY <1>0, <1>a, <1>21 DEF Unmap
  <1>22. ASSUME Park PROVE job.at = "remove" /\ job.cur = s
    BY <1>0, <1>a, <1>b, <1>d, <1>22 DEF Park
  <1>23. ASSUME DuckNone PROVE job.at = "remove" /\ job.cur = s
    BY <1>0, <1>a, <1>b, <1>d, <1>23 DEF DuckNone, Abandon, Gone, Parked
  <1>24. ASSUME DuckGivesUp PROVE job.at = "remove" /\ job.cur = s
    BY <1>0, <1>a, <1>b, <1>d, <1>24 DEF DuckGivesUp, Abandon, Gone, Parked
  <1>25. ASSUME DuckWaits PROVE job.at = "remove" /\ job.cur = s
    BY <1>a, <1>25 DEF DuckWaits, monitors, Quietly
  <1>26. ASSUME DropReplug PROVE job.at = "remove" /\ job.cur = s
    BY <1>0, <1>a, <1>b, <1>d, <1>26 DEF DropReplug, Abandon, Gone, Parked
  <1>27. ASSUME StartReplug PROVE job.at = "remove" /\ job.cur = s
    BY <1>0, <1>a, <1>b, <1>d, <1>27 DEF StartReplug, Abandon, Gone, Parked, TakeParked
  <1>28. ASSUME RequalifyReplugs PROVE job.at = "remove" /\ job.cur = s
    BY <1>0, <1>a, <1>b, <1>d, <1>28 DEF RequalifyReplugs, Abandon, Gone, Parked,
       TakeParked
  <1>29. ASSUME NEW m \in Sessions, Arrive(m) PROVE job.at = "remove" /\ job.cur = s
    BY <1>0, <1>a, <1>b, <1>d, <1>29 DEF Arrive, Gone
  <1>30. ASSUME Replugged PROVE job.at = "remove" /\ job.cur = s
    BY <1>a, <1>30 DEF Replugged, monitors, Quietly
  <1>31. ASSUME ServePlug PROVE job.at = "remove" /\ job.cur = s
    BY <1>0, <1>a, <1>b, <1>d, <1>31 DEF ServePlug
  <1>32. ASSUME ServeUnplug PROVE job.at = "remove" /\ job.cur = s
    BY <1>0, <1>a, <1>b, <1>d, <1>32 DEF ServeUnplug, Gone
  <1>33. ASSUME AdapterReady PROVE job.at = "remove" /\ job.cur = s
    BY <1>a, <1>33 DEF AdapterReady, monitors, Quietly
  <1>34. ASSUME NEW p \in DOMAIN pollers, DisplayPollerEnds(p) PROVE job.at = "remove" /\ job.cur = s
    BY <1>0, <1>a, <1>b, <1>d, <1>34 DEF DisplayPollerEnds, Abandon, DrainStale, Gone,
       Parked
  <1>35. ASSUME NEW p \in DOMAIN pollers, DisplayRecovered(p) PROVE job.at = "remove" /\ job.cur = s
    BY <1>a, <1>35 DEF DisplayRecovered, monitors, Quietly
  <1>36. ASSUME NEW p \in DOMAIN pollers, DisplayDeadline(p) PROVE job.at = "remove" /\ job.cur = s
    BY <1>0, <1>a, <1>b, <1>d, <1>36 DEF DisplayDeadline, Abandon, Gone, Parked
  <1>37. ASSUME NEW p \in DOMAIN pollers, DevicePollerEnds(p) PROVE job.at = "remove" /\ job.cur = s
    BY <1>a, <1>37 DEF DevicePollerEnds, monitors, Quietly
  <1>38. ASSUME NEW p \in DOMAIN pollers, AllSettled(p) PROVE job.at = "remove" /\ job.cur = s
    BY <1>a, <1>38 DEF AllSettled, monitors, Quietly
  <1>39. ASSUME NEW p \in DOMAIN pollers, GoodExit(p) PROVE job.at = "remove" /\ job.cur = s
    BY <1>a, <1>39 DEF GoodExit, monitors, Quietly
  <1>40. ASSUME NEW p \in DOMAIN pollers, Recheck(p) PROVE job.at = "remove" /\ job.cur = s
    BY <1>a, <1>40 DEF Recheck, monitors, Quietly
  <1>41. ASSUME NEW p \in DOMAIN pollers, Requalify(p) PROVE job.at = "remove" /\ job.cur = s
    BY <1>a, <1>41 DEF Requalify, monitors, Quietly
  <1>42. ASSUME NEW p \in DOMAIN pollers, Deadline(p) PROVE job.at = "remove" /\ job.cur = s
    BY <1>a, <1>42 DEF Deadline, monitors, Quietly
  <1>43. ASSUME NEW m \in Sessions, DeviceCreated(m) PROVE job.at = "remove" /\ job.cur = s
    BY <1>a, <1>43 DEF DeviceCreated, monitors, Quietly
  <1>44. ASSUME NEW m \in Sessions, DeviceCreateFails(m) PROVE job.at = "remove" /\ job.cur = s
    BY <1>a, <1>44 DEF DeviceCreateFails, monitors, Quietly
  <1>45. ASSUME NEW m \in Sessions, FirstFrame(m) PROVE job.at = "remove" /\ job.cur = s
    BY <1>a, <1>45 DEF FirstFrame, monitors, Quietly
  <1>46. ASSUME NEW m \in Sessions, SwapchainLost(m) PROVE job.at = "remove" /\ job.cur = s
    BY <1>a, <1>46 DEF SwapchainLost, monitors, Quietly
  <1>47. ASSUME NEW m \in Sessions, Arm(m) PROVE job.at = "remove" /\ job.cur = s
    BY <1>a, <1>47 DEF Arm, monitors, Quietly
  <1>48. ASSUME NEW p \in DOMAIN pollers, ProbeAnswers(p) PROVE job.at = "remove" /\ job.cur = s
    BY <1>a, <1>48 DEF ProbeAnswers, monitors, Quietly
  <1>49. ASSUME UNCHANGED vars PROVE job.at = "remove" /\ job.cur = s
    BY <1>a, <1>49 DEF vars, monitors, Quietly
  <1> QED
    <2>m. CASE Machine
      BY <1>1, <1>2, <1>3, <1>4, <1>5, <1>6, <1>7, <2>m DEF Machine
    <2>f. CASE FinalExit
      BY <1>8, <1>9, <1>10, <2>f DEF FinalExit
    <2>e. CASE EffectsWorker
      BY <1>11, <1>12, <1>13, <1>14, <1>15, <1>16, <1>17, <1>18, <1>19, <1>20, <1>21,
        <1>22, <1>23, <1>24, <1>25, <1>26, <1>27, <1>28, <1>29, <1>30, <1>31, <1>32,
        <1>33, <2>e DEF EffectsWorker
    <2>p. CASE PollerStep
      BY <1>34, <1>35, <1>36, <1>37, <1>38, <1>39, <1>40, <1>41, <1>42, <2>p DEF
        PollerStep
    <2>w. CASE \E m \in Sessions : FrameWorker(m) \/ Arm(m)
      BY <1>43, <1>44, <1>45, <1>46, <1>47, <2>w DEF FrameWorker
    <2>a. CASE \E p \in DOMAIN pollers : ProbeAnswers(p)
      BY <1>48, <2>a
    <2> QED
      BY <1>49, <2>m, <2>f, <2>e, <2>p, <2>w, <2>a DEF Next

(* In device mode a duck departs no monitor whose own adapter was never    *)
(* reset: a healthy second GPU keeps its displays (run_tdr_device_duck     *)
(* covers only the monitors of the adapter that was lost).                 *)
THEOREM HealthyAdapters == Spec => HealthyAdapterKept
  <1> DEFINE Inv == TypeOK /\ MachineEarned /\ DuckEarned
  <1> DEFINE Earned == \A s \in Sessions : DepartedByDuck(s) /\ mode = "device" => resets[luid[s]] > 0
  <1>1. Init => Inv
    BY TypingInit, EarnedInit
  <1>2. Inv /\ [Next]_vars => Inv'
    BY TypingStep, MachineEarnedStep, DuckEarnedStep
  <1>3. Inv /\ [Next]_vars => Earned
    <2> SUFFICES ASSUME Inv, [Next]_vars, NEW s \in Sessions, DepartedByDuck(s), mode = "device"
                 PROVE  WasReset(s)
      BY DEF WasReset
    <2>1. job.at = "remove" /\ job.cur = s
      BY DepartedWasChosen
    <2> QED
      BY <2>1 DEF DuckEarned, JobEarned, Idle
  <1>4. Inv /\ [Next]_vars => [Earned]_vars
    BY <1>3
  <1> QED
    BY <1>1, <1>2, <1>4, PTL DEF Spec, HealthyAdapterKept
=============================================================================
