-------------------------- MODULE ModeUpdates_proofs --------------------------
(* Theorems about ModeUpdates, for any modes, lists, number of updates, queue, *)
(* duck-outs and final exits, and whether or not effects may be late, but for  *)
(* ListsAreTrue and DisplacedAreDead: these are about effects that are not.    *)
EXTENDS ModeUpdates, SequenceTheorems, WellFoundedInduction, TLAPS

-----------------------------------------------------------------------------
(* What the worker holds at each of its places.                             *)
Pushing == {"adapter", "publish", "epoch", "call"}
Serving ==
  /\ wpc # "idle" => queue # <<>>
  /\ wpc \in Pushing \cup {"settle"} => Task.op = "update"
  /\ wpc \in {"depart", "park"} => obj # None
  /\ wpc = "create" => lists # None
  /\ wpc \in {"epoch", "call"} => obj # None /\ lists # None
  /\ wpc = "settle" => outcome # None

(* A push is marked before the worker looks at the adapter; the exit lowers *)
(* the adapter before it looks at the mark.                                 *)
PushMarked ==
  /\ adapter <=> pnp = "up"
  /\ wpc \in Pushing => inflight
  /\ wpc \in Pushing \ {"adapter"} /\ ~ timedOut => pnp \in {"up", "cleared"}

(* Wherever a monitor's lists are, the offered ones are modes it has.       *)
Offers(m) == Range(m.targets) \subseteq Range(m.superset)
MonitorsOffered ==
  /\ rt # None => Offers(rt)
  /\ parked # None => Offers(parked)
  /\ lists # None => Offers(lists)
  /\ wpc \in {"epoch", "call"} /\ rt # None /\ rt.obj = obj => rt.superset = lists.superset
PlugsOffered == \A i \in DOMAIN queue : queue[i].op = "plug" => Offers(queue[i])

(* An update in the queue is the one its number stands for in the table.    *)
Pending(seq) == mon # None /\ mon.pending # None /\ mon.pending.seq = seq
Known(e) ==
  e.op = "update" =>
    e.seq <= updateSeq /\ (Pending(e.seq) => e.targets = mon.pending.targets)
QueueKnown == \A i \in DOMAIN queue : Known(queue[i])

(* What a refusal rests on, remembered or on its way to the table; none     *)
(* stands while its monitor is taken away or replaced, and none is carried  *)
(* over to the next device.                                                 *)
Stands == mon # None /\ mon.blocked # None /\ mon.blocked.current
OnItsWay == wpc = "settle" /\ outcome.result = "blocked" /\ fresh
RefusalKnown ==
  /\ Stands => /\ mon.blocked.mode \notin Range(mon.blocked.targets)
               /\ rt # None => committed[rt.obj] = mon.blocked.mode
  /\ wpc = "settle" /\ outcome.result = "blocked" => outcome.mode \notin Range(Task.targets)
  /\ OnItsWay /\ rt # None => committed[rt.obj] = outcome.mode
NotCarriedOver ==
  /\ pnp \in {"reset", "gone"} => mon = None
  /\ wpc = "depart" => ~ Stands
  /\ pnp = "forgot" /\ wpc = "create" => ~ Stands
  /\ Stands /\ rt = None => ~ adapter /\ wpc # "create"
  /\ OnItsWay /\ rt = None /\ adapter => ~ Pending(Task.seq)

-----------------------------------------------------------------------------
(* The queue, one effect more or less.                                      *)
LEMMA Appended ==
  ASSUME NEW T, NEW s \in Seq(T), NEW e \in T
  PROVE  /\ Append(s, e) \in Seq(T) /\ Append(s, e) # <<>>
         /\ \A i \in DOMAIN Append(s, e) :
              Append(s, e)[i] = e \/ \E j \in DOMAIN s : Append(s, e)[i] = s[j]
         /\ s # <<>> => Head(Append(s, e)) = Head(s)
  <1> DEFINE a == Append(s, e)
  <1>1. /\ a \in Seq(T) /\ Len(a) = Len(s) + 1 /\ a[Len(s) + 1] = e
        /\ \A i \in 1 .. Len(s) : a[i] = s[i]
    BY AppendProperties
  <1>2. Len(s) \in Nat /\ DOMAIN a = 1 .. Len(s) + 1 /\ DOMAIN s = 1 .. Len(s)
    BY <1>1
  <1> HIDE DEF a
  <1>3. \A i \in DOMAIN a : a[i] = e \/ \E j \in DOMAIN s : a[i] = s[j]
    BY <1>1, <1>2
  <1>4. a # <<>>
    BY <1>1, <1>2, EmptySeq
  <1>5. s # <<>> => Head(a) = Head(s)
    BY <1>1, <1>2, <1>4, EmptySeq
  <1> QED
    BY <1>1, <1>3, <1>4, <1>5 DEF a

LEMMA Served ==
  ASSUME NEW T, NEW s \in Seq(T), s # <<>>
  PROVE  /\ Tail(s) \in Seq(T) /\ Head(s) \in T
         /\ \A i \in DOMAIN Tail(s) : \E j \in DOMAIN s : Tail(s)[i] = s[j]
         /\ 1 \in DOMAIN s /\ Head(s) = s[1]
  <1> DEFINE t == Tail(s)
  <1>1. Len(s) \in Nat \ {0} /\ DOMAIN s = 1 .. Len(s) /\ Head(s) = s[1] /\ Head(s) \in T
    BY EmptySeq
  <1>2. /\ t \in Seq(T) /\ Len(t) = Len(s) - 1
        /\ \A i \in 1 .. Len(t) : t[i] = s[i + 1]
    BY HeadTailProperties
  <1>3. DOMAIN t = 1 .. Len(s) - 1
    BY <1>2
  <1> HIDE DEF t
  <1>4. \A i \in DOMAIN t : \E j \in DOMAIN s : t[i] = s[j]
    BY <1>1, <1>2, <1>3
  <1> QED
    BY <1>1, <1>2, <1>4 DEF t

-----------------------------------------------------------------------------
(* Records of the model.                                                    *)
LEMMA Outcomes ==
  /\ NotApplied \in OutcomeType /\ NotApplied.result = "not applied" /\ NotApplied # None
  /\ Applied \in OutcomeType /\ Applied.result = "applied" /\ Applied # None
  /\ \A m \in Modes : Blocked(m) \in OutcomeType /\ Blocked(m) # None
                      /\ Blocked(m).result = "blocked" /\ Blocked(m).mode = m
  <1>1. /\ NotApplied \in OutcomeType /\ NotApplied.result = "not applied"
        /\ Applied \in OutcomeType /\ Applied.result = "applied"
    BY DEF NotApplied, Applied, OutcomeType
  <1>2. ASSUME NEW m \in Modes
        PROVE  Blocked(m) \in OutcomeType /\ Blocked(m).result = "blocked" /\ Blocked(m).mode = m
    BY DEF Blocked, OutcomeType
  <1> QED
    BY <1>1, <1>2, NoneAssumption

LEMMA InLists == \A l \in Lists :
  Range(l) \subseteq Modes /\ DOMAIN l \subseteq Nat /\ DOMAIN l # {}
  <1> SUFFICES ASSUME NEW l \in Lists
               PROVE  Range(l) \subseteq Modes /\ DOMAIN l \subseteq Nat /\ DOMAIN l # {}
    OBVIOUS
  <1>1. PICK n \in 1 .. MaxModes : l \in [1 .. n -> Modes]
    BY DEF Lists
  <1>2. DOMAIN l = 1 .. n /\ n \in Nat \ {0} /\ \A i \in DOMAIN l : l[i] \in Modes
    BY <1>1, BoundsAssumption
  <1> QED
    BY <1>2 DEF Range

(* Updating the targets of a monitor makes no other monitor of it.          *)
LEMMA Patched ==
  ASSUME NEW r \in RuntimeType, NEW l \in Lists
  PROVE  /\ [r EXCEPT !.targets = l] \in RuntimeType /\ [r EXCEPT !.targets = l] # None
         /\ [r EXCEPT !.targets = l].obj = r.obj /\ [r EXCEPT !.targets = l].superset = r.superset
         /\ [r EXCEPT !.targets = l].targets = l
  <1>1. [r EXCEPT !.targets = l] \in RuntimeType
    BY DEF RuntimeType
  <1>2. [r EXCEPT !.targets = l] # None
    BY <1>1, NoneAssumption
  <1> QED
    BY <1>1, <1>2 DEF RuntimeType

LEMMA Expired ==
  ASSUME TableTypes, Expire
  PROVE  /\ mon' \in SessionType \cup {None} /\ ~ Stands' /\ fresh' = FALSE
         /\ mon = None => mon' = None
         /\ mon' # None => mon # None /\ mon'.pending = mon.pending
  <1>1. CASE mon # None /\ mon.blocked # None
    <2>1. mon \in SessionType /\ mon.blocked \in BlockedType
      BY <1>1 DEF TableTypes, SessionType
    <2> DEFINE b == [mon.blocked EXCEPT !.current = FALSE]
    <2>2. b \in BlockedType /\ b.current = FALSE
      BY <2>1 DEF BlockedType
    <2>3. mon' = [mon EXCEPT !.blocked = b]
      BY <1>1 DEF Expire
    <2> HIDE DEF b
    <2>4. mon' \in SessionType /\ mon'.blocked = b /\ mon'.pending = mon.pending
      BY <2>1, <2>2, <2>3 DEF SessionType
    <2> QED
      BY <1>1, <2>2, <2>4 DEF Expire, Stands
  <1>2. CASE ~ (mon # None /\ mon.blocked # None)
    BY <1>2 DEF Expire, Stands, TableTypes
  <1> QED
    BY <1>1, <1>2

-----------------------------------------------------------------------------
(* Types.                                                                   *)
LEMMA TypingInit == Init => TypeOK /\ Serving
  <1> SUFFICES ASSUME Init PROVE TypeOK /\ Serving
    OBVIOUS
  <1>1. QueueTypes
    <2>1. <<>> \in Seq(EffectType)
      BY EmptySeq
    <2> QED
      BY <2>1 DEF Init, QueueTypes
  <1>2. TableTypes /\ WorkerTypes /\ MonitorTypes /\ DeviceTypes /\ Serving
    BY DEF Init, TableTypes, WorkerTypes, MonitorTypes, DeviceTypes, Serving, Pushing
  <1> QED
    BY <1>1, <1>2 DEF TypeOK

LEMMA TypingStep == TypeOK /\ Serving /\ [Next]_vars => TypeOK' /\ Serving'
  <1> SUFFICES ASSUME TypeOK, Serving, [Next]_vars PROVE TypeOK' /\ Serving'
    OBVIOUS
  <1>0. TableTypes /\ QueueTypes /\ WorkerTypes /\ MonitorTypes /\ DeviceTypes
    BY DEF TypeOK
  <1>t. ASSUME queue # <<>>
        PROVE  /\ Task.op = "update" => Task.seq \in Nat /\ Task.targets \in Lists
               /\ Task.op = "plug" =>
                    [superset |-> Task.superset, targets |-> Task.targets] \in PlugLists
    <2>1. Task \in EffectType
      BY <1>0, <1>t, Served DEF QueueTypes, Task
    <2> QED
      BY <2>1 DEF EffectType, PlugLists
  <1>a. ASSUME NEW e \in EffectType, queue' = Append(queue, e)
        PROVE  QueueTypes' /\ queue' # <<>> /\ (queue # <<>> => Task' = Task)
    BY <1>0, <1>a, Appended DEF QueueTypes, Task
  <1>d. ASSUME queue # <<>>, queue' = Tail(queue) PROVE QueueTypes'
    BY <1>0, <1>d, Served DEF QueueTypes
  <1>1. ASSUME NEW l \in Supersets, HostCreate(l) PROVE TypeOK' /\ Serving'
    <2>1. TableTypes'
      <3>1. l \in Lists
        BY SupersetsAssumption
      <3>2. mon' = Created(l) /\ updateSeq' = updateSeq
        BY <1>1 DEF HostCreate
      <3>3. Created(l) \in SessionType
        BY <1>0, <3>1 DEF Created, SessionType, TableTypes
      <3> QED
        BY <1>0, <3>2, <3>3 DEF TableTypes
    <2>q. PICK e \in EffectType : e = Plug(l, l)
      BY <1>1, <1>0, SupersetsAssumption DEF HostCreate, device, duck, locals, monitors,
         Plug, EffectType, DeviceTypes
    <2>r. queue' = Append(queue, e) /\ wpc' = wpc
      BY <1>1, <2>q DEF HostCreate
    <2>s. QueueTypes' /\ queue' # <<>> /\ (queue # <<>> => Task' = Task)
      BY <1>a, <2>r
    <2>2. WorkerTypes'
      BY <1>1, <1>0, <2>s DEF HostCreate, device, duck, locals, monitors, WorkerTypes
    <2>3. MonitorTypes'
      BY <1>1, <1>0 DEF HostCreate, device, duck, locals, monitors, MonitorTypes
    <2>4. DeviceTypes'
      BY <1>1, <1>0 DEF HostCreate, device, duck, locals, monitors, DeviceTypes
    <2>5. Serving'
      BY <1>1, <1>0, <2>r, <2>s DEF HostCreate, device, duck, locals, monitors, Serving,
         Pushing, Task
    <2> QED
      BY <1>0, <2>s, <2>1, <2>2, <2>3, <2>4, <2>5 DEF TypeOK, QueueTypes
  <1>2. ASSUME HostDestroy PROVE TypeOK' /\ Serving'
    <2>1. TableTypes'
      BY <1>2, <1>0 DEF HostDestroy, device, duck, locals, monitors, TableTypes,
         SessionType, PendingType, BlockedType
    <2>q. PICK e \in EffectType : e = Unplug
      BY <1>2, <1>0, SupersetsAssumption DEF HostDestroy, device, duck, locals,
         monitors, Unplug, EffectType, DeviceTypes
    <2>r. queue' = Append(queue, e) /\ wpc' = wpc
      BY <1>2, <2>q DEF HostDestroy
    <2>s. QueueTypes' /\ queue' # <<>> /\ (queue # <<>> => Task' = Task)
      BY <1>a, <2>r
    <2>2. WorkerTypes'
      BY <1>2, <1>0, <2>s DEF HostDestroy, device, duck, locals, monitors, WorkerTypes
    <2>3. MonitorTypes'
      BY <1>2, <1>0 DEF HostDestroy, device, duck, locals, monitors, MonitorTypes
    <2>4. DeviceTypes'
      BY <1>2, <1>0 DEF HostDestroy, device, duck, locals, monitors, DeviceTypes
    <2>5. Serving'
      BY <1>2, <1>0, <2>r, <2>s DEF HostDestroy, device, duck, locals, monitors,
         Serving, Pushing, Task
    <2> QED
      BY <1>0, <2>s, <2>1, <2>2, <2>3, <2>4, <2>5 DEF TypeOK, QueueTypes
  <1>3. ASSUME NEW l \in Lists, HostUpdate(l) PROVE TypeOK' /\ Serving'
    <2> DEFINE targets == Select(mon.superset, l)
    <2>a. mon \in SessionType /\ updateSeq \in Nat /\ Remembered \in BlockedType \cup {None}
      BY <1>3, <1>0 DEF HostUpdate, TableTypes, SessionType, Remembered
    <2>1. TableTypes'
      <3>1. CASE Answered(targets)
        <4>1. mon' = [mon EXCEPT !.blocked = Remembered] /\ updateSeq' = updateSeq
          BY <1>3, <3>1 DEF HostUpdate
        <4> QED
          BY <2>a, <4>1 DEF TableTypes, SessionType
      <3>2. CASE ~ Answered(targets)
        <4>1. /\ targets \in Lists /\ updateSeq' = updateSeq + 1
              /\ mon' = [mon EXCEPT !.blocked = None,
                                    !.pending = [seq |-> updateSeq + 1, targets |-> targets]]
          BY <1>3, <3>2 DEF HostUpdate, Answered
        <4> HIDE DEF targets
        <4>2. [seq |-> updateSeq + 1, targets |-> targets] \in PendingType
          BY <2>a, <4>1 DEF PendingType
        <4>3. mon' \in SessionType
          BY <2>a, <4>1, <4>2 DEF SessionType
        <4> QED
          BY <2>a, <4>1, <4>3 DEF TableTypes
      <3> QED
        BY <3>1, <3>2
    <2>2. QueueTypes' /\ WorkerTypes' /\ Serving'
      <3>1. CASE UNCHANGED queue
        BY <1>3, <1>0, <3>1 DEF HostUpdate, locals, QueueTypes, WorkerTypes, Serving, Task
      <3>2. CASE ~ UNCHANGED queue
        <4>1. targets \in Lists /\ queue' = Append(queue, Update(updateSeq + 1, targets))
          BY <1>3, <3>2 DEF HostUpdate, Answered
        <4> HIDE DEF targets
        <4>2. PICK e \in EffectType : e = Update(updateSeq + 1, targets)
          BY <2>a, <4>1 DEF Update, EffectType
        <4>3. QueueTypes' /\ queue' # <<>> /\ (queue # <<>> => Task' = Task)
          BY <1>a, <4>1, <4>2
        <4>4. UNCHANGED <<wpc, locals, inflight>>
          BY <1>3 DEF HostUpdate
        <4> QED
          BY <1>0, <4>3, <4>4 DEF WorkerTypes, Serving, locals, Pushing
      <3> QED
        BY <3>1, <3>2
    <2>3. MonitorTypes' /\ DeviceTypes'
      BY <1>3, <1>0 DEF HostUpdate, MonitorTypes, DeviceTypes, monitors, duck, device
    <2> QED
      BY <2>1, <2>2, <2>3 DEF TypeOK
  <1>4. ASSUME StartPlug PROVE TypeOK' /\ Serving'
    <2>1. TableTypes'
      BY <1>4, <1>0 DEF StartPlug, device, duck, table, TableTypes
    <2>r. queue # <<>>
      BY <1>4 DEF StartPlug, AtHead, Serving
    <2>s. QueueTypes'
      BY <1>4, <1>0, <1>d, <2>r DEF StartPlug, Done, QueueTypes
    <2>k. [superset |-> Task.superset, targets |-> Task.targets] \in PlugLists
      BY <1>4, <1>t, <2>r DEF StartPlug, AtHead, Task
    <2>l. lists' \in PlugLists \cup {None}
      <3>1. CASE adapter
        BY <1>4, <2>k, <3>1 DEF StartPlug
      <3>2. CASE ~ adapter
        BY <1>4, <3>2 DEF StartPlug, Done
      <3> QED
        BY <3>1, <3>2
    <2>2. WorkerTypes'
      BY <1>4, <1>0, <2>l DEF StartPlug, Done, WorkerTypes
    <2>3. MonitorTypes'
      BY <1>4, <1>0, <1>t DEF StartPlug, device, duck, table, MonitorTypes, PlugLists,
         RuntimeType, AtHead, Serving, Pushing
    <2>4. DeviceTypes'
      BY <1>4, <1>0 DEF StartPlug, device, duck, table, DeviceTypes
    <2>5. Serving'
      BY <1>4, <1>0, <2>s, NoneAssumption, <1>t DEF StartPlug, device, duck, table,
         Serving, Pushing, Task, Done, AtHead, MonitorTypes, RuntimeType, PlugLists
    <2> QED
      BY <1>0, <2>s, <2>1, <2>2, <2>3, <2>4, <2>5 DEF TypeOK, QueueTypes
  <1>5. ASSUME StartReplug PROVE TypeOK' /\ Serving'
    <2>1. TableTypes'
      BY <1>5, <1>0 DEF StartReplug, device, table, TableTypes
    <2>r. queue # <<>>
      BY <1>5 DEF StartReplug, AtHead, Serving
    <2>s. QueueTypes'
      BY <1>5, <1>0, <1>d, <2>r DEF StartReplug, Done, QueueTypes
    <2>l. lists' \in PlugLists \cup {None}
      BY <1>5, <1>0 DEF StartReplug, Done, WorkerTypes, MonitorTypes
    <2>2. WorkerTypes'
      BY <1>5, <1>0, <2>l DEF StartReplug, Done, WorkerTypes
    <2>3. MonitorTypes'
      BY <1>5, <1>0, <1>t DEF StartReplug, device, table, MonitorTypes, PlugLists,
         RuntimeType, AtHead, Serving, Pushing
    <2>4. DeviceTypes'
      BY <1>5, <1>0 DEF StartReplug, device, table, DeviceTypes
    <2>5. Serving'
      BY <1>5, <1>0, <2>s, NoneAssumption DEF StartReplug, device, table, Serving,
         Pushing, Task, Done, AtHead, MonitorTypes, RuntimeType, PlugLists
    <2> QED
      BY <1>0, <2>s, <2>1, <2>2, <2>3, <2>4, <2>5 DEF TypeOK, QueueTypes
  <1>6. ASSUME CreateFails PROVE TypeOK' /\ Serving'
    <2>1. TableTypes'
      BY <1>6, <1>0 DEF CreateFails, device, monitors, table, TableTypes
    <2>r. queue # <<>>
      BY <1>6 DEF CreateFails, AtHead, Serving
    <2>s. QueueTypes'
      BY <1>6, <1>0, <1>d, <2>r DEF CreateFails, Done, QueueTypes
    <2>2. WorkerTypes'
      BY <1>6, <1>0, <2>s, <1>t DEF CreateFails, device, monitors, table, WorkerTypes,
         Done
    <2>3. MonitorTypes'
      BY <1>6, <1>0 DEF CreateFails, device, monitors, table, MonitorTypes
    <2>4. DeviceTypes'
      BY <1>6, <1>0 DEF CreateFails, LatchOver, device, monitors, table, DeviceTypes
    <2>5. Serving'
      BY <1>6, <1>0, <2>s, NoneAssumption DEF CreateFails, device, monitors, table,
         Serving, Pushing, Task, Done
    <2> QED
      BY <1>0, <2>s, <2>1, <2>2, <2>3, <2>4, <2>5 DEF TypeOK, QueueTypes
  <1>7. ASSUME NEW o \in Objects, Arrive(o) PROVE TypeOK' /\ Serving'
    <2>e. Expire \/ UNCHANGED <<mon, fresh>>
      BY <1>7 DEF Arrive, Forget
    <2>1. TableTypes'
      BY <1>7, <1>0, <2>e, Expired DEF Arrive, TableTypes
    <2>r. queue # <<>>
      BY <1>7 DEF Arrive, AtHead, Serving
    <2>s. QueueTypes'
      BY <1>7, <1>0, <1>d, <2>r DEF Arrive, Done, QueueTypes
    <2>2. WorkerTypes'
      BY <1>7, <1>0, <2>s, <1>t, <2>e, Expired DEF Arrive, WorkerTypes, RuntimeType,
         Done, DeviceTypes
    <2>3. MonitorTypes'
      BY <1>7, <1>0, <1>t DEF Arrive, MonitorTypes, RuntimeType, PlugLists, WorkerTypes,
         Serving, Forget, Pushing
    <2>4. DeviceTypes'
      BY <1>7, <1>0 DEF Arrive, LatchOver, DeviceTypes
    <2>5. Serving'
      BY <1>7, <1>0, <2>s, NoneAssumption DEF Arrive, Serving, Pushing, Task, Done
    <2> QED
      BY <1>0, <2>s, <2>1, <2>2, <2>3, <2>4, <2>5 DEF TypeOK, QueueTypes
  <1>8. ASSUME NEW o \in Objects, ArrivalFails(o) PROVE TypeOK' /\ Serving'
    <2>e. Expire \/ UNCHANGED <<mon, fresh>>
      BY <1>8 DEF ArrivalFails, Forget
    <2>1. TableTypes'
      BY <1>8, <1>0, <2>e, Expired DEF ArrivalFails, TableTypes
    <2>r. queue # <<>>
      BY <1>8 DEF ArrivalFails, AtHead, Serving
    <2>s. QueueTypes'
      BY <1>8, <1>0, <1>d, <2>r DEF ArrivalFails, Done, QueueTypes
    <2>2. WorkerTypes'
      BY <1>8, <1>0, <2>s, <1>t, <2>e, Expired DEF ArrivalFails, device, WorkerTypes,
         RuntimeType, Done
    <2>3. MonitorTypes'
      BY <1>8, <1>0, <1>t DEF ArrivalFails, device, MonitorTypes, RuntimeType,
         PlugLists, WorkerTypes, Serving, Forget, Pushing
    <2>4. DeviceTypes'
      BY <1>8, <1>0 DEF ArrivalFails, LatchOver, device, DeviceTypes
    <2>5. Serving'
      BY <1>8, <1>0, <2>s, NoneAssumption DEF ArrivalFails, device, Serving, Pushing,
         Task, Done
    <2> QED
      BY <1>0, <2>s, <2>1, <2>2, <2>3, <2>4, <2>5 DEF TypeOK, QueueTypes
  <1>9. ASSUME StartUnplug PROVE TypeOK' /\ Serving'
    <2>e. Expire \/ UNCHANGED <<mon, fresh>>
      BY <1>9 DEF StartUnplug, Forget
    <2>1. TableTypes'
      BY <1>9, <1>0, <2>e, Expired DEF StartUnplug, TableTypes
    <2>r. queue # <<>>
      BY <1>9 DEF StartUnplug, AtHead, Serving
    <2>s. QueueTypes'
      BY <1>9, <1>0, <1>d, <2>r DEF StartUnplug, Done, QueueTypes
    <2>2. WorkerTypes'
      BY <1>9, <1>0, <2>s, <2>e, Expired DEF StartUnplug, device, duck, WorkerTypes,
         RuntimeType, AtHead, Done, MonitorTypes
    <2>3. MonitorTypes'
      BY <1>9, <1>0 DEF StartUnplug, device, duck, MonitorTypes, PlugLists, RuntimeType,
         AtHead, Serving, Forget, Pushing
    <2>4. DeviceTypes'
      BY <1>9, <1>0 DEF StartUnplug, device, duck, DeviceTypes
    <2>5. Serving'
      BY <1>9, <1>0, <2>s, NoneAssumption DEF StartUnplug, device, duck, Serving,
         Pushing, Task, Done, AtHead, MonitorTypes, RuntimeType, Forget
    <2> QED
      BY <1>0, <2>s, <2>1, <2>2, <2>3, <2>4, <2>5 DEF TypeOK, QueueTypes
  <1>10. ASSUME Depart PROVE TypeOK' /\ Serving'
    <2>1. TableTypes'
      BY <1>10, <1>0 DEF Depart, duck, table, TableTypes
    <2>r. queue # <<>>
      BY <1>10 DEF Depart, AtHead, Serving
    <2>s. QueueTypes'
      BY <1>10, <1>0, <1>d, <2>r DEF Depart, Done, QueueTypes
    <2>2. WorkerTypes'
      BY <1>10, <1>0, <2>s DEF Depart, duck, table, WorkerTypes, Done, DeviceTypes
    <2>3. MonitorTypes'
      BY <1>10, <1>0 DEF Depart, duck, table, MonitorTypes, RuntimeType, PlugLists,
         WorkerTypes, Serving, Pushing
    <2>4. DeviceTypes'
      BY <1>10, <1>0 DEF Depart, duck, table, DeviceTypes, WorkerTypes
    <2>5. Serving'
      BY <1>10, <1>0, <2>s, NoneAssumption DEF Depart, duck, table, Serving, Pushing,
         Task, Done
    <2> QED
      BY <1>0, <2>s, <2>1, <2>2, <2>3, <2>4, <2>5 DEF TypeOK, QueueTypes
  <1>11. ASSUME StartPush PROVE TypeOK' /\ Serving'
    <2>1. TableTypes'
      BY <1>11, <1>0 DEF StartPush, device, duck, table, TableTypes
    <2>s. queue' = queue
      BY <1>11 DEF StartPush, device, duck, table
    <2>o. Settling(Applied) \/ Settling(NotApplied) \/ (wpc' = "adapter" /\ UNCHANGED outcome)
      BY <1>11, <1>0 DEF StartPush, device, duck, table
    <2>p. outcome' \in OutcomeType \cup {None} /\ (wpc' = "settle" => outcome' # None)
      BY <1>0, <2>o, Outcomes DEF Settling, WorkerTypes
    <2>2. WorkerTypes'
      BY <1>11, <1>0, <2>o, <2>p DEF StartPush, device, duck, table, WorkerTypes,
         Settling, DeviceTypes
    <2>3. MonitorTypes'
      <3>1. CASE UNCHANGED parked
        BY <1>11, <1>0, <3>1 DEF StartPush, MonitorTypes
      <3>2. CASE parked # None /\ parked' = [parked EXCEPT !.targets = Task.targets]
        <4>1. Task.targets \in Lists
          BY <1>11, <1>t DEF StartPush, AtHead, Task
        <4>2. parked' \in PlugLists
          BY <1>0, <3>2, <4>1 DEF MonitorTypes, PlugLists
        <4> QED
          BY <1>11, <1>0, <4>2 DEF StartPush, MonitorTypes
      <3> QED
        BY <1>11, <3>1, <3>2 DEF StartPush
    <2>4. DeviceTypes'
      BY <1>11, <1>0 DEF StartPush, device, duck, table, DeviceTypes
    <2>v. wpc \in Pushing \/ AtHead("update")
      BY <1>11 DEF StartPush, Pushing
    <2>w. Task' = Task /\ Task.op = "update" /\ queue' # <<>>
      BY <2>s, <2>v DEF Serving, Task, AtHead, Pushing
    <2>5. Serving'
      BY <1>11, <2>o, <2>p, <2>w DEF StartPush, device, duck, table, Serving, Settling,
         Pushing
    <2> QED
      BY <1>0, <2>s, <2>1, <2>2, <2>3, <2>4, <2>5 DEF TypeOK, QueueTypes
  <1>12. ASSUME ReadAdapter PROVE TypeOK' /\ Serving'
    <2>1. TableTypes'
      BY <1>12, <1>0 DEF ReadAdapter, device, duck, monitors, table, TableTypes
    <2>s. queue' = queue
      BY <1>12 DEF ReadAdapter, device, duck, monitors, table
    <2>o. Settling(NotApplied) \/ (wpc' = "publish" /\ UNCHANGED outcome)
      BY <1>12, <1>0 DEF ReadAdapter, device, duck, monitors, table
    <2>p. outcome' \in OutcomeType \cup {None} /\ (wpc' = "settle" => outcome' # None)
      BY <1>0, <2>o, Outcomes DEF Settling, WorkerTypes
    <2>2. WorkerTypes'
      BY <1>12, <1>0, <2>o, <2>p DEF ReadAdapter, device, duck, monitors, table,
         WorkerTypes, Settling, DeviceTypes
    <2>3. MonitorTypes'
      BY <1>12, <1>0 DEF ReadAdapter, device, duck, monitors, table, MonitorTypes
    <2>4. DeviceTypes'
      BY <1>12, <1>0 DEF ReadAdapter, device, duck, monitors, table, DeviceTypes
    <2>v. wpc \in Pushing \/ AtHead("update")
      BY <1>12 DEF ReadAdapter, Pushing
    <2>w. Task' = Task /\ Task.op = "update" /\ queue' # <<>>
      BY <2>s, <2>v DEF Serving, Task, AtHead, Pushing
    <2>5. Serving'
      BY <1>12, <2>o, <2>p, <2>w DEF ReadAdapter, device, duck, monitors, table,
         Serving, Settling, Pushing
    <2> QED
      BY <1>0, <2>s, <2>1, <2>2, <2>3, <2>4, <2>5 DEF TypeOK, QueueTypes
  <1>13. ASSUME Refuse PROVE TypeOK' /\ Serving'
    <2>1. TableTypes'
      BY <1>13, <1>0 DEF Refuse, device, duck, monitors, table, TableTypes
    <2>s. queue' = queue
      BY <1>13 DEF Refuse, device, duck, monitors, table
    <2>o. Settling(NotApplied) \/ \E m \in Modes : Settling(Blocked(m))
      BY <1>13, <1>0, InLists DEF Refuse, device, duck, monitors, table, Evicts,
         Pushable, MonitorTypes, RuntimeType
    <2>p. outcome' \in OutcomeType \cup {None} /\ (wpc' = "settle" => outcome' # None)
      BY <1>0, <2>o, Outcomes DEF Settling, WorkerTypes
    <2>2. WorkerTypes'
      BY <1>13, <1>0, <2>o, <2>p DEF Refuse, device, duck, monitors, table, WorkerTypes,
         Settling, DeviceTypes
    <2>3. MonitorTypes'
      BY <1>13, <1>0 DEF Refuse, device, duck, monitors, table, MonitorTypes
    <2>4. DeviceTypes'
      BY <1>13, <1>0 DEF Refuse, device, duck, monitors, table, DeviceTypes
    <2>v. wpc \in Pushing \/ AtHead("update")
      BY <1>13 DEF Refuse, Pushing
    <2>w. Task' = Task /\ Task.op = "update" /\ queue' # <<>>
      BY <2>s, <2>v DEF Serving, Task, AtHead, Pushing
    <2>5. Serving'
      BY <1>13, <2>o, <2>p, <2>w DEF Refuse, device, duck, monitors, table, Serving,
         Settling, Pushing
    <2> QED
      BY <1>0, <2>s, <2>1, <2>2, <2>3, <2>4, <2>5 DEF TypeOK, QueueTypes
  <1>14. ASSUME Publish PROVE TypeOK' /\ Serving'
    <2>1. TableTypes'
      BY <1>14, <1>0 DEF Publish, device, duck, table, TableTypes
    <2>s. queue' = queue
      BY <1>14 DEF Publish, device, duck, table
    <2>l. rt \in RuntimeType /\ [superset |-> rt.superset, targets |-> rt.targets] \in PlugLists
      BY <1>14, <1>0 DEF Publish, Pushable, MonitorTypes, RuntimeType, PlugLists
    <2>2. WorkerTypes'
      BY <1>14, <1>0, <2>l DEF Publish, WorkerTypes, RuntimeType
    <2>3. MonitorTypes'
      BY <1>14, <1>0, <1>t DEF Publish, device, duck, table, MonitorTypes, RuntimeType,
         PlugLists, WorkerTypes, Serving, Pushable, Pushing
    <2>4. DeviceTypes'
      BY <1>14, <1>0 DEF Publish, device, duck, table, DeviceTypes
    <2>5. Serving'
      BY <1>14, <1>0, <2>s, NoneAssumption DEF Publish, device, duck, table, Serving,
         Pushing, Task, Pushable, MonitorTypes, RuntimeType, PlugLists
    <2> QED
      BY <1>0, <2>s, <2>1, <2>2, <2>3, <2>4, <2>5 DEF TypeOK, QueueTypes
  <1>15. ASSUME CheckEpoch PROVE TypeOK' /\ Serving'
    <2>1. TableTypes'
      BY <1>15, <1>0 DEF CheckEpoch, device, duck, table, TableTypes
    <2>s. queue' = queue
      BY <1>15 DEF CheckEpoch, device, duck, table
    <2>o. Settling(NotApplied) \/ (wpc' = "call" /\ UNCHANGED outcome)
      BY <1>15, <1>0 DEF CheckEpoch, device, duck, table
    <2>p. outcome' \in OutcomeType \cup {None} /\ (wpc' = "settle" => outcome' # None)
      BY <1>0, <2>o, Outcomes DEF Settling, WorkerTypes
    <2>2. WorkerTypes'
      BY <1>15, <1>0, <2>o, <2>p DEF CheckEpoch, device, duck, table, WorkerTypes,
         Settling, DeviceTypes
    <2>3. MonitorTypes'
      BY <1>15, <1>0, <1>t DEF CheckEpoch, device, duck, table, MonitorTypes,
         RuntimeType, PlugLists, Restore, WorkerTypes, Serving, Pushing
    <2>4. DeviceTypes'
      BY <1>15, <1>0 DEF CheckEpoch, device, duck, table, DeviceTypes
    <2>v. wpc \in Pushing \/ AtHead("update")
      BY <1>15 DEF CheckEpoch, Pushing
    <2>w. Task' = Task /\ Task.op = "update" /\ queue' # <<>>
      BY <2>s, <2>v DEF Serving, Task, AtHead, Pushing
    <2>5. Serving'
      BY <1>15, <2>o, <2>p, <2>w DEF CheckEpoch, device, duck, table, Serving, Settling,
         Pushing
    <2> QED
      BY <1>0, <2>s, <2>1, <2>2, <2>3, <2>4, <2>5 DEF TypeOK, QueueTypes
  <1>16. ASSUME OSAccepts PROVE TypeOK' /\ Serving'
    <2>1. TableTypes'
      BY <1>16, <1>0 DEF OSAccepts, device, duck, monitors, table, TableTypes
    <2>s. queue' = queue
      BY <1>16 DEF OSAccepts, device, duck, monitors, table
    <2>o. Settling(Applied)
      BY <1>16, <1>0 DEF OSAccepts, device, duck, monitors, table
    <2>p. outcome' \in OutcomeType \cup {None} /\ (wpc' = "settle" => outcome' # None)
      BY <1>0, <2>o, Outcomes DEF Settling, WorkerTypes
    <2>2. WorkerTypes'
      BY <1>16, <1>0, <2>o, <2>p DEF OSAccepts, device, duck, monitors, table,
         WorkerTypes, Settling, DeviceTypes
    <2>3. MonitorTypes'
      BY <1>16, <1>0 DEF OSAccepts, device, duck, monitors, table, MonitorTypes
    <2>4. DeviceTypes'
      BY <1>16, <1>0 DEF OSAccepts, device, duck, monitors, table, DeviceTypes
    <2>v. wpc \in Pushing \/ AtHead("update")
      BY <1>16 DEF OSAccepts, Pushing
    <2>w. Task' = Task /\ Task.op = "update" /\ queue' # <<>>
      BY <2>s, <2>v DEF Serving, Task, AtHead, Pushing
    <2>5. Serving'
      BY <1>16, <2>o, <2>p, <2>w DEF OSAccepts, device, duck, monitors, table, Serving,
         Settling, Pushing
    <2> QED
      BY <1>0, <2>s, <2>1, <2>2, <2>3, <2>4, <2>5 DEF TypeOK, QueueTypes
  <1>17. ASSUME OSRefuses PROVE TypeOK' /\ Serving'
    <2>1. TableTypes'
      BY <1>17, <1>0 DEF OSRefuses, device, duck, table, TableTypes
    <2>s. queue' = queue
      BY <1>17 DEF OSRefuses, device, duck, table
    <2>o. Settling(NotApplied)
      BY <1>17, <1>0 DEF OSRefuses, device, duck, table
    <2>p. outcome' \in OutcomeType \cup {None} /\ (wpc' = "settle" => outcome' # None)
      BY <1>0, <2>o, Outcomes DEF Settling, WorkerTypes
    <2>2. WorkerTypes'
      BY <1>17, <1>0, <2>o, <2>p DEF OSRefuses, device, duck, table, WorkerTypes,
         Settling, DeviceTypes
    <2>3. MonitorTypes'
      BY <1>17, <1>0, <1>t DEF OSRefuses, device, duck, table, MonitorTypes,
         RuntimeType, PlugLists, Restore, WorkerTypes, Serving, Pushing
    <2>4. DeviceTypes'
      BY <1>17, <1>0 DEF OSRefuses, device, duck, table, DeviceTypes
    <2>v. wpc \in Pushing \/ AtHead("update")
      BY <1>17 DEF OSRefuses, Pushing
    <2>w. Task' = Task /\ Task.op = "update" /\ queue' # <<>>
      BY <2>s, <2>v DEF Serving, Task, AtHead, Pushing
    <2>5. Serving'
      BY <1>17, <2>o, <2>p, <2>w DEF OSRefuses, device, duck, table, Serving, Settling,
         Pushing
    <2> QED
      BY <1>0, <2>s, <2>1, <2>2, <2>3, <2>4, <2>5 DEF TypeOK, QueueTypes
  <1>18. ASSUME Settle PROVE TypeOK' /\ Serving'
    <2>a. Task.seq \in Nat /\ Task.targets \in Lists /\ outcome \in OutcomeType
      BY <1>18, <1>0, <1>t DEF Settle, Serving, WorkerTypes
    <2>b. updateSeq' = updateSeq
      BY <1>18 DEF Settle
    <2>1. TableTypes'
      <3>1. CASE mon' = mon
        BY <1>0, <2>b, <3>1 DEF TableTypes
      <3>2. CASE mon # None /\ mon' = Superseded
        BY <1>0, <2>a, <2>b, <3>2 DEF Superseded, TableTypes, SessionType
      <3>3. CASE mon # None /\ mon.pending # None /\ mon' = Decided
        <4>1. mon \in SessionType /\ mon.pending \in PendingType
          BY <1>0, <3>3 DEF TableTypes, SessionType
        <4>2. CASE outcome.result = "applied"
          BY <1>0, <2>a, <2>b, <3>3, <4>1, <4>2 DEF Decided, TableTypes, SessionType
        <4>3. CASE outcome.result = "not applied"
          BY <1>0, <2>a, <2>b, <3>3, <4>1, <4>3 DEF Decided, TableTypes, SessionType
        <4>4. CASE outcome.result \notin {"applied", "not applied"}
          <5> DEFINE b == [targets |-> mon.pending.targets,
                           mode |-> outcome.mode, current |-> fresh]
          <5>1. b \in BlockedType
            BY <1>0, <2>a, <4>1, <4>4 DEF WorkerTypes, OutcomeType, PendingType, BlockedType
          <5>2. mon' = [mon EXCEPT !.settled = Task.seq, !.pending = None, !.blocked = b]
            BY <3>3, <4>4 DEF Decided
          <5> HIDE DEF b
          <5> QED
            BY <1>0, <2>a, <2>b, <4>1, <5>1, <5>2 DEF TableTypes, SessionType
        <4> QED
          BY <4>2, <4>3, <4>4
      <3> QED
        BY <1>18, <3>1, <3>2, <3>3 DEF Settle
    <2>r. queue # <<>>
      BY <1>18 DEF Settle, AtHead, Serving
    <2>s. QueueTypes'
      BY <1>18, <1>0, <1>d, <2>r DEF Settle, Done, QueueTypes
    <2>2. WorkerTypes'
      BY <1>18, <1>0, <2>s, <1>t DEF Settle, device, duck, monitors, WorkerTypes, Done
    <2>3. MonitorTypes'
      BY <1>18, <1>0 DEF Settle, device, duck, monitors, MonitorTypes
    <2>4. DeviceTypes'
      BY <1>18, <1>0 DEF Settle, device, duck, monitors, DeviceTypes
    <2>5. Serving'
      BY <1>18, <1>0, <2>s, NoneAssumption DEF Settle, device, duck, monitors, Serving,
         Pushing, Task, Done
    <2> QED
      BY <1>0, <2>s, <2>1, <2>2, <2>3, <2>4, <2>5 DEF TypeOK, QueueTypes
  <1>19. ASSUME DuckNothing PROVE TypeOK' /\ Serving'
    <2>1. TableTypes'
      BY <1>19, <1>0 DEF DuckNothing, device, duck, monitors, table, TableTypes
    <2>r. queue # <<>>
      BY <1>19 DEF DuckNothing, AtHead, Serving
    <2>s. QueueTypes'
      BY <1>19, <1>0, <1>d, <2>r DEF DuckNothing, Done, QueueTypes
    <2>2. WorkerTypes'
      BY <1>19, <1>0, <2>s DEF DuckNothing, device, duck, monitors, table, WorkerTypes,
         Done
    <2>3. MonitorTypes'
      BY <1>19, <1>0 DEF DuckNothing, device, duck, monitors, table, MonitorTypes
    <2>4. DeviceTypes'
      BY <1>19, <1>0 DEF DuckNothing, device, duck, monitors, table, DeviceTypes
    <2>5. Serving'
      BY <1>19, <1>0, <2>s, NoneAssumption DEF DuckNothing, device, duck, monitors,
         table, Serving, Pushing, Task, Done, AtHead
    <2> QED
      BY <1>0, <2>s, <2>1, <2>2, <2>3, <2>4, <2>5 DEF TypeOK, QueueTypes
  <1>20. ASSUME DuckDevice PROVE TypeOK' /\ Serving'
    <2>1. TableTypes'
      BY <1>20, <1>0 DEF DuckDevice, device, duck, monitors, table, TableTypes
    <2>r. queue # <<>>
      BY <1>20 DEF DuckDevice, AtHead, Serving
    <2>s. QueueTypes'
      BY <1>20, <1>0, <1>d, <2>r DEF DuckDevice, Done, QueueTypes
    <2>2. WorkerTypes'
      BY <1>20, <1>0, <2>s, <1>t DEF DuckDevice, device, duck, monitors, table,
         WorkerTypes, Done, DeviceTypes
    <2>3. MonitorTypes'
      BY <1>20, <1>0 DEF DuckDevice, device, duck, monitors, table, MonitorTypes
    <2>4. DeviceTypes'
      BY <1>20, <1>0 DEF DuckDevice, device, duck, monitors, table, DeviceTypes
    <2>5. Serving'
      BY <1>20, <1>0, <2>s, NoneAssumption DEF DuckDevice, device, duck, monitors,
         table, Serving, Pushing, Task, Done, AtHead
    <2> QED
      BY <1>0, <2>s, <2>1, <2>2, <2>3, <2>4, <2>5 DEF TypeOK, QueueTypes
  <1>21. ASSUME DuckDepart PROVE TypeOK' /\ Serving'
    <2>1. TableTypes'
      BY <1>21, <1>0 DEF DuckDepart, duck, monitors, table, TableTypes
    <2>s. queue' = queue
      BY <1>21 DEF DuckDepart, duck, monitors, table
    <2>l. rt.obj \in Objects
      BY <1>21, <1>0 DEF DuckDepart, Arrived, MonitorTypes, RuntimeType
    <2>2. WorkerTypes'
      BY <1>21, <1>0, <2>l DEF DuckDepart, WorkerTypes
    <2>3. MonitorTypes'
      BY <1>21, <1>0 DEF DuckDepart, duck, monitors, table, MonitorTypes
    <2>4. DeviceTypes'
      BY <1>21, <1>0 DEF DuckDepart, duck, monitors, table, DeviceTypes
    <2>5. Serving'
      BY <1>21, <1>0, <2>s, NoneAssumption DEF DuckDepart, duck, monitors, table,
         Serving, Pushing, Task, AtHead, MonitorTypes, RuntimeType, Arrived
    <2> QED
      BY <1>0, <2>s, <2>1, <2>2, <2>3, <2>4, <2>5 DEF TypeOK, QueueTypes
  <1>22. ASSUME Park PROVE TypeOK' /\ Serving'
    <2>e. Expire \/ UNCHANGED <<mon, fresh>>
      BY <1>22 DEF Park, Forget
    <2>1. TableTypes'
      BY <1>22, <1>0, <2>e, Expired DEF Park, TableTypes
    <2>r. queue # <<>>
      BY <1>22 DEF Park, AtHead, Serving
    <2>s. QueueTypes'
      BY <1>22, <1>0, <1>d, <2>r DEF Park, Done, QueueTypes
    <2>2. WorkerTypes'
      BY <1>22, <1>0, <2>s, <1>t, <2>e, Expired DEF Park, device, WorkerTypes,
         RuntimeType, Done, MonitorTypes, DeviceTypes
    <2>3. MonitorTypes'
      BY <1>22, <1>0, <1>t DEF Park, device, MonitorTypes, RuntimeType, PlugLists,
         WorkerTypes, Serving, Forget, Pushing
    <2>4. DeviceTypes'
      BY <1>22, <1>0 DEF Park, device, DeviceTypes
    <2>5. Serving'
      BY <1>22, <1>0, <2>s, NoneAssumption DEF Park, device, Serving, Pushing, Task,
         Done
    <2> QED
      BY <1>0, <2>s, <2>1, <2>2, <2>3, <2>4, <2>5 DEF TypeOK, QueueTypes
  <1>23. ASSUME ArmDuck PROVE TypeOK' /\ Serving'
    <2>1. TableTypes'
      BY <1>23, <1>0 DEF ArmDuck, device, duck, locals, monitors, table, TableTypes
    <2>q. PICK e \in EffectType : e = Duck(epoch)
      BY <1>23, <1>0, SupersetsAssumption DEF ArmDuck, device, duck, locals, monitors,
         table, Duck, EffectType, DeviceTypes
    <2>r. queue' = Append(queue, e) /\ wpc' = wpc
      BY <1>23, <2>q DEF ArmDuck
    <2>s. QueueTypes' /\ queue' # <<>> /\ (queue # <<>> => Task' = Task)
      BY <1>a, <2>r
    <2>2. WorkerTypes'
      BY <1>23, <1>0, <2>s DEF ArmDuck, device, duck, locals, monitors, table,
         WorkerTypes, DeviceTypes
    <2>3. MonitorTypes'
      BY <1>23, <1>0 DEF ArmDuck, device, duck, locals, monitors, table, MonitorTypes
    <2>4. DeviceTypes'
      BY <1>23, <1>0 DEF ArmDuck, device, duck, locals, monitors, table, DeviceTypes
    <2>5. Serving'
      BY <1>23, <1>0, <2>r, <2>s DEF ArmDuck, device, duck, locals, monitors, table,
         Serving, Pushing, Task
    <2> QED
      BY <1>0, <2>s, <2>1, <2>2, <2>3, <2>4, <2>5 DEF TypeOK, QueueTypes
  <1>24. ASSUME PollerReplugs PROVE TypeOK' /\ Serving'
    <2>1. TableTypes'
      BY <1>24, <1>0 DEF PollerReplugs, device, locals, monitors, table, TableTypes
    <2>q. PICK e \in EffectType : e = Replug(poller)
      BY <1>24, <1>0, SupersetsAssumption DEF PollerReplugs, device, locals, monitors,
         table, Replug, EffectType, DeviceTypes
    <2>r. queue' = Append(queue, e) /\ wpc' = wpc
      BY <1>24, <2>q DEF PollerReplugs
    <2>s. QueueTypes' /\ queue' # <<>> /\ (queue # <<>> => Task' = Task)
      BY <1>a, <2>r
    <2>2. WorkerTypes'
      BY <1>24, <1>0, <2>s DEF PollerReplugs, device, locals, monitors, table,
         WorkerTypes, DeviceTypes
    <2>3. MonitorTypes'
      BY <1>24, <1>0 DEF PollerReplugs, device, locals, monitors, table, MonitorTypes
    <2>4. DeviceTypes'
      BY <1>24, <1>0 DEF PollerReplugs, device, locals, monitors, table, DeviceTypes
    <2>5. Serving'
      BY <1>24, <1>0, <2>r, <2>s DEF PollerReplugs, device, locals, monitors, table,
         Serving, Pushing, Task
    <2> QED
      BY <1>0, <2>s, <2>1, <2>2, <2>3, <2>4, <2>5 DEF TypeOK, QueueTypes
  <1>25. ASSUME PollerEnds PROVE TypeOK' /\ Serving'
    <2>1. TableTypes'
      BY <1>25, <1>0 DEF PollerEnds, device, locals, table, worker, TableTypes
    <2>s. queue' = queue
      BY <1>25 DEF PollerEnds, device, locals, table, worker
    <2>2. WorkerTypes'
      BY <1>25, <1>0, <2>s DEF PollerEnds, device, locals, table, worker, WorkerTypes
    <2>3. MonitorTypes'
      BY <1>25, <1>0 DEF PollerEnds, device, locals, table, worker, MonitorTypes,
         PlugLists, RuntimeType, Serving, Pushing
    <2>4. DeviceTypes'
      BY <1>25, <1>0 DEF PollerEnds, device, locals, table, worker, DeviceTypes
    <2>5. Serving'
      BY <1>25, <1>0, <2>s, NoneAssumption DEF PollerEnds, device, locals, table,
         worker, Serving, Pushing, Task
    <2> QED
      BY <1>0, <2>s, <2>1, <2>2, <2>3, <2>4, <2>5 DEF TypeOK, QueueTypes
  <1>26. ASSUME NEW m \in Modes \cup {None}, Commit(m) PROVE TypeOK' /\ Serving'
    <2>e. Expire \/ UNCHANGED <<mon, fresh>>
      BY <1>26 DEF Commit, Forget
    <2>1. TableTypes'
      BY <1>26, <1>0, <2>e, Expired DEF Commit, TableTypes
    <2>s. queue' = queue
      BY <1>26 DEF Commit, device, duck
    <2>2. WorkerTypes'
      BY <1>26, <1>0, <2>s, <2>e, Expired DEF Commit, device, duck, WorkerTypes,
         RuntimeType
    <2>3. MonitorTypes'
      BY <1>26, <1>0 DEF Commit, device, duck, MonitorTypes
    <2>4. DeviceTypes'
      BY <1>26, <1>0 DEF Commit, device, duck, DeviceTypes
    <2>5. Serving'
      BY <1>26, <1>0, <2>s, NoneAssumption DEF Commit, device, duck, Serving, Pushing,
         Task
    <2> QED
      BY <1>0, <2>s, <2>1, <2>2, <2>3, <2>4, <2>5 DEF TypeOK, QueueTypes
  <1>27. ASSUME ClearAdapter PROVE TypeOK' /\ Serving'
    <2>1. TableTypes'
      BY <1>27, <1>0 DEF ClearAdapter, duck, locals, monitors, table, worker, TableTypes
    <2>s. queue' = queue
      BY <1>27 DEF ClearAdapter, duck, locals, monitors, table, worker
    <2>2. WorkerTypes'
      BY <1>27, <1>0, <2>s DEF ClearAdapter, duck, locals, monitors, table, worker,
         WorkerTypes, DeviceTypes
    <2>3. MonitorTypes'
      BY <1>27, <1>0 DEF ClearAdapter, duck, locals, monitors, table, worker,
         MonitorTypes
    <2>4. DeviceTypes'
      <3>1. epoch' \in Nat /\ pnp' = "cleared" /\ adapter' = FALSE
        BY <1>27, <1>0 DEF ClearAdapter, DeviceTypes
      <3>2. UNCHANGED <<latch, poller, ducks, timedOut, alive>>
        BY <1>27 DEF ClearAdapter, duck
      <3> QED
        BY <1>0, <3>1, <3>2 DEF DeviceTypes
    <2>5. Serving'
      BY <1>27, <1>0, <2>s, NoneAssumption DEF ClearAdapter, duck, locals, monitors,
         table, worker, Serving, Pushing, Task
    <2> QED
      BY <1>0, <2>s, <2>1, <2>2, <2>3, <2>4, <2>5 DEF TypeOK, QueueTypes
  <1>28. ASSUME DrainPushes PROVE TypeOK' /\ Serving'
    <2>1. TableTypes'
      BY <1>28, <1>0 DEF DrainPushes, duck, locals, monitors, table, worker, TableTypes
    <2>s. queue' = queue
      BY <1>28 DEF DrainPushes, duck, locals, monitors, table, worker
    <2>2. WorkerTypes'
      BY <1>28, <1>0, <2>s DEF DrainPushes, duck, locals, monitors, table, worker,
         WorkerTypes, DeviceTypes
    <2>3. MonitorTypes'
      BY <1>28, <1>0 DEF DrainPushes, duck, locals, monitors, table, worker,
         MonitorTypes
    <2>4. DeviceTypes'
      BY <1>28, <1>0 DEF DrainPushes, duck, locals, monitors, table, worker, DeviceTypes
    <2>5. Serving'
      BY <1>28, <1>0, <2>s, NoneAssumption DEF DrainPushes, duck, locals, monitors,
         table, worker, Serving, Pushing, Task
    <2> QED
      BY <1>0, <2>s, <2>1, <2>2, <2>3, <2>4, <2>5 DEF TypeOK, QueueTypes
  <1>29. ASSUME DrainTimesOut PROVE TypeOK' /\ Serving'
    <2>1. TableTypes'
      BY <1>29, <1>0 DEF DrainTimesOut, duck, locals, monitors, table, worker,
         TableTypes
    <2>s. queue' = queue
      BY <1>29 DEF DrainTimesOut, duck, locals, monitors, table, worker
    <2>2. WorkerTypes'
      BY <1>29, <1>0, <2>s DEF DrainTimesOut, duck, locals, monitors, table, worker,
         WorkerTypes, DeviceTypes
    <2>3. MonitorTypes'
      BY <1>29, <1>0 DEF DrainTimesOut, duck, locals, monitors, table, worker,
         MonitorTypes
    <2>4. DeviceTypes'
      BY <1>29, <1>0 DEF DrainTimesOut, duck, locals, monitors, table, worker,
         DeviceTypes
    <2>5. Serving'
      BY <1>29, <1>0, <2>s, NoneAssumption DEF DrainTimesOut, duck, locals, monitors,
         table, worker, Serving, Pushing, Task
    <2> QED
      BY <1>0, <2>s, <2>1, <2>2, <2>3, <2>4, <2>5 DEF TypeOK, QueueTypes
  <1>30. ASSUME ForgetAll PROVE TypeOK' /\ Serving'
    <2>e. Expire \/ UNCHANGED <<mon, fresh>>
      BY <1>30 DEF ForgetAll, Forget
    <2>1. TableTypes'
      BY <1>30, <1>0, <2>e, Expired DEF ForgetAll, TableTypes
    <2>s. queue' = queue
      BY <1>30 DEF ForgetAll, duck
    <2>2. WorkerTypes'
      BY <1>30, <1>0, <2>s, <2>e, Expired DEF ForgetAll, duck, WorkerTypes, DeviceTypes
    <2>3. MonitorTypes'
      BY <1>30, <1>0 DEF ForgetAll, duck, MonitorTypes
    <2>4. DeviceTypes'
      BY <1>30, <1>0 DEF ForgetAll, duck, DeviceTypes
    <2>5. Serving'
      BY <1>30, <1>0, <2>s, NoneAssumption DEF ForgetAll, duck, Serving, Pushing, Task
    <2> QED
      BY <1>0, <2>s, <2>1, <2>2, <2>3, <2>4, <2>5 DEF TypeOK, QueueTypes
  <1>31. ASSUME DrainMonitors PROVE TypeOK' /\ Serving'
    <2>1. TableTypes'
      BY <1>31, <1>0 DEF DrainMonitors, duck, locals, table, worker, TableTypes
    <2>s. queue' = queue
      BY <1>31 DEF DrainMonitors, duck, locals, table, worker
    <2>2. WorkerTypes'
      BY <1>31, <1>0, <2>s DEF DrainMonitors, duck, locals, table, worker, WorkerTypes,
         DeviceTypes
    <2>3. MonitorTypes'
      BY <1>31, <1>0 DEF DrainMonitors, duck, locals, table, worker, MonitorTypes,
         RuntimeType, PlugLists, WorkerTypes, Serving, Pushing
    <2>4. DeviceTypes'
      BY <1>31, <1>0 DEF DrainMonitors, duck, locals, table, worker, DeviceTypes
    <2>5. Serving'
      BY <1>31, <1>0, <2>s, NoneAssumption DEF DrainMonitors, duck, locals, table,
         worker, Serving, Pushing, Task
    <2> QED
      BY <1>0, <2>s, <2>1, <2>2, <2>3, <2>4, <2>5 DEF TypeOK, QueueTypes
  <1>32. ASSUME DrainParked PROVE TypeOK' /\ Serving'
    <2>1. TableTypes'
      BY <1>32, <1>0 DEF DrainParked, duck, locals, table, worker, TableTypes
    <2>s. queue' = queue
      BY <1>32 DEF DrainParked, duck, locals, table, worker
    <2>2. WorkerTypes'
      BY <1>32, <1>0, <2>s DEF DrainParked, duck, locals, table, worker, WorkerTypes,
         DeviceTypes
    <2>3. MonitorTypes'
      BY <1>32, <1>0 DEF DrainParked, duck, locals, table, worker, MonitorTypes,
         PlugLists, RuntimeType, Serving, Pushing
    <2>4. DeviceTypes'
      BY <1>32, <1>0 DEF DrainParked, duck, locals, table, worker, DeviceTypes
    <2>5. Serving'
      BY <1>32, <1>0, <2>s, NoneAssumption DEF DrainParked, duck, locals, table, worker,
         Serving, Pushing, Task
    <2> QED
      BY <1>0, <2>s, <2>1, <2>2, <2>3, <2>4, <2>5 DEF TypeOK, QueueTypes
  <1>33. ASSUME TeardownReset PROVE TypeOK' /\ Serving'
    <2>1. TableTypes'
      BY <1>33, <1>0 DEF TeardownReset, duck, locals, monitors, worker, TableTypes,
         SessionType, PendingType, BlockedType
    <2>s. queue' = queue
      BY <1>33 DEF TeardownReset, duck, locals, monitors, worker
    <2>2. WorkerTypes'
      BY <1>33, <1>0, <2>s DEF TeardownReset, duck, locals, monitors, worker,
         WorkerTypes, DeviceTypes
    <2>3. MonitorTypes'
      BY <1>33, <1>0 DEF TeardownReset, duck, locals, monitors, worker, MonitorTypes
    <2>4. DeviceTypes'
      BY <1>33, <1>0 DEF TeardownReset, duck, locals, monitors, worker, DeviceTypes
    <2>5. Serving'
      BY <1>33, <1>0, <2>s, NoneAssumption DEF TeardownReset, duck, locals, monitors,
         worker, Serving, Pushing, Task
    <2> QED
      BY <1>0, <2>s, <2>1, <2>2, <2>3, <2>4, <2>5 DEF TypeOK, QueueTypes
  <1>34. ASSUME DestroyAdapter PROVE TypeOK' /\ Serving'
    <2>1. TableTypes'
      BY <1>34, <1>0 DEF DestroyAdapter, duck, locals, monitors, table, worker,
         TableTypes
    <2>s. queue' = queue
      BY <1>34 DEF DestroyAdapter, duck, locals, monitors, table, worker
    <2>2. WorkerTypes'
      BY <1>34, <1>0, <2>s DEF DestroyAdapter, duck, locals, monitors, table, worker,
         WorkerTypes, DeviceTypes
    <2>3. MonitorTypes'
      BY <1>34, <1>0 DEF DestroyAdapter, duck, locals, monitors, table, worker,
         MonitorTypes
    <2>4. DeviceTypes'
      BY <1>34, <1>0 DEF DestroyAdapter, duck, locals, monitors, table, worker,
         DeviceTypes
    <2>5. Serving'
      BY <1>34, <1>0, <2>s, NoneAssumption DEF DestroyAdapter, duck, locals, monitors,
         table, worker, Serving, Pushing, Task
    <2> QED
      BY <1>0, <2>s, <2>1, <2>2, <2>3, <2>4, <2>5 DEF TypeOK, QueueTypes
  <1>35. ASSUME BringUp PROVE TypeOK' /\ Serving'
    <2>1. TableTypes'
      BY <1>35, <1>0 DEF BringUp, duck, locals, monitors, table, worker, TableTypes
    <2>s. queue' = queue
      BY <1>35 DEF BringUp, duck, locals, monitors, table, worker
    <2>2. WorkerTypes'
      BY <1>35, <1>0, <2>s DEF BringUp, duck, locals, monitors, table, worker,
         WorkerTypes, DeviceTypes
    <2>3. MonitorTypes'
      BY <1>35, <1>0 DEF BringUp, duck, locals, monitors, table, worker, MonitorTypes
    <2>4. DeviceTypes'
      BY <1>35, <1>0 DEF BringUp, duck, locals, monitors, table, worker, DeviceTypes
    <2>5. Serving'
      BY <1>35, <1>0, <2>s, NoneAssumption DEF BringUp, duck, locals, monitors, table,
         worker, Serving, Pushing, Task
    <2> QED
      BY <1>0, <2>s, <2>1, <2>2, <2>3, <2>4, <2>5 DEF TypeOK, QueueTypes
  <1>36. CASE UNCHANGED vars
    BY <1>36, <1>0 DEF vars, table, worker, locals, monitors, duck, device, TypeOK,
       TableTypes, QueueTypes, WorkerTypes, MonitorTypes, DeviceTypes, Serving, Task
  <1> QED
    <2>h. CASE Host
      BY <1>1, <1>2, <1>3, <2>h DEF Host
    <2>w. CASE Worker
      BY <1>4, <1>5, <1>6, <1>7, <1>8, <1>9, <1>10, <1>11, <1>12, <1>13, <1>14, <1>15,
         <1>16, <1>17, <1>18, <1>19, <1>20, <1>21, <1>22, <2>w DEF Worker, CreateMonitor,
         Push
    <2>e. CASE Exit
      BY <1>27, <1>28, <1>29, <1>30, <1>31, <1>32, <1>33, <1>34, <1>35, <2>e DEF Exit
    <2> QED
      BY <1>23, <1>24, <1>25, <1>26, <1>36, <2>h, <2>w, <2>e DEF Next

-----------------------------------------------------------------------------
(* The push and the exit.                                                   *)
LEMMA MarkedInit == Init => PushMarked
  BY DEF Init, PushMarked, Pushing

LEMMA MarkedStep == PushMarked /\ [Next]_vars => PushMarked'
  <1> SUFFICES ASSUME PushMarked, [Next]_vars PROVE PushMarked'
    OBVIOUS
  <1> USE DEF PushMarked, Pushing
  <1>1. ASSUME NEW l \in Supersets, HostCreate(l) PROVE PushMarked'
    BY <1>1 DEF HostCreate, MayDispatch, device, duck, locals, monitors
  <1>2. ASSUME HostDestroy PROVE PushMarked'
    BY <1>2 DEF HostDestroy, MayDispatch, device, duck, locals, monitors
  <1>3. ASSUME NEW l \in Lists, HostUpdate(l) PROVE PushMarked'
    BY <1>3 DEF HostUpdate, MayDispatch, device, duck, locals, monitors
  <1>4. ASSUME StartPlug PROVE PushMarked'
    BY <1>4 DEF StartPlug, AtHead, Done, device, duck, table
  <1>5. ASSUME StartReplug PROVE PushMarked'
    BY <1>5 DEF StartReplug, AtHead, Done, device, table
  <1>6. ASSUME CreateFails PROVE PushMarked'
    BY <1>6 DEF CreateFails, Done, device, monitors, table
  <1>7. ASSUME NEW o \in Objects, Arrive(o) PROVE PushMarked'
    BY <1>7 DEF Arrive, Done
  <1>8. ASSUME NEW o \in Objects, ArrivalFails(o) PROVE PushMarked'
    BY <1>8 DEF ArrivalFails, Done, device
  <1>9. ASSUME StartUnplug PROVE PushMarked'
    BY <1>9 DEF StartUnplug, AtHead, Done, device, duck
  <1>10. ASSUME Depart PROVE PushMarked'
    BY <1>10 DEF Depart, Done, duck, table
  <1>11. ASSUME StartPush PROVE PushMarked'
    BY <1>11 DEF StartPush, AtHead, Settling, device, duck, table
  <1>12. ASSUME ReadAdapter PROVE PushMarked'
    BY <1>12 DEF ReadAdapter, Settling, device, duck, monitors, table
  <1>13. ASSUME Refuse PROVE PushMarked'
    BY <1>13 DEF Refuse, Settling, device, duck, monitors, table
  <1>14. ASSUME Publish PROVE PushMarked'
    BY <1>14 DEF Publish, device, duck, table
  <1>15. ASSUME CheckEpoch PROVE PushMarked'
    BY <1>15 DEF CheckEpoch, Settling, device, duck, table
  <1>16. ASSUME OSAccepts PROVE PushMarked'
    BY <1>16 DEF OSAccepts, Settling, device, duck, monitors, table
  <1>17. ASSUME OSRefuses PROVE PushMarked'
    BY <1>17 DEF OSRefuses, Settling, device, duck, table
  <1>18. ASSUME Settle PROVE PushMarked'
    BY <1>18 DEF Settle, Done, device, duck, monitors
  <1>19. ASSUME DuckNothing PROVE PushMarked'
    BY <1>19 DEF DuckNothing, AtHead, Done, device, duck, monitors, table
  <1>20. ASSUME DuckDevice PROVE PushMarked'
    BY <1>20 DEF DuckDevice, AtHead, Done, device, duck, monitors, table
  <1>21. ASSUME DuckDepart PROVE PushMarked'
    BY <1>21 DEF DuckDepart, AtHead, duck, monitors, table
  <1>22. ASSUME Park PROVE PushMarked'
    BY <1>22 DEF Park, Done, device
  <1>23. ASSUME ArmDuck PROVE PushMarked'
    BY <1>23 DEF ArmDuck, device, duck, locals, monitors, table
  <1>24. ASSUME PollerReplugs PROVE PushMarked'
    BY <1>24 DEF PollerReplugs, device, locals, monitors, table
  <1>25. ASSUME PollerEnds PROVE PushMarked'
    BY <1>25 DEF PollerEnds, device, locals, table, worker
  <1>26. ASSUME NEW m \in Modes \cup {None}, Commit(m) PROVE PushMarked'
    BY <1>26 DEF Commit, device, duck
  <1>27. ASSUME ClearAdapter PROVE PushMarked'
    BY <1>27 DEF ClearAdapter, duck, locals, monitors, table, worker
  <1>28. ASSUME DrainPushes PROVE PushMarked'
    BY <1>28 DEF DrainPushes, NoPush, duck, locals, monitors, table, worker
  <1>29. ASSUME DrainTimesOut PROVE PushMarked'
    BY <1>29 DEF DrainTimesOut, duck, locals, monitors, table, worker
  <1>30. ASSUME ForgetAll PROVE PushMarked'
    BY <1>30 DEF ForgetAll, duck
  <1>31. ASSUME DrainMonitors PROVE PushMarked'
    BY <1>31 DEF DrainMonitors, duck, locals, table, worker
  <1>32. ASSUME DrainParked PROVE PushMarked'
    BY <1>32 DEF DrainParked, duck, locals, table, worker
  <1>33. ASSUME TeardownReset PROVE PushMarked'
    BY <1>33 DEF TeardownReset, duck, locals, monitors, worker
  <1>34. ASSUME DestroyAdapter PROVE PushMarked'
    BY <1>34 DEF DestroyAdapter, duck, locals, monitors, table, worker
  <1>35. ASSUME BringUp PROVE PushMarked'
    BY <1>35 DEF BringUp, duck, locals, monitors, table, worker
  <1>36. CASE UNCHANGED vars
    BY <1>36 DEF vars, worker, device
  <1> QED
    <2>h. CASE Host
      BY <1>1, <1>2, <1>3, <2>h DEF Host
    <2>w. CASE Worker
      BY <1>4, <1>5, <1>6, <1>7, <1>8, <1>9, <1>10, <1>11, <1>12, <1>13, <1>14, <1>15,
         <1>16, <1>17, <1>18, <1>19, <1>20, <1>21, <1>22, <2>w DEF Worker, CreateMonitor,
         Push
    <2>e. CASE Exit
      BY <1>27, <1>28, <1>29, <1>30, <1>31, <1>32, <1>33, <1>34, <1>35, <2>e DEF Exit
    <2> QED
      BY <1>23, <1>24, <1>25, <1>26, <1>36, <2>h, <2>w, <2>e DEF Next

(* While the OS is in the call of a push, nothing destroys the monitor it   *)
(* was called on, unless the exit stopped waiting.                          *)
LEMMA KeptInCall ==
  ASSUME PushMarked, [Next]_vars, wpc = "call", obj \in alive, ~ timedOut
  PROVE  obj \in alive'
  <1>1. ASSUME NEW l \in Supersets, HostCreate(l) PROVE obj \in alive'
    BY <1>1 DEF HostCreate, device, duck, locals, monitors
  <1>2. ASSUME HostDestroy PROVE obj \in alive'
    BY <1>2 DEF HostDestroy, device, duck, locals, monitors
  <1>3. ASSUME NEW l \in Lists, HostUpdate(l) PROVE obj \in alive'
    BY <1>3 DEF HostUpdate, device, duck, locals, monitors
  <1>4. ASSUME StartPlug PROVE obj \in alive'
    BY <1>4 DEF StartPlug, device, duck, table
  <1>5. ASSUME StartReplug PROVE obj \in alive'
    BY <1>5 DEF StartReplug, device, table
  <1>6. ASSUME CreateFails PROVE obj \in alive'
    BY <1>6 DEF CreateFails, device, monitors, table
  <1>7. ASSUME NEW o \in Objects, Arrive(o) PROVE obj \in alive'
    BY <1>7 DEF Arrive
  <1>8. ASSUME NEW o \in Objects, ArrivalFails(o) PROVE obj \in alive'
    BY <1>8 DEF ArrivalFails, device
  <1>9. ASSUME StartUnplug PROVE obj \in alive'
    BY <1>9 DEF StartUnplug, device, duck
  <1>10. ASSUME Depart PROVE obj \in alive'
    BY <1>10 DEF Depart, AtHead
  <1>11. ASSUME StartPush PROVE obj \in alive'
    BY <1>11 DEF StartPush, device, duck, table
  <1>12. ASSUME ReadAdapter PROVE obj \in alive'
    BY <1>12 DEF ReadAdapter, device, duck, monitors, table
  <1>13. ASSUME Refuse PROVE obj \in alive'
    BY <1>13 DEF Refuse, device, duck, monitors, table
  <1>14. ASSUME Publish PROVE obj \in alive'
    BY <1>14 DEF Publish, device, duck, table
  <1>15. ASSUME CheckEpoch PROVE obj \in alive'
    BY <1>15 DEF CheckEpoch, device, duck, table
  <1>16. ASSUME OSAccepts PROVE obj \in alive'
    BY <1>16 DEF OSAccepts, device, duck, monitors, table
  <1>17. ASSUME OSRefuses PROVE obj \in alive'
    BY <1>17 DEF OSRefuses, device, duck, table
  <1>18. ASSUME Settle PROVE obj \in alive'
    BY <1>18 DEF Settle, device, duck, monitors
  <1>19. ASSUME DuckNothing PROVE obj \in alive'
    BY <1>19 DEF DuckNothing, device, duck, monitors, table
  <1>20. ASSUME DuckDevice PROVE obj \in alive'
    BY <1>20 DEF DuckDevice, device, duck, monitors, table
  <1>21. ASSUME DuckDepart PROVE obj \in alive'
    BY <1>21 DEF DuckDepart, AtHead
  <1>22. ASSUME Park PROVE obj \in alive'
    BY <1>22 DEF Park, device
  <1>23. ASSUME ArmDuck PROVE obj \in alive'
    BY <1>23 DEF ArmDuck, device, duck, locals, monitors, table
  <1>24. ASSUME PollerReplugs PROVE obj \in alive'
    BY <1>24 DEF PollerReplugs, device, locals, monitors, table
  <1>25. ASSUME PollerEnds PROVE obj \in alive'
    BY <1>25 DEF PollerEnds, device, locals, table, worker
  <1>26. ASSUME NEW m \in Modes \cup {None}, Commit(m) PROVE obj \in alive'
    BY <1>26 DEF Commit, device, duck
  <1>27. ASSUME ClearAdapter PROVE obj \in alive'
    BY <1>27 DEF ClearAdapter, duck, locals, monitors, table, worker
  <1>28. ASSUME DrainPushes PROVE obj \in alive'
    BY <1>28 DEF DrainPushes, duck, locals, monitors, table, worker
  <1>29. ASSUME DrainTimesOut PROVE obj \in alive'
    BY <1>29 DEF DrainTimesOut, duck, locals, monitors, table, worker
  <1>30. ASSUME ForgetAll PROVE obj \in alive'
    BY <1>30 DEF ForgetAll, duck
  <1>31. ASSUME DrainMonitors PROVE obj \in alive'
    BY <1>31 DEF DrainMonitors, duck, locals, table, worker
  <1>32. ASSUME DrainParked PROVE obj \in alive'
    BY <1>32 DEF DrainParked, duck, locals, table, worker
  <1>33. ASSUME TeardownReset PROVE obj \in alive'
    BY <1>33 DEF TeardownReset, duck, locals, monitors, worker
  <1>34. ASSUME DestroyAdapter PROVE obj \in alive'
    BY <1>34 DEF DestroyAdapter, PushMarked, Pushing
  <1>35. ASSUME BringUp PROVE obj \in alive'
    BY <1>35 DEF BringUp, duck, locals, monitors, table, worker
  <1>36. CASE UNCHANGED vars
    BY <1>36 DEF vars, device
  <1> QED
    <2>h. CASE Host
      BY <1>1, <1>2, <1>3, <2>h DEF Host
    <2>w. CASE Worker
      BY <1>4, <1>5, <1>6, <1>7, <1>8, <1>9, <1>10, <1>11, <1>12, <1>13, <1>14, <1>15,
         <1>16, <1>17, <1>18, <1>19, <1>20, <1>21, <1>22, <2>w DEF Worker, CreateMonitor,
         Push
    <2>e. CASE Exit
      BY <1>27, <1>28, <1>29, <1>30, <1>31, <1>32, <1>33, <1>34, <1>35, <2>e DEF Exit
    <2> QED
      BY <1>23, <1>24, <1>25, <1>26, <1>36, <2>h, <2>w, <2>e DEF Next

-----------------------------------------------------------------------------
(* What a monitor offers.                                                   *)
LEMMA Repatched ==
  ASSUME NEW r \in PlugLists, NEW l \in Lists
  PROVE  /\ [r EXCEPT !.targets = l] \in PlugLists /\ [r EXCEPT !.targets = l] # None
         /\ [r EXCEPT !.targets = l].superset = r.superset
         /\ [r EXCEPT !.targets = l].targets = l
  <1>1. [r EXCEPT !.targets = l] \in PlugLists
    BY DEF PlugLists
  <1> QED
    BY <1>1, NoneAssumption DEF PlugLists

LEMMA OfferedInit == Init => MonitorsOffered /\ PlugsOffered
  <1> SUFFICES ASSUME Init PROVE MonitorsOffered /\ PlugsOffered
    OBVIOUS
  <1>1. queue = <<>> /\ DOMAIN <<>> = {}
    BY EmptySeq DEF Init
  <1> QED
    BY <1>1 DEF Init, MonitorsOffered, PlugsOffered

LEMMA OfferedStep ==
  TypeOK /\ Serving /\ MonitorsOffered /\ PlugsOffered /\ [Next]_vars
    => MonitorsOffered' /\ PlugsOffered'
  <1> SUFFICES ASSUME TypeOK, Serving, MonitorsOffered, PlugsOffered, [Next]_vars
               PROVE  MonitorsOffered' /\ PlugsOffered'
    OBVIOUS
  <1>0. TableTypes /\ QueueTypes /\ WorkerTypes /\ MonitorTypes /\ DeviceTypes
    BY DEF TypeOK
  <1>t. ASSUME queue # <<>>
        PROVE  /\ Task.op = "update" => Task.targets \in Lists
               /\ Task.op = "plug" => Offers(Task)
    <2>1. Task \in EffectType /\ \E i \in DOMAIN queue : Task = queue[i]
      BY <1>0, <1>t, Served DEF QueueTypes, Task
    <2> QED
      BY <2>1 DEF EffectType, PlugsOffered
  <1>a. ASSUME NEW e \in EffectType, queue' = Append(queue, e), e.op = "plug" => Offers(e)
        PROVE  PlugsOffered'
    <2> DEFINE q == Append(queue, e)
    <2>1. \A i \in DOMAIN q : q[i] = e \/ \E j \in DOMAIN queue : q[i] = queue[j]
      BY <1>0, Appended DEF QueueTypes
    <2> HIDE DEF q
    <2>2. \A i \in DOMAIN q : q[i].op = "plug" => Offers(q[i])
      BY <1>a, <2>1 DEF PlugsOffered
    <2>3. queue' = q
      BY <1>a DEF q
    <2> QED
      BY <2>2, <2>3 DEF PlugsOffered, Offers
  <1>d. ASSUME queue # <<>>, queue' = Tail(queue) PROVE PlugsOffered'
    <2> DEFINE q == Tail(queue)
    <2>1. \A i \in DOMAIN q : \E j \in DOMAIN queue : q[i] = queue[j]
      BY <1>0, <1>d, Served DEF QueueTypes
    <2> HIDE DEF q
    <2>2. \A i \in DOMAIN q : q[i].op = "plug" => Offers(q[i])
      BY <2>1 DEF PlugsOffered
    <2>3. queue' = q
      BY <1>d DEF q
    <2> QED
      BY <2>2, <2>3 DEF PlugsOffered, Offers
  <1>u. ASSUME queue' = queue PROVE PlugsOffered'
    BY <1>u DEF PlugsOffered, Offers
  (* Undoing a publication leaves a monitor what it offered before.         *)
  <1>r. ASSUME Restore, wpc \in {"epoch", "call"}
        PROVE  rt' # None => Offers(rt')
    <2>1. CASE rt' = rt
      BY <2>1 DEF MonitorsOffered, Offers
    <2>2. CASE rt # None /\ rt.obj = obj /\ rt' = [rt EXCEPT !.targets = lists.targets]
      <3>1. lists \in PlugLists /\ rt \in RuntimeType /\ Offers(lists)
            /\ rt.superset = lists.superset
        BY <1>0, <1>r, <2>2 DEF Serving, WorkerTypes, MonitorTypes, MonitorsOffered
      <3>2. rt'.superset = rt.superset /\ rt'.targets = lists.targets
        BY <2>2, <3>1, Patched DEF PlugLists
      <3> QED
        BY <3>1, <3>2 DEF Offers
    <2> QED
      BY <1>r, <2>1, <2>2 DEF Restore
  <1>1. ASSUME NEW l \in Supersets, HostCreate(l) PROVE MonitorsOffered' /\ PlugsOffered'
    <2>q. PICK e \in EffectType : e = Plug(l, l)
      BY <1>1, <1>0, SupersetsAssumption DEF HostCreate, device, duck, locals, monitors,
         Plug, EffectType, DeviceTypes
    <2>r. queue' = Append(queue, e) /\ (e.op = "plug" => Offers(e))
      BY <1>1, <2>q DEF HostCreate, Offers, Plug
    <2>s. PlugsOffered'
      BY <1>a, <2>r
    <2>1. MonitorsOffered'
      BY <1>1 DEF HostCreate, device, duck, locals, monitors, MonitorsOffered, Offers
    <2> QED
      BY <2>s, <2>1
  <1>2. ASSUME HostDestroy PROVE MonitorsOffered' /\ PlugsOffered'
    <2>q. PICK e \in EffectType : e = Unplug
      BY <1>2, <1>0, SupersetsAssumption DEF HostDestroy, device, duck, locals,
         monitors, Unplug, EffectType, DeviceTypes
    <2>r. queue' = Append(queue, e) /\ (e.op = "plug" => Offers(e))
      BY <1>2, <2>q DEF HostDestroy, Offers, Unplug
    <2>s. PlugsOffered'
      BY <1>a, <2>r
    <2>1. MonitorsOffered'
      BY <1>2 DEF HostDestroy, device, duck, locals, monitors, MonitorsOffered, Offers
    <2> QED
      BY <2>s, <2>1
  <1>3. ASSUME NEW l \in Lists, HostUpdate(l) PROVE MonitorsOffered' /\ PlugsOffered'
    <2> DEFINE targets == Select(mon.superset, l)
    <2>1. UNCHANGED <<rt, parked, lists, wpc, obj>>
      BY <1>3 DEF HostUpdate, locals, monitors
    <2>2. MonitorsOffered'
      BY <2>1 DEF MonitorsOffered, Offers
    <2>3. PlugsOffered'
      <3>1. CASE UNCHANGED queue
        BY <1>u, <3>1
      <3>2. CASE ~ UNCHANGED queue
        <4>1. targets \in Lists /\ queue' = Append(queue, Update(updateSeq + 1, targets))
          BY <1>3, <3>2 DEF HostUpdate, Answered
        <4> HIDE DEF targets
        <4>2. PICK e \in EffectType : e = Update(updateSeq + 1, targets)
          BY <1>0, <4>1 DEF Update, EffectType, TableTypes
        <4>3. e.op = "update"
          BY <4>2 DEF Update
        <4> QED
          BY <1>a, <4>1, <4>2, <4>3
      <3> QED
        BY <3>1, <3>2
    <2> QED
      BY <2>2, <2>3
  <1>4. ASSUME StartPlug PROVE MonitorsOffered' /\ PlugsOffered'
    <2>r. queue # <<>>
      BY <1>4 DEF StartPlug, AtHead, Serving
    <2>s. PlugsOffered'
      BY <1>4, <1>d, <1>u, <2>r DEF StartPlug, Done
    <2>1. MonitorsOffered'
      <3>1. CASE adapter
        <4>1. lists' = [superset |-> Task.superset, targets |-> Task.targets] /\ Offers(Task)
          BY <1>4, <1>t, <2>r, <3>1 DEF StartPlug, AtHead, Task
        <4>2. Offers(lists')
          BY <4>1 DEF Offers
        <4> QED
          BY <1>4, <3>1, <4>2 DEF StartPlug, MonitorsOffered, Offers
      <3>2. CASE ~ adapter
        BY <1>4, <3>2 DEF StartPlug, Done, MonitorsOffered, Offers
      <3> QED
        BY <3>1, <3>2
    <2> QED
      BY <2>s, <2>1
  <1>5. ASSUME StartReplug PROVE MonitorsOffered' /\ PlugsOffered'
    <2>r. queue # <<>>
      BY <1>5 DEF StartReplug, AtHead, Serving
    <2>s. PlugsOffered'
      BY <1>5, <1>d, <1>u, <2>r DEF StartReplug, Done
    <2>1. MonitorsOffered'
      BY <1>5 DEF StartReplug, AtHead, Done, device, table, MonitorsOffered, Offers
    <2> QED
      BY <2>s, <2>1
  <1>6. ASSUME CreateFails PROVE MonitorsOffered' /\ PlugsOffered'
    <2>r. queue # <<>>
      BY <1>6 DEF CreateFails, AtHead, Serving
    <2>s. PlugsOffered'
      BY <1>6, <1>d, <1>u, <2>r DEF CreateFails, Done
    <2>1. MonitorsOffered'
      BY <1>6 DEF CreateFails, Done, device, monitors, table, MonitorsOffered, Offers
    <2> QED
      BY <2>s, <2>1
  <1>7. ASSUME NEW o \in Objects, Arrive(o) PROVE MonitorsOffered' /\ PlugsOffered'
    <2>r. queue # <<>>
      BY <1>7 DEF Arrive, AtHead, Serving
    <2>s. PlugsOffered'
      BY <1>7, <1>d, <1>u, <2>r DEF Arrive, Done
    <2>1. MonitorsOffered'
      <3>1. /\ rt' = [obj |-> o, superset |-> lists.superset, targets |-> lists.targets]
            /\ lists # None /\ parked' = parked /\ lists' = None /\ wpc' = "idle"
        BY <1>7 DEF Arrive, Done, Serving
      <3> QED
        BY <3>1 DEF MonitorsOffered, Offers
    <2> QED
      BY <2>s, <2>1
  <1>8. ASSUME NEW o \in Objects, ArrivalFails(o) PROVE MonitorsOffered' /\ PlugsOffered'
    <2>r. queue # <<>>
      BY <1>8 DEF ArrivalFails, AtHead, Serving
    <2>s. PlugsOffered'
      BY <1>8, <1>d, <1>u, <2>r DEF ArrivalFails, Done
    <2>1. MonitorsOffered'
      BY <1>8 DEF ArrivalFails, Done, device, MonitorsOffered, Offers
    <2> QED
      BY <2>s, <2>1
  <1>9. ASSUME StartUnplug PROVE MonitorsOffered' /\ PlugsOffered'
    <2>r. queue # <<>>
      BY <1>9 DEF StartUnplug, AtHead, Serving
    <2>s. PlugsOffered'
      BY <1>9, <1>d, <1>u, <2>r DEF StartUnplug, Done
    <2>1. MonitorsOffered'
      BY <1>9 DEF StartUnplug, AtHead, Done, device, duck, MonitorsOffered, Offers
    <2> QED
      BY <2>s, <2>1
  <1>10. ASSUME Depart PROVE MonitorsOffered' /\ PlugsOffered'
    <2>r. queue # <<>>
      BY <1>10 DEF Depart, AtHead, Serving
    <2>s. PlugsOffered'
      BY <1>10, <1>d, <1>u, <2>r DEF Depart, Done
    <2>1. MonitorsOffered'
      BY <1>10 DEF Depart, Done, duck, table, MonitorsOffered, Offers
    <2> QED
      BY <2>s, <2>1
  <1>11. ASSUME StartPush PROVE MonitorsOffered' /\ PlugsOffered'
    <2>s. PlugsOffered'
      BY <1>11, <1>u DEF StartPush, device, duck, table
    <2>1. MonitorsOffered'
      <3>0. /\ UNCHANGED <<rt, lists, obj>> /\ wpc' \notin {"epoch", "call"}
        BY <1>11 DEF StartPush, Settling
      <3>1. CASE UNCHANGED parked
        BY <3>0, <3>1 DEF MonitorsOffered, Offers
      <3>2. CASE ~ UNCHANGED parked
        <4>1. /\ parked # None /\ parked' = [parked EXCEPT !.targets = Task.targets]
              /\ Range(Task.targets) \subseteq Range(parked.superset)
          BY <1>11, <3>2 DEF StartPush, Fits
        <4>2. Task.targets \in Lists /\ parked \in PlugLists
          BY <1>11, <1>0, <1>t, <4>1 DEF StartPush, AtHead, Task, MonitorTypes
        <4>3. Offers(parked')
          BY <4>1, <4>2, Repatched DEF Offers
        <4> QED
          BY <3>0, <4>3 DEF MonitorsOffered, Offers
      <3> QED
        BY <3>1, <3>2
    <2> QED
      BY <2>s, <2>1
  <1>12. ASSUME ReadAdapter PROVE MonitorsOffered' /\ PlugsOffered'
    <2>s. PlugsOffered'
      BY <1>12, <1>u DEF ReadAdapter, device, duck, monitors, table
    <2>1. MonitorsOffered'
      BY <1>12 DEF ReadAdapter, Settling, device, duck, monitors, table,
         MonitorsOffered, Offers
    <2> QED
      BY <2>s, <2>1
  <1>13. ASSUME Refuse PROVE MonitorsOffered' /\ PlugsOffered'
    <2>s. PlugsOffered'
      BY <1>13, <1>u DEF Refuse, device, duck, monitors, table
    <2>1. MonitorsOffered'
      BY <1>13 DEF Refuse, Settling, device, duck, monitors, table, MonitorsOffered,
         Offers
    <2> QED
      BY <2>s, <2>1
  <1>14. ASSUME Publish PROVE MonitorsOffered' /\ PlugsOffered'
    <2>s. PlugsOffered'
      BY <1>14, <1>u DEF Publish, device, duck, table
    <2>1. MonitorsOffered'
      <3>1. /\ rt # None /\ Range(Task.targets) \subseteq Range(rt.superset)
            /\ lists' = [superset |-> rt.superset, targets |-> rt.targets]
            /\ rt' = [rt EXCEPT !.targets = Task.targets] /\ parked' = parked
        BY <1>14 DEF Publish, Pushable, Fits
      <3>2. Task.targets \in Lists /\ rt \in RuntimeType
        BY <1>14, <1>0, <1>t, <3>1 DEF Publish, Serving, Pushing, MonitorTypes
      <3>3. rt'.superset = rt.superset /\ rt'.targets = Task.targets
        BY <3>1, <3>2, Patched
      <3> QED
        BY <3>1, <3>3 DEF MonitorsOffered, Offers
    <2> QED
      BY <2>s, <2>1
  <1>15. ASSUME CheckEpoch PROVE MonitorsOffered' /\ PlugsOffered'
    <2>s. PlugsOffered'
      BY <1>15, <1>u DEF CheckEpoch, device, duck, table
    <2>1. MonitorsOffered'
      <3>1. rt' = rt \/ Restore
        BY <1>15 DEF CheckEpoch
      <3>2. rt' # None => Offers(rt')
        BY <1>15, <1>r, <3>1 DEF CheckEpoch, MonitorsOffered, Offers
      <3>3. UNCHANGED <<obj, lists, parked>> /\ (wpc' = "call" => rt' = rt) /\ wpc = wpc
        BY <1>15 DEF CheckEpoch, Settling
      <3> QED
        BY <1>15, <3>2, <3>3 DEF CheckEpoch, MonitorsOffered, Offers, Settling
    <2> QED
      BY <2>s, <2>1
  <1>16. ASSUME OSAccepts PROVE MonitorsOffered' /\ PlugsOffered'
    <2>s. PlugsOffered'
      BY <1>16, <1>u DEF OSAccepts, device, duck, monitors, table
    <2>1. MonitorsOffered'
      BY <1>16 DEF OSAccepts, Settling, device, duck, monitors, table, MonitorsOffered,
         Offers
    <2> QED
      BY <2>s, <2>1
  <1>17. ASSUME OSRefuses PROVE MonitorsOffered' /\ PlugsOffered'
    <2>s. PlugsOffered'
      BY <1>17, <1>u DEF OSRefuses, device, duck, table
    <2>1. MonitorsOffered'
      <3>1. rt' = rt \/ Restore
        BY <1>17 DEF OSRefuses
      <3>2. rt' # None => Offers(rt')
        BY <1>17, <1>r, <3>1 DEF OSRefuses, MonitorsOffered, Offers
      <3>3. UNCHANGED <<obj, lists, parked>> /\ (wpc' = "call" => rt' = rt) /\ wpc = wpc
        BY <1>17 DEF OSRefuses, Settling
      <3> QED
        BY <1>17, <3>2, <3>3 DEF OSRefuses, MonitorsOffered, Offers, Settling
    <2> QED
      BY <2>s, <2>1
  <1>18. ASSUME Settle PROVE MonitorsOffered' /\ PlugsOffered'
    <2>r. queue # <<>>
      BY <1>18 DEF Settle, AtHead, Serving
    <2>s. PlugsOffered'
      BY <1>18, <1>d, <1>u, <2>r DEF Settle, Done
    <2>1. MonitorsOffered'
      BY <1>18 DEF Settle, Done, device, duck, monitors, MonitorsOffered, Offers
    <2> QED
      BY <2>s, <2>1
  <1>19. ASSUME DuckNothing PROVE MonitorsOffered' /\ PlugsOffered'
    <2>r. queue # <<>>
      BY <1>19 DEF DuckNothing, AtHead, Serving
    <2>s. PlugsOffered'
      BY <1>19, <1>d, <1>u, <2>r DEF DuckNothing, Done
    <2>1. MonitorsOffered'
      BY <1>19 DEF DuckNothing, AtHead, Done, device, duck, monitors, table,
         MonitorsOffered, Offers
    <2> QED
      BY <2>s, <2>1
  <1>20. ASSUME DuckDevice PROVE MonitorsOffered' /\ PlugsOffered'
    <2>r. queue # <<>>
      BY <1>20 DEF DuckDevice, AtHead, Serving
    <2>s. PlugsOffered'
      BY <1>20, <1>d, <1>u, <2>r DEF DuckDevice, Done
    <2>1. MonitorsOffered'
      BY <1>20 DEF DuckDevice, AtHead, Done, device, duck, monitors, table,
         MonitorsOffered, Offers
    <2> QED
      BY <2>s, <2>1
  <1>21. ASSUME DuckDepart PROVE MonitorsOffered' /\ PlugsOffered'
    <2>s. PlugsOffered'
      BY <1>21, <1>u DEF DuckDepart, duck, monitors, table
    <2>1. MonitorsOffered'
      BY <1>21 DEF DuckDepart, AtHead, duck, monitors, table, MonitorsOffered, Offers
    <2> QED
      BY <2>s, <2>1
  <1>22. ASSUME Park PROVE MonitorsOffered' /\ PlugsOffered'
    <2>r. queue # <<>>
      BY <1>22 DEF Park, AtHead, Serving
    <2>s. PlugsOffered'
      BY <1>22, <1>d, <1>u, <2>r DEF Park, Done
    <2>1. MonitorsOffered'
      <3>1. /\ rt' = None /\ lists' = None /\ wpc' = "idle"
            /\ \/ parked' = None
               \/ rt # None /\ parked' = [superset |-> rt.superset, targets |-> rt.targets]
        BY <1>22 DEF Park, Done
      <3> QED
        BY <3>1 DEF MonitorsOffered, Offers
    <2> QED
      BY <2>s, <2>1
  <1>23. ASSUME ArmDuck PROVE MonitorsOffered' /\ PlugsOffered'
    <2>q. PICK e \in EffectType : e = Duck(epoch)
      BY <1>23, <1>0, SupersetsAssumption DEF ArmDuck, device, duck, locals, monitors,
         table, Duck, EffectType, DeviceTypes
    <2>r. queue' = Append(queue, e) /\ (e.op = "plug" => Offers(e))
      BY <1>23, <2>q DEF ArmDuck, Offers, Duck
    <2>s. PlugsOffered'
      BY <1>a, <2>r
    <2>1. MonitorsOffered'
      BY <1>23 DEF ArmDuck, device, duck, locals, monitors, table, MonitorsOffered,
         Offers
    <2> QED
      BY <2>s, <2>1
  <1>24. ASSUME PollerReplugs PROVE MonitorsOffered' /\ PlugsOffered'
    <2>q. PICK e \in EffectType : e = Replug(poller)
      BY <1>24, <1>0, SupersetsAssumption DEF PollerReplugs, device, locals, monitors,
         table, Replug, EffectType, DeviceTypes
    <2>r. queue' = Append(queue, e) /\ (e.op = "plug" => Offers(e))
      BY <1>24, <2>q DEF PollerReplugs, Offers, Replug
    <2>s. PlugsOffered'
      BY <1>a, <2>r
    <2>1. MonitorsOffered'
      BY <1>24 DEF PollerReplugs, device, locals, monitors, table, MonitorsOffered,
         Offers
    <2> QED
      BY <2>s, <2>1
  <1>25. ASSUME PollerEnds PROVE MonitorsOffered' /\ PlugsOffered'
    <2>s. PlugsOffered'
      BY <1>25, <1>u DEF PollerEnds, device, locals, table, worker
    <2>1. MonitorsOffered'
      BY <1>25 DEF PollerEnds, device, locals, table, worker, MonitorsOffered, Offers
    <2> QED
      BY <2>s, <2>1
  <1>26. ASSUME NEW m \in Modes \cup {None}, Commit(m) PROVE MonitorsOffered' /\ PlugsOffered'
    <2>s. PlugsOffered'
      BY <1>26, <1>u DEF Commit, device, duck
    <2>1. MonitorsOffered'
      BY <1>26 DEF Commit, device, duck, MonitorsOffered, Offers
    <2> QED
      BY <2>s, <2>1
  <1>27. ASSUME ClearAdapter PROVE MonitorsOffered' /\ PlugsOffered'
    <2>s. PlugsOffered'
      BY <1>27, <1>u DEF ClearAdapter, duck, locals, monitors, table, worker
    <2>1. MonitorsOffered'
      BY <1>27 DEF ClearAdapter, duck, locals, monitors, table, worker, MonitorsOffered,
         Offers
    <2> QED
      BY <2>s, <2>1
  <1>28. ASSUME DrainPushes PROVE MonitorsOffered' /\ PlugsOffered'
    <2>s. PlugsOffered'
      BY <1>28, <1>u DEF DrainPushes, duck, locals, monitors, table, worker
    <2>1. MonitorsOffered'
      BY <1>28 DEF DrainPushes, duck, locals, monitors, table, worker, MonitorsOffered,
         Offers
    <2> QED
      BY <2>s, <2>1
  <1>29. ASSUME DrainTimesOut PROVE MonitorsOffered' /\ PlugsOffered'
    <2>s. PlugsOffered'
      BY <1>29, <1>u DEF DrainTimesOut, duck, locals, monitors, table, worker
    <2>1. MonitorsOffered'
      BY <1>29 DEF DrainTimesOut, duck, locals, monitors, table, worker,
         MonitorsOffered, Offers
    <2> QED
      BY <2>s, <2>1
  <1>30. ASSUME ForgetAll PROVE MonitorsOffered' /\ PlugsOffered'
    <2>s. PlugsOffered'
      BY <1>30, <1>u DEF ForgetAll, duck
    <2>1. MonitorsOffered'
      BY <1>30 DEF ForgetAll, duck, MonitorsOffered, Offers
    <2> QED
      BY <2>s, <2>1
  <1>31. ASSUME DrainMonitors PROVE MonitorsOffered' /\ PlugsOffered'
    <2>s. PlugsOffered'
      BY <1>31, <1>u DEF DrainMonitors, duck, locals, table, worker
    <2>1. MonitorsOffered'
      BY <1>31 DEF DrainMonitors, duck, locals, table, worker, MonitorsOffered, Offers
    <2> QED
      BY <2>s, <2>1
  <1>32. ASSUME DrainParked PROVE MonitorsOffered' /\ PlugsOffered'
    <2>s. PlugsOffered'
      BY <1>32, <1>u DEF DrainParked, duck, locals, table, worker
    <2>1. MonitorsOffered'
      BY <1>32 DEF DrainParked, duck, locals, table, worker, MonitorsOffered, Offers
    <2> QED
      BY <2>s, <2>1
  <1>33. ASSUME TeardownReset PROVE MonitorsOffered' /\ PlugsOffered'
    <2>s. PlugsOffered'
      BY <1>33, <1>u DEF TeardownReset, duck, locals, monitors, worker
    <2>1. MonitorsOffered'
      BY <1>33 DEF TeardownReset, duck, locals, monitors, worker, MonitorsOffered,
         Offers
    <2> QED
      BY <2>s, <2>1
  <1>34. ASSUME DestroyAdapter PROVE MonitorsOffered' /\ PlugsOffered'
    <2>s. PlugsOffered'
      BY <1>34, <1>u DEF DestroyAdapter, duck, locals, monitors, table, worker
    <2>1. MonitorsOffered'
      BY <1>34 DEF DestroyAdapter, duck, locals, monitors, table, worker,
         MonitorsOffered, Offers
    <2> QED
      BY <2>s, <2>1
  <1>35. ASSUME BringUp PROVE MonitorsOffered' /\ PlugsOffered'
    <2>s. PlugsOffered'
      BY <1>35, <1>u DEF BringUp, duck, locals, monitors, table, worker
    <2>1. MonitorsOffered'
      BY <1>35 DEF BringUp, duck, locals, monitors, table, worker, MonitorsOffered,
         Offers
    <2> QED
      BY <2>s, <2>1
  <1>36. CASE UNCHANGED vars
    BY <1>36, <1>u DEF vars, worker, locals, monitors, MonitorsOffered, Offers
  <1> QED
    <2>h. CASE Host
      BY <1>1, <1>2, <1>3, <2>h DEF Host
    <2>w. CASE Worker
      BY <1>4, <1>5, <1>6, <1>7, <1>8, <1>9, <1>10, <1>11, <1>12, <1>13, <1>14, <1>15,
         <1>16, <1>17, <1>18, <1>19, <1>20, <1>21, <1>22, <2>w DEF Worker, CreateMonitor,
         Push
    <2>e. CASE Exit
      BY <1>27, <1>28, <1>29, <1>30, <1>31, <1>32, <1>33, <1>34, <1>35, <2>e DEF Exit
    <2> QED
      BY <1>23, <1>24, <1>25, <1>26, <1>36, <2>h, <2>w, <2>e DEF Next

(* The least of a non-empty set of numbers.                                 *)
LEMMA LeastExists ==
  ASSUME NEW S \in SUBSET Nat, S # {}
  PROVE  \E i \in S : \A j \in S : i <= j
  <1> DEFINE below == OpToRel(<, Nat)
  <1>1. IsWellFoundedOn(below, Nat)
    BY NatLessThanWellFounded
  <1>2. \A j, i \in Nat : j < i => <<j, i>> \in below
    BY DEF OpToRel
  <1> HIDE DEF below
  <1>3. PICK i \in S : \A j \in S : <<j, i>> \notin below
    BY <1>1, WFMin
  <1>4. \A j \in S : ~ (j < i)
    BY <1>2, <1>3
  <1> QED
    BY <1>4

(* The mode the OS is told to prefer is one of those offered.               *)
LEMMA PreferredIsOffered ==
  ASSUME NEW s \in Lists, NEW t \in Lists, Range(t) \subseteq Range(s)
  PROVE  t # <<>> /\ s[Preferred(s, t)] \in Range(t)
  <1> DEFINE offered == {i \in DOMAIN s : s[i] \in Range(t)}
  <1>1. PICK j \in DOMAIN t : TRUE
    BY InLists
  <1>2. t[j] \in Range(s)
    BY <1>1 DEF Range
  <1>3. offered # {} /\ offered \in SUBSET Nat
    BY <1>1, <1>2, InLists DEF Range
  <1>4. \E i \in offered : \A k \in offered : i <= k
    BY <1>3, LeastExists
  <1>5. Preferred(s, t) \in offered
    BY <1>3, <1>4 DEF Preferred
  <1>6. t # <<>>
    BY <1>1, EmptySeq
  <1> QED
    BY <1>5, <1>6

LEMMA OfferedIsActivatable == TypeOK /\ MonitorsOffered => AlwaysActivatable
  <1> SUFFICES ASSUME TypeOK, MonitorsOffered PROVE AlwaysActivatable
    OBVIOUS
  <1>1. ASSUME rt # None PROVE Activatable(rt)
    <2>1. rt.superset \in Lists /\ rt.targets \in Lists
          /\ Range(rt.targets) \subseteq Range(rt.superset)
      BY <1>1 DEF TypeOK, MonitorTypes, RuntimeType, MonitorsOffered, Offers
    <2> QED
      BY <2>1, PreferredIsOffered DEF Activatable
  <1>2. ASSUME parked # None PROVE Activatable(parked)
    <2>1. /\ parked.superset \in Lists /\ parked.targets \in Lists
          /\ Range(parked.targets) \subseteq Range(parked.superset)
      BY <1>2 DEF TypeOK, MonitorTypes, PlugLists, MonitorsOffered, Offers
    <2> QED
      BY <2>1, PreferredIsOffered DEF Activatable
  <1> QED
    BY <1>1, <1>2 DEF AlwaysActivatable

-----------------------------------------------------------------------------
(* The updates in the queue.                                                *)
LEMMA KnownInit == Init => QueueKnown
  BY EmptySeq DEF Init, QueueKnown

LEMMA KnownStep == TypeOK /\ Serving /\ QueueKnown /\ [Next]_vars => QueueKnown'
  <1> SUFFICES ASSUME TypeOK, Serving, QueueKnown, [Next]_vars PROVE QueueKnown'
    OBVIOUS
  <1>0. TableTypes /\ QueueTypes /\ DeviceTypes
    BY DEF TypeOK
  (* Nothing becomes pending that was not.                                  *)
  <1>k. ASSUME updateSeq' = updateSeq,
               \A n : Pending(n)' => Pending(n) /\ mon'.pending.targets = mon.pending.targets
        PROVE  \A e : Known(e) => Known(e)'
    BY <1>k DEF Known
  <1>a. ASSUME NEW e \in EffectType, queue' = Append(queue, e), Known(e)',
               \A f : Known(f) => Known(f)'
        PROVE  QueueKnown'
    <2>0. PICK q : q = Append(queue, e)
      OBVIOUS
    <2>1. \A i \in DOMAIN q : q[i] = e \/ \E j \in DOMAIN queue : q[i] = queue[j]
      BY <1>0, <2>0, Appended DEF QueueTypes
    <2>2. \A i \in DOMAIN q : Known(q[i])'
      BY <1>a, <2>1 DEF QueueKnown
    <2>3. queue' = q
      BY <1>a, <2>0
    <2> QED
      BY <2>2, <2>3 DEF QueueKnown
  <1>d. ASSUME queue # <<>>, queue' = Tail(queue), \A f : Known(f) => Known(f)' PROVE QueueKnown'
    <2>0. PICK q : q = Tail(queue)
      OBVIOUS
    <2>1. \A i \in DOMAIN q : \E j \in DOMAIN queue : q[i] = queue[j]
      BY <1>0, <1>d, <2>0, Served DEF QueueTypes
    <2>2. \A i \in DOMAIN q : Known(q[i])'
      BY <1>d, <2>1 DEF QueueKnown
    <2>3. queue' = q
      BY <1>d, <2>0
    <2> QED
      BY <2>2, <2>3 DEF QueueKnown
  <1>u. ASSUME queue' = queue, \A f : Known(f) => Known(f)' PROVE QueueKnown'
    BY <1>u DEF QueueKnown
  <1>1. ASSUME NEW l \in Supersets, HostCreate(l) PROVE QueueKnown'
    <2>1. \A n : Pending(n)' => Pending(n) /\ mon'.pending.targets = mon.pending.targets
      BY <1>1, <1>0 DEF HostCreate, Created, Pending, TableTypes, SessionType
    <2>2. updateSeq' = updateSeq
      BY <1>1 DEF HostCreate, device, duck, locals, monitors
    <2>3. \A f : Known(f) => Known(f)'
      BY <1>k, <2>1, <2>2 DEF Pending
    <2> QED
      <3>1. PICK e \in EffectType : e = Plug(l, l)
        BY <1>1, <1>0, SupersetsAssumption DEF HostCreate, device, duck, locals, monitors,
           Plug, EffectType, DeviceTypes
      <3>2. queue' = Append(queue, e)
        BY <1>1, <3>1 DEF HostCreate
      <3>3. e.op # "update"
        BY <3>1 DEF Plug
      <3> QED
        BY <1>a, <2>3, <3>2, <3>3 DEF Known
  <1>2. ASSUME HostDestroy PROVE QueueKnown'
    <2>1. \A n : Pending(n)' => Pending(n) /\ mon'.pending.targets = mon.pending.targets
      BY <1>2, <1>0 DEF HostDestroy, Created, Pending, TableTypes, SessionType
    <2>2. updateSeq' = updateSeq
      BY <1>2 DEF HostDestroy, device, duck, locals, monitors
    <2>3. \A f : Known(f) => Known(f)'
      BY <1>k, <2>1, <2>2 DEF Pending
    <2> QED
      <3>1. PICK e \in EffectType : e = Unplug
        BY <1>2, <1>0, SupersetsAssumption DEF HostDestroy, device, duck, locals,
           monitors, Unplug, EffectType, DeviceTypes
      <3>2. queue' = Append(queue, e)
        BY <1>2, <3>1 DEF HostDestroy
      <3>3. e.op # "update"
        BY <3>1 DEF Unplug
      <3> QED
        BY <1>a, <2>3, <3>2, <3>3 DEF Known
  <1>3. ASSUME NEW l \in Lists, HostUpdate(l) PROVE QueueKnown'
    <2> DEFINE targets == Select(mon.superset, l)
    <2>a. mon \in SessionType /\ updateSeq \in Nat
      BY <1>3, <1>0 DEF HostUpdate, TableTypes
    <2>1. CASE Answered(targets)
      <3>1. UNCHANGED <<queue, updateSeq>> /\ mon' = [mon EXCEPT !.blocked = Remembered]
        BY <1>3, <2>1 DEF HostUpdate
      <3>2. \A n : Pending(n)' => Pending(n) /\ mon'.pending.targets = mon.pending.targets
        BY <1>3, <2>a, <3>1 DEF SessionType, Pending, HostUpdate
      <3> QED
        BY <1>k, <1>u, <3>1, <3>2
    <2>2. CASE ~ Answered(targets)
      <3>1. /\ queue' = Append(queue, Update(updateSeq + 1, targets)) /\ updateSeq' = updateSeq + 1
            /\ mon' = [mon EXCEPT !.blocked = None,
                                  !.pending = [seq |-> updateSeq + 1, targets |-> targets]]
            /\ targets \in Lists
        BY <1>3, <2>2 DEF HostUpdate, Answered
      <3> HIDE DEF targets
      <3>2. mon'.pending = [seq |-> updateSeq + 1, targets |-> targets]
        BY <2>a, <3>1 DEF SessionType
      <3>3. PICK e \in EffectType : e = Update(updateSeq + 1, targets)
        BY <2>a, <3>1 DEF Update, EffectType
      <3>4. e.seq = updateSeq + 1 /\ e.targets = targets
        BY <3>3 DEF Update
      <3>5. Known(e)'
        BY <2>a, <3>1, <3>2, <3>4 DEF Known, Pending
      <3>6. \A f \in EffectType : Known(f) => Known(f)'
        BY <2>a, <3>1, <3>2 DEF Known, Pending, EffectType
      <3>7. PICK q : q = queue'
        OBVIOUS
      <3>8. \A i \in DOMAIN q : Known(q[i])'
        BY <1>0, <3>1, <3>3, <3>5, <3>6, <3>7, Appended DEF QueueTypes, QueueKnown
      <3> QED
        BY <3>7, <3>8 DEF QueueKnown
    <2> QED
      BY <2>1, <2>2
  <1>4. ASSUME StartPlug PROVE QueueKnown'
    <2>1. mon' = mon
      BY <1>4 DEF StartPlug, device, duck, table
    <2>2. updateSeq' = updateSeq
      BY <1>4 DEF StartPlug, device, duck, table
    <2>3. \A f : Known(f) => Known(f)'
      BY <1>k, <2>1, <2>2 DEF Pending
    <2> QED
      <3>1. queue # <<>>
        BY <1>4 DEF StartPlug, AtHead, Serving
      <3> QED
        BY <1>4, <1>d, <1>u, <2>3, <3>1 DEF StartPlug, Done
  <1>5. ASSUME StartReplug PROVE QueueKnown'
    <2>1. mon' = mon
      BY <1>5 DEF StartReplug, device, table
    <2>2. updateSeq' = updateSeq
      BY <1>5 DEF StartReplug, device, table
    <2>3. \A f : Known(f) => Known(f)'
      BY <1>k, <2>1, <2>2 DEF Pending
    <2> QED
      <3>1. queue # <<>>
        BY <1>5 DEF StartReplug, AtHead, Serving
      <3> QED
        BY <1>5, <1>d, <1>u, <2>3, <3>1 DEF StartReplug, Done
  <1>6. ASSUME CreateFails PROVE QueueKnown'
    <2>1. mon' = mon
      BY <1>6 DEF CreateFails, device, monitors, table
    <2>2. updateSeq' = updateSeq
      BY <1>6 DEF CreateFails, device, monitors, table
    <2>3. \A f : Known(f) => Known(f)'
      BY <1>k, <2>1, <2>2 DEF Pending
    <2> QED
      <3>1. queue # <<>>
        BY <1>6 DEF CreateFails, AtHead, Serving
      <3> QED
        BY <1>6, <1>d, <1>u, <2>3, <3>1 DEF CreateFails, Done
  <1>7. ASSUME NEW o \in Objects, Arrive(o) PROVE QueueKnown'
    <2>e. Expire \/ UNCHANGED <<mon, fresh>>
      BY <1>7 DEF Arrive, Forget
    <2>1. \A n : Pending(n)' => Pending(n) /\ mon'.pending.targets = mon.pending.targets
      BY <1>0, <2>e, Expired DEF Pending
    <2>2. updateSeq' = updateSeq
      BY <1>7 DEF Arrive
    <2>3. \A f : Known(f) => Known(f)'
      BY <1>k, <2>1, <2>2 DEF Pending
    <2> QED
      <3>1. queue # <<>>
        BY <1>7 DEF Arrive, AtHead, Serving
      <3> QED
        BY <1>7, <1>d, <1>u, <2>3, <3>1 DEF Arrive, Done
  <1>8. ASSUME NEW o \in Objects, ArrivalFails(o) PROVE QueueKnown'
    <2>e. Expire \/ UNCHANGED <<mon, fresh>>
      BY <1>8 DEF ArrivalFails, Forget
    <2>1. \A n : Pending(n)' => Pending(n) /\ mon'.pending.targets = mon.pending.targets
      BY <1>0, <2>e, Expired DEF Pending
    <2>2. updateSeq' = updateSeq
      BY <1>8 DEF ArrivalFails, device
    <2>3. \A f : Known(f) => Known(f)'
      BY <1>k, <2>1, <2>2 DEF Pending
    <2> QED
      <3>1. queue # <<>>
        BY <1>8 DEF ArrivalFails, AtHead, Serving
      <3> QED
        BY <1>8, <1>d, <1>u, <2>3, <3>1 DEF ArrivalFails, Done
  <1>9. ASSUME StartUnplug PROVE QueueKnown'
    <2>e. Expire \/ UNCHANGED <<mon, fresh>>
      BY <1>9 DEF StartUnplug, Forget
    <2>1. \A n : Pending(n)' => Pending(n) /\ mon'.pending.targets = mon.pending.targets
      BY <1>0, <2>e, Expired DEF Pending
    <2>2. updateSeq' = updateSeq
      BY <1>9 DEF StartUnplug, device, duck
    <2>3. \A f : Known(f) => Known(f)'
      BY <1>k, <2>1, <2>2 DEF Pending
    <2> QED
      <3>1. queue # <<>>
        BY <1>9 DEF StartUnplug, AtHead, Serving
      <3> QED
        BY <1>9, <1>d, <1>u, <2>3, <3>1 DEF StartUnplug, Done
  <1>10. ASSUME Depart PROVE QueueKnown'
    <2>1. mon' = mon
      BY <1>10 DEF Depart, duck, table
    <2>2. updateSeq' = updateSeq
      BY <1>10 DEF Depart, duck, table
    <2>3. \A f : Known(f) => Known(f)'
      BY <1>k, <2>1, <2>2 DEF Pending
    <2> QED
      <3>1. queue # <<>>
        BY <1>10 DEF Depart, AtHead, Serving
      <3> QED
        BY <1>10, <1>d, <1>u, <2>3, <3>1 DEF Depart, Done
  <1>11. ASSUME StartPush PROVE QueueKnown'
    <2>1. mon' = mon
      BY <1>11 DEF StartPush, device, duck, table
    <2>2. updateSeq' = updateSeq
      BY <1>11 DEF StartPush, device, duck, table
    <2>3. \A f : Known(f) => Known(f)'
      BY <1>k, <2>1, <2>2 DEF Pending
    <2> QED
      BY <1>11, <1>u, <2>3 DEF StartPush, device, duck, table
  <1>12. ASSUME ReadAdapter PROVE QueueKnown'
    <2>1. mon' = mon
      BY <1>12 DEF ReadAdapter, device, duck, monitors, table
    <2>2. updateSeq' = updateSeq
      BY <1>12 DEF ReadAdapter, device, duck, monitors, table
    <2>3. \A f : Known(f) => Known(f)'
      BY <1>k, <2>1, <2>2 DEF Pending
    <2> QED
      BY <1>12, <1>u, <2>3 DEF ReadAdapter, device, duck, monitors, table
  <1>13. ASSUME Refuse PROVE QueueKnown'
    <2>1. mon' = mon
      BY <1>13 DEF Refuse, device, duck, monitors, table
    <2>2. updateSeq' = updateSeq
      BY <1>13 DEF Refuse, device, duck, monitors, table
    <2>3. \A f : Known(f) => Known(f)'
      BY <1>k, <2>1, <2>2 DEF Pending
    <2> QED
      BY <1>13, <1>u, <2>3 DEF Refuse, device, duck, monitors, table
  <1>14. ASSUME Publish PROVE QueueKnown'
    <2>1. mon' = mon
      BY <1>14 DEF Publish, device, duck, table
    <2>2. updateSeq' = updateSeq
      BY <1>14 DEF Publish, device, duck, table
    <2>3. \A f : Known(f) => Known(f)'
      BY <1>k, <2>1, <2>2 DEF Pending
    <2> QED
      BY <1>14, <1>u, <2>3 DEF Publish, device, duck, table
  <1>15. ASSUME CheckEpoch PROVE QueueKnown'
    <2>1. mon' = mon
      BY <1>15 DEF CheckEpoch, device, duck, table
    <2>2. updateSeq' = updateSeq
      BY <1>15 DEF CheckEpoch, device, duck, table
    <2>3. \A f : Known(f) => Known(f)'
      BY <1>k, <2>1, <2>2 DEF Pending
    <2> QED
      BY <1>15, <1>u, <2>3 DEF CheckEpoch, device, duck, table
  <1>16. ASSUME OSAccepts PROVE QueueKnown'
    <2>1. mon' = mon
      BY <1>16 DEF OSAccepts, device, duck, monitors, table
    <2>2. updateSeq' = updateSeq
      BY <1>16 DEF OSAccepts, device, duck, monitors, table
    <2>3. \A f : Known(f) => Known(f)'
      BY <1>k, <2>1, <2>2 DEF Pending
    <2> QED
      BY <1>16, <1>u, <2>3 DEF OSAccepts, device, duck, monitors, table
  <1>17. ASSUME OSRefuses PROVE QueueKnown'
    <2>1. mon' = mon
      BY <1>17 DEF OSRefuses, device, duck, table
    <2>2. updateSeq' = updateSeq
      BY <1>17 DEF OSRefuses, device, duck, table
    <2>3. \A f : Known(f) => Known(f)'
      BY <1>k, <2>1, <2>2 DEF Pending
    <2> QED
      BY <1>17, <1>u, <2>3 DEF OSRefuses, device, duck, table
  <1>18. ASSUME Settle PROVE QueueKnown'
    <2>1. \A n : Pending(n)' => Pending(n) /\ mon'.pending.targets = mon.pending.targets
      <3>1. mon \in SessionType \cup {None}
            /\ (mon # None => mon.pending \in PendingType \cup {None})
        BY <1>0 DEF TableTypes, SessionType
      <3>2. CASE mon' = mon
        BY <3>2 DEF Pending
      <3>3. CASE mon # None /\ mon' = Superseded
        BY <3>1, <3>3 DEF Superseded, Pending, SessionType
      <3>4. CASE mon # None /\ mon' = Decided /\ mon'.pending = None
        BY <3>4 DEF Pending
      <3>5. mon # None /\ mon' = Decided => mon'.pending = None
        <4> SUFFICES ASSUME mon # None, mon' = Decided PROVE mon'.pending = None
          OBVIOUS
        <4>1. CASE outcome.result = "applied"
          BY <3>1, <4>1 DEF Decided, SessionType
        <4>2. CASE outcome.result = "not applied"
          BY <3>1, <4>2 DEF Decided, SessionType
        <4>3. CASE outcome.result \notin {"applied", "not applied"}
          BY <3>1, <4>3 DEF Decided, SessionType
        <4> QED
          BY <4>1, <4>2, <4>3
      <3> QED
        BY <1>18, <3>2, <3>3, <3>4, <3>5 DEF Settle
    <2>2. updateSeq' = updateSeq
      BY <1>18 DEF Settle, device, duck, monitors
    <2>3. \A f : Known(f) => Known(f)'
      BY <1>k, <2>1, <2>2 DEF Pending
    <2> QED
      <3>1. queue # <<>>
        BY <1>18 DEF Settle, AtHead, Serving
      <3> QED
        BY <1>18, <1>d, <1>u, <2>3, <3>1 DEF Settle, Done
  <1>19. ASSUME DuckNothing PROVE QueueKnown'
    <2>1. mon' = mon
      BY <1>19 DEF DuckNothing, device, duck, monitors, table
    <2>2. updateSeq' = updateSeq
      BY <1>19 DEF DuckNothing, device, duck, monitors, table
    <2>3. \A f : Known(f) => Known(f)'
      BY <1>k, <2>1, <2>2 DEF Pending
    <2> QED
      <3>1. queue # <<>>
        BY <1>19 DEF DuckNothing, AtHead, Serving
      <3> QED
        BY <1>19, <1>d, <1>u, <2>3, <3>1 DEF DuckNothing, Done
  <1>20. ASSUME DuckDevice PROVE QueueKnown'
    <2>1. mon' = mon
      BY <1>20 DEF DuckDevice, device, duck, monitors, table
    <2>2. updateSeq' = updateSeq
      BY <1>20 DEF DuckDevice, device, duck, monitors, table
    <2>3. \A f : Known(f) => Known(f)'
      BY <1>k, <2>1, <2>2 DEF Pending
    <2> QED
      <3>1. queue # <<>>
        BY <1>20 DEF DuckDevice, AtHead, Serving
      <3> QED
        BY <1>20, <1>d, <1>u, <2>3, <3>1 DEF DuckDevice, Done
  <1>21. ASSUME DuckDepart PROVE QueueKnown'
    <2>1. mon' = mon
      BY <1>21 DEF DuckDepart, duck, monitors, table
    <2>2. updateSeq' = updateSeq
      BY <1>21 DEF DuckDepart, duck, monitors, table
    <2>3. \A f : Known(f) => Known(f)'
      BY <1>k, <2>1, <2>2 DEF Pending
    <2> QED
      BY <1>21, <1>u, <2>3 DEF DuckDepart, duck, monitors, table
  <1>22. ASSUME Park PROVE QueueKnown'
    <2>e. Expire \/ UNCHANGED <<mon, fresh>>
      BY <1>22 DEF Park, Forget
    <2>1. \A n : Pending(n)' => Pending(n) /\ mon'.pending.targets = mon.pending.targets
      BY <1>0, <2>e, Expired DEF Pending
    <2>2. updateSeq' = updateSeq
      BY <1>22 DEF Park, device
    <2>3. \A f : Known(f) => Known(f)'
      BY <1>k, <2>1, <2>2 DEF Pending
    <2> QED
      <3>1. queue # <<>>
        BY <1>22 DEF Park, AtHead, Serving
      <3> QED
        BY <1>22, <1>d, <1>u, <2>3, <3>1 DEF Park, Done
  <1>23. ASSUME ArmDuck PROVE QueueKnown'
    <2>1. mon' = mon
      BY <1>23 DEF ArmDuck, device, duck, locals, monitors, table
    <2>2. updateSeq' = updateSeq
      BY <1>23 DEF ArmDuck, device, duck, locals, monitors, table
    <2>3. \A f : Known(f) => Known(f)'
      BY <1>k, <2>1, <2>2 DEF Pending
    <2> QED
      <3>1. PICK e \in EffectType : e = Duck(epoch)
        BY <1>23, <1>0, SupersetsAssumption DEF ArmDuck, device, duck, locals, monitors,
           table, Duck, EffectType, DeviceTypes
      <3>2. queue' = Append(queue, e)
        BY <1>23, <3>1 DEF ArmDuck
      <3>3. e.op # "update"
        BY <3>1 DEF Duck
      <3> QED
        BY <1>a, <2>3, <3>2, <3>3 DEF Known
  <1>24. ASSUME PollerReplugs PROVE QueueKnown'
    <2>1. mon' = mon
      BY <1>24 DEF PollerReplugs, device, locals, monitors, table
    <2>2. updateSeq' = updateSeq
      BY <1>24 DEF PollerReplugs, device, locals, monitors, table
    <2>3. \A f : Known(f) => Known(f)'
      BY <1>k, <2>1, <2>2 DEF Pending
    <2> QED
      <3>1. PICK e \in EffectType : e = Replug(poller)
        BY <1>24, <1>0, SupersetsAssumption DEF PollerReplugs, device, locals, monitors,
           table, Replug, EffectType, DeviceTypes
      <3>2. queue' = Append(queue, e)
        BY <1>24, <3>1 DEF PollerReplugs
      <3>3. e.op # "update"
        BY <3>1 DEF Replug
      <3> QED
        BY <1>a, <2>3, <3>2, <3>3 DEF Known
  <1>25. ASSUME PollerEnds PROVE QueueKnown'
    <2>1. mon' = mon
      BY <1>25 DEF PollerEnds, device, locals, table, worker
    <2>2. updateSeq' = updateSeq
      BY <1>25 DEF PollerEnds, device, locals, table, worker
    <2>3. \A f : Known(f) => Known(f)'
      BY <1>k, <2>1, <2>2 DEF Pending
    <2> QED
      BY <1>25, <1>u, <2>3 DEF PollerEnds, device, locals, table, worker
  <1>26. ASSUME NEW m \in Modes \cup {None}, Commit(m) PROVE QueueKnown'
    <2>e. Expire \/ UNCHANGED <<mon, fresh>>
      BY <1>26 DEF Commit, Forget
    <2>1. \A n : Pending(n)' => Pending(n) /\ mon'.pending.targets = mon.pending.targets
      BY <1>0, <2>e, Expired DEF Pending
    <2>2. updateSeq' = updateSeq
      BY <1>26 DEF Commit, device, duck
    <2>3. \A f : Known(f) => Known(f)'
      BY <1>k, <2>1, <2>2 DEF Pending
    <2> QED
      BY <1>26, <1>u, <2>3 DEF Commit, device, duck
  <1>27. ASSUME ClearAdapter PROVE QueueKnown'
    <2>1. mon' = mon
      BY <1>27 DEF ClearAdapter, duck, locals, monitors, table, worker
    <2>2. updateSeq' = updateSeq
      BY <1>27 DEF ClearAdapter, duck, locals, monitors, table, worker
    <2>3. \A f : Known(f) => Known(f)'
      BY <1>k, <2>1, <2>2 DEF Pending
    <2> QED
      BY <1>27, <1>u, <2>3 DEF ClearAdapter, duck, locals, monitors, table, worker
  <1>28. ASSUME DrainPushes PROVE QueueKnown'
    <2>1. mon' = mon
      BY <1>28 DEF DrainPushes, duck, locals, monitors, table, worker
    <2>2. updateSeq' = updateSeq
      BY <1>28 DEF DrainPushes, duck, locals, monitors, table, worker
    <2>3. \A f : Known(f) => Known(f)'
      BY <1>k, <2>1, <2>2 DEF Pending
    <2> QED
      BY <1>28, <1>u, <2>3 DEF DrainPushes, duck, locals, monitors, table, worker
  <1>29. ASSUME DrainTimesOut PROVE QueueKnown'
    <2>1. mon' = mon
      BY <1>29 DEF DrainTimesOut, duck, locals, monitors, table, worker
    <2>2. updateSeq' = updateSeq
      BY <1>29 DEF DrainTimesOut, duck, locals, monitors, table, worker
    <2>3. \A f : Known(f) => Known(f)'
      BY <1>k, <2>1, <2>2 DEF Pending
    <2> QED
      BY <1>29, <1>u, <2>3 DEF DrainTimesOut, duck, locals, monitors, table, worker
  <1>30. ASSUME ForgetAll PROVE QueueKnown'
    <2>e. Expire \/ UNCHANGED <<mon, fresh>>
      BY <1>30 DEF ForgetAll, Forget
    <2>1. \A n : Pending(n)' => Pending(n) /\ mon'.pending.targets = mon.pending.targets
      BY <1>0, <2>e, Expired DEF Pending
    <2>2. updateSeq' = updateSeq
      BY <1>30 DEF ForgetAll, duck
    <2>3. \A f : Known(f) => Known(f)'
      BY <1>k, <2>1, <2>2 DEF Pending
    <2> QED
      BY <1>30, <1>u, <2>3 DEF ForgetAll, duck
  <1>31. ASSUME DrainMonitors PROVE QueueKnown'
    <2>1. mon' = mon
      BY <1>31 DEF DrainMonitors, duck, locals, table, worker
    <2>2. updateSeq' = updateSeq
      BY <1>31 DEF DrainMonitors, duck, locals, table, worker
    <2>3. \A f : Known(f) => Known(f)'
      BY <1>k, <2>1, <2>2 DEF Pending
    <2> QED
      BY <1>31, <1>u, <2>3 DEF DrainMonitors, duck, locals, table, worker
  <1>32. ASSUME DrainParked PROVE QueueKnown'
    <2>1. mon' = mon
      BY <1>32 DEF DrainParked, duck, locals, table, worker
    <2>2. updateSeq' = updateSeq
      BY <1>32 DEF DrainParked, duck, locals, table, worker
    <2>3. \A f : Known(f) => Known(f)'
      BY <1>k, <2>1, <2>2 DEF Pending
    <2> QED
      BY <1>32, <1>u, <2>3 DEF DrainParked, duck, locals, table, worker
  <1>33. ASSUME TeardownReset PROVE QueueKnown'
    <2>1. \A n : Pending(n)' => Pending(n) /\ mon'.pending.targets = mon.pending.targets
      BY <1>33, <1>0 DEF TeardownReset, Created, Pending, TableTypes, SessionType
    <2>2. updateSeq' = updateSeq
      BY <1>33 DEF TeardownReset, duck, locals, monitors, worker
    <2>3. \A f : Known(f) => Known(f)'
      BY <1>k, <2>1, <2>2 DEF Pending
    <2> QED
      BY <1>33, <1>u, <2>3 DEF TeardownReset, duck, locals, monitors, worker
  <1>34. ASSUME DestroyAdapter PROVE QueueKnown'
    <2>1. mon' = mon
      BY <1>34 DEF DestroyAdapter, duck, locals, monitors, table, worker
    <2>2. updateSeq' = updateSeq
      BY <1>34 DEF DestroyAdapter, duck, locals, monitors, table, worker
    <2>3. \A f : Known(f) => Known(f)'
      BY <1>k, <2>1, <2>2 DEF Pending
    <2> QED
      BY <1>34, <1>u, <2>3 DEF DestroyAdapter, duck, locals, monitors, table, worker
  <1>35. ASSUME BringUp PROVE QueueKnown'
    <2>1. mon' = mon
      BY <1>35 DEF BringUp, duck, locals, monitors, table, worker
    <2>2. updateSeq' = updateSeq
      BY <1>35 DEF BringUp, duck, locals, monitors, table, worker
    <2>3. \A f : Known(f) => Known(f)'
      BY <1>k, <2>1, <2>2 DEF Pending
    <2> QED
      BY <1>35, <1>u, <2>3 DEF BringUp, duck, locals, monitors, table, worker
  <1>36. CASE UNCHANGED vars
    BY <1>36, <1>k, <1>u DEF vars, table, worker, Pending
  <1> QED
    <2>h. CASE Host
      BY <1>1, <1>2, <1>3, <2>h DEF Host
    <2>w. CASE Worker
      BY <1>4, <1>5, <1>6, <1>7, <1>8, <1>9, <1>10, <1>11, <1>12, <1>13, <1>14, <1>15,
         <1>16, <1>17, <1>18, <1>19, <1>20, <1>21, <1>22, <2>w DEF Worker, CreateMonitor,
         Push
    <2>e. CASE Exit
      BY <1>27, <1>28, <1>29, <1>30, <1>31, <1>32, <1>33, <1>34, <1>35, <2>e DEF Exit
    <2> QED
      BY <1>23, <1>24, <1>25, <1>26, <1>36, <2>h, <2>w, <2>e DEF Next

-----------------------------------------------------------------------------
(* Refusals.                                                                *)
LEMMA RefusalInit == Init => RefusalKnown /\ NotCarriedOver
  BY DEF Init, RefusalKnown, NotCarriedOver, Stands, OnItsWay

LEMMA RefusalStep ==
  TypeOK /\ Serving /\ PushMarked /\ QueueKnown /\ RefusalKnown /\ NotCarriedOver /\ [Next]_vars
    => RefusalKnown' /\ NotCarriedOver'
  <1> SUFFICES ASSUME TypeOK, Serving, PushMarked, QueueKnown, RefusalKnown, NotCarriedOver,
                      [Next]_vars
               PROVE  RefusalKnown' /\ NotCarriedOver'
    OBVIOUS
  <1>0. TableTypes /\ QueueTypes /\ WorkerTypes /\ MonitorTypes /\ DeviceTypes
    BY DEF TypeOK
  <1>p. adapter <=> pnp = "up"
    BY DEF PushMarked
  <1>t. ASSUME wpc = "settle"
        PROVE  /\ outcome \in OutcomeType /\ Task.op = "update"
               /\ Task.seq \in Nat /\ Task.targets \in Lists /\ Known(Task)
    <2>1. /\ queue # <<>> /\ Task.op = "update" /\ outcome \in OutcomeType
      BY <1>t, <1>0 DEF Serving, WorkerTypes
    <2>2. Task \in EffectType /\ \E i \in DOMAIN queue : Task = queue[i]
      BY <1>0, <2>1, Served DEF QueueTypes, Task
    <2> QED
      BY <2>1, <2>2 DEF EffectType, QueueKnown
  <1>a. ASSUME NEW e \in EffectType, queue' = Append(queue, e), wpc = "settle" PROVE Task' = Task
    BY <1>0, <1>a, Appended DEF QueueTypes, Task, Serving
  (* A step that leaves the refusals and what they rest on alone.           *)
  <1>q. ASSUME UNCHANGED <<mon, committed, fresh>>,
               rt' = None <=> rt = None, rt # None => rt'.obj = rt.obj, adapter' => adapter,
               pnp' \in {"reset", "gone"} => pnp \in {"reset", "gone"},
               pnp' = "forgot" => pnp = "forgot",
               wpc' = "depart" => wpc = "depart", wpc' = "create" => wpc = "create" \/ adapter,
               wpc' = "settle" => \/ wpc = "settle" /\ outcome' = outcome /\ Task' = Task
                                 \/ outcome'.result # "blocked"
        PROVE  RefusalKnown' /\ NotCarriedOver'
    <2>1. /\ Stands' <=> Stands
          /\ OnItsWay' => OnItsWay /\ outcome' = outcome /\ Task' = Task
          /\ \A n : Pending(n)' <=> Pending(n)
      BY <1>q DEF Stands, OnItsWay, Pending
    <2>2. RefusalKnown'
      BY <1>q, <2>1 DEF RefusalKnown
    <2>3. NotCarriedOver'
      BY <1>q, <1>p, <2>1 DEF NotCarriedOver
    <2> QED
      BY <2>2, <2>3
  (* A step that expires the tokens.                                        *)
  <1>e. ASSUME Expire, pnp' \in {"reset", "gone"} => pnp \in {"reset", "gone"},
               wpc' = "settle" => wpc = "settle" /\ outcome' = outcome /\ Task' = Task
        PROVE  RefusalKnown' /\ NotCarriedOver'
    <2>1. ~ Stands' /\ ~ OnItsWay' /\ (mon = None => mon' = None)
      BY <1>0, <1>e, Expired DEF OnItsWay
    <2>2. RefusalKnown'
      BY <1>e, <2>1 DEF RefusalKnown
    <2>3. NotCarriedOver'
      BY <1>e, <2>1 DEF NotCarriedOver
    <2> QED
      BY <2>2, <2>3
  (* A step of the host.                                                    *)
  <1>h. ASSUME UNCHANGED <<rt, committed, fresh, adapter, pnp, wpc, outcome>>, adapter,
               wpc = "settle" => Task' = Task,
               Stands' => Stands /\ mon'.blocked = mon.blocked,
               \A n : wpc = "settle" /\ n = Task.seq /\ Pending(n)' => Pending(n)
        PROVE  RefusalKnown' /\ NotCarriedOver'
    <2>1. OnItsWay' <=> OnItsWay
      BY <1>h DEF OnItsWay
    <2>2. RefusalKnown'
      BY <1>h, <2>1 DEF RefusalKnown, OnItsWay
    <2>3. NotCarriedOver'
      BY <1>h, <1>p, <2>1 DEF NotCarriedOver, OnItsWay
    <2> QED
      BY <2>2, <2>3
  <1>1. ASSUME NEW l \in Supersets, HostCreate(l) PROVE RefusalKnown' /\ NotCarriedOver'
    <2>1. PICK e \in EffectType : e = Plug(l, l)
      BY SupersetsAssumption DEF Plug, EffectType
    <2>2. queue' = Append(queue, e) /\ mon' = Created(l) /\ adapter
      BY <1>1, <2>1 DEF HostCreate, MayDispatch
    <2>3. ~ Stands' /\ \A n : ~ Pending(n)'
      BY <2>2 DEF Created, Stands, Pending
    <2>4. UNCHANGED <<rt, committed, fresh, adapter, pnp, wpc, outcome>>
      BY <1>1 DEF HostCreate, locals, monitors, device
    <2> QED
      BY <1>a, <1>h, <2>2, <2>3, <2>4
  <1>2. ASSUME HostDestroy PROVE RefusalKnown' /\ NotCarriedOver'
    <2>1. PICK e \in EffectType : e = Unplug
      BY DEF Unplug, EffectType
    <2>2. queue' = Append(queue, e) /\ mon' = None /\ adapter
      BY <1>2, <2>1 DEF HostDestroy, MayDispatch
    <2>3. ~ Stands' /\ \A n : ~ Pending(n)'
      BY <2>2 DEF Stands, Pending
    <2>4. UNCHANGED <<rt, committed, fresh, adapter, pnp, wpc, outcome>>
      BY <1>2 DEF HostDestroy, locals, monitors, device
    <2> QED
      BY <1>a, <1>h, <2>2, <2>3, <2>4
  <1>3. ASSUME NEW l \in Lists, HostUpdate(l) PROVE RefusalKnown' /\ NotCarriedOver'
    <2> DEFINE targets == Select(mon.superset, l)
    <2>a. mon \in SessionType /\ updateSeq \in Nat /\ Remembered \in BlockedType \cup {None}
      BY <1>3, <1>0 DEF HostUpdate, TableTypes, SessionType, Remembered
    <2>b. UNCHANGED <<rt, committed, fresh, adapter, pnp, wpc, outcome>> /\ adapter
      BY <1>3 DEF HostUpdate, MayDispatch, locals, monitors, device
    <2>1. CASE Answered(targets)
      <3>1. UNCHANGED queue /\ mon' = [mon EXCEPT !.blocked = Remembered]
        BY <1>3, <2>1 DEF HostUpdate
      <3>2. mon'.blocked = Remembered /\ mon'.pending = mon.pending /\ mon # None
        BY <1>3, <2>a, <3>1 DEF SessionType, HostUpdate
      <3>3. Stands' => Stands /\ mon'.blocked = mon.blocked
        BY <2>a, <3>2 DEF Stands, Remembered
      <3>4. \A n : Pending(n)' => Pending(n)
        BY <3>2 DEF Pending
      <3> QED
        BY <1>h, <2>b, <3>1, <3>3, <3>4 DEF Task
    <2>2. CASE ~ Answered(targets)
      <3>1. /\ queue' = Append(queue, Update(updateSeq + 1, targets)) /\ targets \in Lists
            /\ mon' = [mon EXCEPT !.blocked = None,
                                  !.pending = [seq |-> updateSeq + 1, targets |-> targets]]
        BY <1>3, <2>2 DEF HostUpdate, Answered
      <3> HIDE DEF targets
      <3>2. PICK e \in EffectType : e = Update(updateSeq + 1, targets)
        BY <2>a, <3>1 DEF Update, EffectType
      <3>3. mon'.blocked = None /\ mon'.pending = [seq |-> updateSeq + 1, targets |-> targets]
        BY <2>a, <3>1 DEF SessionType
      <3>4. ~ Stands'
        BY <3>3 DEF Stands
      <3>5. \A n : Pending(n)' => n = updateSeq + 1
        BY <3>3 DEF Pending
      <3>6. wpc = "settle" => Task.seq \in Nat /\ Task.seq <= updateSeq
        BY <1>t DEF Known
      <3>7. \A n : wpc = "settle" /\ n = Task.seq /\ Pending(n)' => Pending(n)
        BY <2>a, <3>5, <3>6
      <3> QED
        BY <1>a, <1>h, <2>b, <3>1, <3>2, <3>4, <3>7
    <2> QED
      BY <2>1, <2>2
  <1>4. ASSUME StartPlug PROVE RefusalKnown' /\ NotCarriedOver'
    <2>1. UNCHANGED <<mon, committed, fresh, rt, adapter, pnp>>
      BY <1>4 DEF StartPlug, Done, device, duck, table
    <2>2. \/ wpc' = "idle"
          \/ wpc' = "create" /\ adapter
      BY <1>4 DEF StartPlug, Done, device, duck, table
    <2> QED
      BY <1>q, <2>1, <2>2, Outcomes
  <1>5. ASSUME StartReplug PROVE RefusalKnown' /\ NotCarriedOver'
    <2>1. UNCHANGED <<mon, committed, fresh, rt, adapter, pnp>>
      BY <1>5 DEF StartReplug, Done, device, table
    <2>2. \/ wpc' = "idle"
          \/ wpc' = "create" /\ adapter
      BY <1>5 DEF StartReplug, Done, device, table
    <2> QED
      BY <1>q, <2>1, <2>2, Outcomes
  <1>6. ASSUME CreateFails PROVE RefusalKnown' /\ NotCarriedOver'
    <2>1. UNCHANGED <<mon, committed, fresh, rt, adapter, pnp>>
      BY <1>6 DEF CreateFails, Done, device, monitors, table
    <2>2. \/ wpc' = "idle"
      BY <1>6 DEF CreateFails, Done, device, monitors, table
    <2> QED
      BY <1>q, <2>1, <2>2, Outcomes
  <1>7. ASSUME NEW o \in Objects, Arrive(o) PROVE RefusalKnown' /\ NotCarriedOver'
    <2>1. CASE rt # None
      <3>1. Expire /\ UNCHANGED pnp /\ wpc' = "idle"
        BY <1>7, <2>1 DEF Arrive, Forget, Done, device
      <3> QED
        BY <1>e, <3>1
    <2>2. CASE rt = None
      <3>1. UNCHANGED <<mon, fresh, committed, adapter, pnp>> /\ wpc = "create" /\ wpc' = "idle"
        BY <1>7, <2>2 DEF Arrive, Done, device
      <3>2. ~ Stands /\ ~ Stands' /\ ~ OnItsWay'
        BY <2>2, <3>1 DEF NotCarriedOver, Stands, OnItsWay
      <3>3. RefusalKnown'
        BY <3>1, <3>2 DEF RefusalKnown
      <3>4. NotCarriedOver'
        BY <3>1, <3>2 DEF NotCarriedOver
      <3> QED
        BY <3>3, <3>4
    <2> QED
      BY <2>1, <2>2
  <1>8. ASSUME NEW o \in Objects, ArrivalFails(o) PROVE RefusalKnown' /\ NotCarriedOver'
    <2>1. CASE rt # None
      <3>1. Expire /\ UNCHANGED pnp /\ wpc' = "idle"
        BY <1>8, <2>1 DEF ArrivalFails, Forget, Done, device
      <3> QED
        BY <1>e, <3>1
    <2>2. CASE rt = None
      <3>1. UNCHANGED <<mon, fresh, committed, adapter, pnp>> /\ wpc = "create" /\ wpc' = "idle"
        BY <1>8, <2>2 DEF ArrivalFails, Done, device
      <3>2. ~ Stands /\ ~ Stands' /\ ~ OnItsWay'
        BY <2>2, <3>1 DEF NotCarriedOver, Stands, OnItsWay
      <3>3. RefusalKnown'
        BY <3>1, <3>2 DEF RefusalKnown
      <3>4. NotCarriedOver'
        BY <3>1, <3>2 DEF NotCarriedOver
      <3> QED
        BY <3>3, <3>4
    <2> QED
      BY <2>1, <2>2
  <1>9. ASSUME StartUnplug PROVE RefusalKnown' /\ NotCarriedOver'
    <2>1. CASE parked # None \/ rt = None
      <3>1. UNCHANGED <<mon, fresh, committed, rt, adapter, pnp>> /\ wpc' = "idle"
        BY <1>9, <2>1 DEF StartUnplug, Done, device
      <3> QED
        BY <1>q, <3>1
    <2>2. CASE ~ (parked # None \/ rt = None)
      <3>1. Expire /\ UNCHANGED pnp /\ wpc' = "depart"
        BY <1>9, <2>2 DEF StartUnplug, Forget, device
      <3> QED
        BY <1>e, <3>1
    <2> QED
      BY <2>1, <2>2
  <1>10. ASSUME Depart PROVE RefusalKnown' /\ NotCarriedOver'
    <2>1. /\ UNCHANGED <<mon, fresh, committed, adapter, pnp>> /\ rt' = None
          /\ wpc = "depart" /\ wpc' = "idle"
      BY <1>10 DEF Depart, Done, table
    <2>2. ~ Stands /\ ~ Stands' /\ ~ OnItsWay'
      BY <2>1 DEF NotCarriedOver, Stands, OnItsWay
    <2>3. RefusalKnown'
      BY <2>1, <2>2 DEF RefusalKnown
    <2>4. NotCarriedOver'
      BY <2>1, <2>2 DEF NotCarriedOver
    <2> QED
      BY <2>3, <2>4
  <1>11. ASSUME StartPush PROVE RefusalKnown' /\ NotCarriedOver'
    <2>1. UNCHANGED <<mon, committed, fresh, rt, adapter, pnp>>
      BY <1>11 DEF StartPush, Settling, device, duck, table
    <2>2. \/ wpc' = "adapter"
          \/ wpc' = "settle" /\ outcome' \in {Applied, NotApplied}
      BY <1>11 DEF StartPush, Settling, device, duck, table
    <2> QED
      BY <1>q, <2>1, <2>2, Outcomes
  <1>12. ASSUME ReadAdapter PROVE RefusalKnown' /\ NotCarriedOver'
    <2>1. UNCHANGED <<mon, committed, fresh, rt, adapter, pnp>>
      BY <1>12 DEF ReadAdapter, Settling, device, duck, monitors, table
    <2>2. \/ wpc' = "publish"
          \/ wpc' = "settle" /\ outcome' = NotApplied
      BY <1>12 DEF ReadAdapter, Settling, device, duck, monitors, table
    <2> QED
      BY <1>q, <2>1, <2>2, Outcomes
  <1>13. ASSUME Refuse PROVE RefusalKnown' /\ NotCarriedOver'
    <2>0. /\ UNCHANGED <<mon, rt, committed, adapter, pnp, queue>> /\ wpc = "publish"
             /\ wpc' = "settle"
      BY <1>13 DEF Refuse, Settling, table, monitors, device
    <2>1. CASE outcome' = NotApplied /\ UNCHANGED fresh
      BY <1>q, <2>0, <2>1, Outcomes
    <2>2. CASE /\ Pushable /\ Evicts(rt.obj, rt.superset, Task.targets)
               /\ outcome' = Blocked(committed[rt.obj])
      <3>1. /\ rt # None /\ committed[rt.obj] \notin Range(Task.targets)
            /\ outcome'.mode = committed[rt.obj]
        BY <2>2 DEF Pushable, Evicts, Blocked
      <3>2. (Stands' <=> Stands) /\ Task' = Task
        BY <2>0 DEF Stands, Task
      <3>3. RefusalKnown'
        BY <2>0, <3>1, <3>2 DEF RefusalKnown
      <3>4. NotCarriedOver'
        BY <2>0, <3>1, <3>2 DEF NotCarriedOver
      <3> QED
        BY <3>3, <3>4
    <2> QED
      BY <1>13, <2>1, <2>2 DEF Refuse, Settling
  <1>14. ASSUME Publish PROVE RefusalKnown' /\ NotCarriedOver'
    <2>1. Task.targets \in Lists /\ rt \in RuntimeType /\ rt # None
      <3>1. queue # <<>> /\ Task.op = "update" /\ rt # None
        BY <1>14 DEF Publish, Pushable, Serving, Pushing
      <3>2. Task \in EffectType
        BY <1>0, <3>1, Served DEF QueueTypes, Task
      <3> QED
        BY <1>0, <3>1, <3>2 DEF EffectType, MonitorTypes
    <2>2. rt' # None /\ rt'.obj = rt.obj
      BY <1>14, <2>1, Patched DEF Publish
    <2>3. UNCHANGED <<mon, committed, fresh, adapter, pnp>> /\ wpc' = "epoch"
      BY <1>14 DEF Publish, table, device
    <2> QED
      BY <1>q, <2>1, <2>2, <2>3
  <1>15. ASSUME CheckEpoch PROVE RefusalKnown' /\ NotCarriedOver'
    <2>1. (rt' = None <=> rt = None) /\ (rt # None => rt'.obj = rt.obj)
      <3>1. rt' = rt \/ (rt # None /\ rt' = [rt EXCEPT !.targets = lists.targets])
        BY <1>15 DEF CheckEpoch, Restore
      <3>2. lists.targets \in Lists
        BY <1>15, <1>0 DEF CheckEpoch, Serving, WorkerTypes, PlugLists
      <3> QED
        <4>1. CASE rt' = rt
          BY <4>1
        <4>2. CASE rt # None /\ rt' = [rt EXCEPT !.targets = lists.targets]
          <5>1. rt \in RuntimeType
            BY <1>0, <4>2 DEF MonitorTypes
          <5> QED
            BY <3>2, <4>2, <5>1, Patched
        <4> QED
          BY <3>1, <4>1, <4>2
    <2>2. /\ UNCHANGED <<mon, committed, fresh, adapter, pnp>>
          /\ \/ wpc' = "call"
             \/ wpc' = "settle" /\ outcome' = NotApplied
      BY <1>15 DEF CheckEpoch, Settling, table, device
    <2> QED
      BY <1>q, <2>1, <2>2, Outcomes
  <1>16. ASSUME OSAccepts PROVE RefusalKnown' /\ NotCarriedOver'
    <2>1. UNCHANGED <<mon, committed, fresh, rt, adapter, pnp>>
      BY <1>16 DEF OSAccepts, Settling, device, duck, monitors, table
    <2>2. \/ wpc' = "settle" /\ outcome' = Applied
      BY <1>16 DEF OSAccepts, Settling, device, duck, monitors, table
    <2> QED
      BY <1>q, <2>1, <2>2, Outcomes
  <1>17. ASSUME OSRefuses PROVE RefusalKnown' /\ NotCarriedOver'
    <2>1. (rt' = None <=> rt = None) /\ (rt # None => rt'.obj = rt.obj)
      <3>1. rt' = rt \/ (rt # None /\ rt' = [rt EXCEPT !.targets = lists.targets])
        BY <1>17 DEF OSRefuses, Restore
      <3>2. lists.targets \in Lists
        BY <1>17, <1>0 DEF OSRefuses, Serving, WorkerTypes, PlugLists
      <3> QED
        <4>1. CASE rt' = rt
          BY <4>1
        <4>2. CASE rt # None /\ rt' = [rt EXCEPT !.targets = lists.targets]
          <5>1. rt \in RuntimeType
            BY <1>0, <4>2 DEF MonitorTypes
          <5> QED
            BY <3>2, <4>2, <5>1, Patched
        <4> QED
          BY <3>1, <4>1, <4>2
    <2>2. /\ UNCHANGED <<mon, committed, fresh, adapter, pnp>>
          /\ \/ wpc' = "call"
             \/ wpc' = "settle" /\ outcome' = NotApplied
      BY <1>17 DEF OSRefuses, Settling, table, device
    <2> QED
      BY <1>q, <2>1, <2>2, Outcomes
  <1>18. ASSUME Settle PROVE RefusalKnown' /\ NotCarriedOver'
    <2>0. /\ UNCHANGED <<rt, committed, adapter, pnp>> /\ wpc = "settle" /\ wpc' = "idle"
             /\ fresh' = FALSE
          /\ \/ mon' = mon
             \/ mon # None /\ mon.pending # None /\ mon.pending.seq = Task.seq /\ mon' = Decided
             \/ mon # None /\ mon' = Superseded
      BY <1>18 DEF Settle, Done, monitors, device
    <2>t. outcome \in OutcomeType /\ Known(Task) /\ Task.op = "update"
      BY <1>t, <2>0
    <2>a. mon # None => mon \in SessionType
      BY <1>0 DEF TableTypes
    (* A refusal that stood, or the one on its way.                         *)
    <2>1. Stands' => \/ Stands /\ mon'.blocked = mon.blocked
                    \/ /\ OnItsWay /\ Pending(Task.seq)
                       /\ mon'.blocked.mode = outcome.mode /\ mon'.blocked.targets = Task.targets
      <3>1. CASE mon' = mon
        BY <3>1 DEF Stands
      <3>2. CASE mon # None /\ mon' = Superseded
        BY <2>a, <3>2 DEF Superseded, Stands, SessionType
      <3>3. CASE mon # None /\ mon.pending # None /\ mon.pending.seq = Task.seq /\ mon' = Decided
        <4>1. Pending(Task.seq) /\ mon.pending.targets = Task.targets
          BY <2>t, <3>3 DEF Pending, Known
        <4>2. CASE outcome.result = "applied"
          BY <2>a, <3>3, <4>2 DEF Decided, Stands, SessionType
        <4>3. CASE outcome.result = "not applied"
          BY <2>a, <3>3, <4>3 DEF Decided, Stands, SessionType
        <4>4. CASE outcome.result \notin {"applied", "not applied"}
          <5>1. outcome.result = "blocked"
            BY <2>t, <4>4 DEF OutcomeType
          <5>2. mon'.blocked = [targets |-> mon.pending.targets,
                                mode |-> outcome.mode, current |-> fresh]
            BY <2>a, <3>3, <4>4 DEF Decided, SessionType
          <5>3. /\ mon'.blocked.mode = outcome.mode /\ mon'.blocked.targets = Task.targets
                /\ mon'.blocked.current = fresh
            BY <4>1, <5>2
          <5> QED
            BY <2>0, <4>1, <5>1, <5>3 DEF Stands, OnItsWay
        <4> QED
          BY <4>2, <4>3, <4>4
      <3> QED
        BY <2>0, <3>1, <3>2, <3>3
    <2>2. mon = None => mon' = None
      BY <2>0
    <2>3. RefusalKnown'
      BY <2>0, <2>1 DEF RefusalKnown, OnItsWay
    <2>4. NotCarriedOver'
      BY <2>0, <2>1, <2>2 DEF NotCarriedOver, OnItsWay
    <2> QED
      BY <2>3, <2>4
  <1>19. ASSUME DuckNothing PROVE RefusalKnown' /\ NotCarriedOver'
    <2>1. UNCHANGED <<mon, committed, fresh, rt, adapter, pnp>>
      BY <1>19 DEF DuckNothing, Done, device, duck, monitors, table
    <2>2. \/ wpc' = "idle"
      BY <1>19 DEF DuckNothing, Done, device, duck, monitors, table
    <2> QED
      BY <1>q, <2>1, <2>2, Outcomes
  <1>20. ASSUME DuckDevice PROVE RefusalKnown' /\ NotCarriedOver'
    <2>1. UNCHANGED <<mon, committed, fresh, rt, adapter, pnp>>
      BY <1>20 DEF DuckDevice, Done, device, duck, monitors, table
    <2>2. \/ wpc' = "idle"
      BY <1>20 DEF DuckDevice, Done, device, duck, monitors, table
    <2> QED
      BY <1>q, <2>1, <2>2, Outcomes
  <1>21. ASSUME DuckDepart PROVE RefusalKnown' /\ NotCarriedOver'
    <2>1. UNCHANGED <<mon, committed, fresh, rt, adapter, pnp>>
      BY <1>21 DEF DuckDepart, duck, monitors, table
    <2>2. \/ wpc' = "park"
      BY <1>21 DEF DuckDepart, duck, monitors, table
    <2> QED
      BY <1>q, <2>1, <2>2, Outcomes
  <1>22. ASSUME Park PROVE RefusalKnown' /\ NotCarriedOver'
    <2>1. CASE rt # None
      <3>1. Expire /\ UNCHANGED pnp /\ wpc' = "idle"
        BY <1>22, <2>1 DEF Park, Forget, Done, device
      <3> QED
        BY <1>e, <3>1
    <2>2. CASE rt = None
      <3>1. UNCHANGED <<mon, fresh, committed, rt, adapter, pnp>> /\ wpc' = "idle"
        BY <1>22, <2>2 DEF Park, Done, device
      <3> QED
        BY <1>q, <3>1
    <2> QED
      BY <2>1, <2>2
  <1>23. ASSUME ArmDuck PROVE RefusalKnown' /\ NotCarriedOver'
    <2>0. PICK e \in EffectType : e = Duck(epoch)
      BY <1>23, <1>0 DEF ArmDuck, device, duck, locals, monitors, table, Duck,
         EffectType, DeviceTypes
    <2>1. queue' = Append(queue, e)
          /\ UNCHANGED <<mon, committed, fresh, rt, adapter, pnp, wpc, outcome>>
      BY <1>23, <2>0 DEF ArmDuck, device, duck, locals, monitors, table
    <2> QED
      BY <1>a, <1>q, <2>1
  <1>24. ASSUME PollerReplugs PROVE RefusalKnown' /\ NotCarriedOver'
    <2>0. PICK e \in EffectType : e = Replug(poller)
      BY <1>24, <1>0 DEF PollerReplugs, device, locals, monitors, table, Replug,
         EffectType, DeviceTypes
    <2>1. queue' = Append(queue, e)
          /\ UNCHANGED <<mon, committed, fresh, rt, adapter, pnp, wpc, outcome>>
      BY <1>24, <2>0 DEF PollerReplugs, device, locals, monitors, table
    <2> QED
      BY <1>a, <1>q, <2>1
  <1>25. ASSUME PollerEnds PROVE RefusalKnown' /\ NotCarriedOver'
    <2>1. UNCHANGED <<mon, committed, fresh, rt, wpc, outcome, queue>> /\ UNCHANGED <<adapter, pnp>>
      BY <1>25 DEF PollerEnds, device, locals, table, worker
    <2> QED
      BY <1>q, <2>1 DEF Task
  <1>26. ASSUME NEW m \in Modes \cup {None}, Commit(m) PROVE RefusalKnown' /\ NotCarriedOver'
    <2>1. Expire /\ UNCHANGED <<pnp, wpc, outcome, queue>>
      BY <1>26 DEF Commit, device
    <2> QED
      BY <1>e, <2>1 DEF Task
  <1>27. ASSUME ClearAdapter PROVE RefusalKnown' /\ NotCarriedOver'
    <2>1. UNCHANGED <<mon, committed, fresh, rt, wpc, outcome, queue>> /\ adapter' = FALSE
          /\ pnp' = "cleared"
      BY <1>27 DEF ClearAdapter, duck, locals, monitors, table, worker
    <2> QED
      BY <1>q, <2>1 DEF Task
  <1>28. ASSUME DrainPushes PROVE RefusalKnown' /\ NotCarriedOver'
    <2>1. UNCHANGED <<mon, committed, fresh, rt, wpc, outcome, queue>> /\ adapter' = adapter
          /\ pnp' = "waited"
      BY <1>28 DEF DrainPushes, duck, locals, monitors, table, worker
    <2> QED
      BY <1>q, <2>1 DEF Task
  <1>29. ASSUME DrainTimesOut PROVE RefusalKnown' /\ NotCarriedOver'
    <2>1. UNCHANGED <<mon, committed, fresh, rt, wpc, outcome, queue>> /\ adapter' = adapter
          /\ pnp' = "waited"
      BY <1>29 DEF DrainTimesOut, duck, locals, monitors, table, worker
    <2> QED
      BY <1>q, <2>1 DEF Task
  <1>30. ASSUME ForgetAll PROVE RefusalKnown' /\ NotCarriedOver'
    <2>1. Expire /\ pnp' = "forgot" /\ UNCHANGED <<wpc, outcome, queue>>
      BY <1>30 DEF ForgetAll
    <2> QED
      BY <1>e, <2>1 DEF Task
  <1>31. ASSUME DrainMonitors PROVE RefusalKnown' /\ NotCarriedOver'
    <2>1. /\ UNCHANGED <<mon, fresh, committed, adapter, wpc, outcome, queue>> /\ rt' = None
          /\ pnp = "forgot" /\ pnp' = "drained" /\ ~ adapter
      BY <1>31, <1>p DEF DrainMonitors, table, worker, locals
    <2>2. Stands' <=> Stands
      BY <2>1 DEF Stands
    <2>3. RefusalKnown'
      BY <2>1, <2>2 DEF RefusalKnown, Task
    <2>4. NotCarriedOver'
      BY <2>1, <2>2 DEF NotCarriedOver
    <2> QED
      BY <2>3, <2>4
  <1>32. ASSUME DrainParked PROVE RefusalKnown' /\ NotCarriedOver'
    <2>1. UNCHANGED <<mon, committed, fresh, rt, wpc, outcome, queue>> /\ adapter' = adapter
          /\ pnp' = "unparked"
      BY <1>32 DEF DrainParked, duck, locals, table, worker
    <2> QED
      BY <1>q, <2>1 DEF Task
  <1>33. ASSUME TeardownReset PROVE RefusalKnown' /\ NotCarriedOver'
    <2>1. /\ UNCHANGED <<rt, fresh, committed, adapter, wpc, outcome, queue>> /\ mon' = None
          /\ pnp' = "reset"
      BY <1>33 DEF TeardownReset, worker, locals, monitors
    <2>2. ~ Stands' /\ (\A n : ~ Pending(n)') /\ (OnItsWay' <=> OnItsWay) /\ Task' = Task
      BY <2>1 DEF Stands, Pending, OnItsWay, Task
    <2>3. RefusalKnown'
      BY <2>1, <2>2 DEF RefusalKnown
    <2>4. NotCarriedOver'
      BY <2>1, <2>2 DEF NotCarriedOver
    <2> QED
      BY <2>3, <2>4
  <1>34. ASSUME DestroyAdapter PROVE RefusalKnown' /\ NotCarriedOver'
    <2>1. UNCHANGED <<mon, committed, fresh, rt, wpc, outcome, queue>> /\ adapter' = adapter
          /\ pnp = "reset" /\ pnp' = "gone"
      BY <1>34 DEF DestroyAdapter, duck, locals, monitors, table, worker
    <2> QED
      BY <1>q, <2>1 DEF Task
  <1>35. ASSUME BringUp PROVE RefusalKnown' /\ NotCarriedOver'
    <2>1. /\ UNCHANGED <<mon, rt, fresh, committed, wpc, outcome, queue>> /\ pnp = "gone"
          /\ pnp' = "up"
      BY <1>35 DEF BringUp, table, worker, locals, monitors
    <2>2. mon = None
      BY <2>1 DEF NotCarriedOver
    <2>3. ~ Stands' /\ (\A n : ~ Pending(n)') /\ (OnItsWay' <=> OnItsWay) /\ Task' = Task
      BY <2>1, <2>2 DEF Stands, Pending, OnItsWay, Task
    <2>4. RefusalKnown'
      BY <2>1, <2>3 DEF RefusalKnown
    <2>5. NotCarriedOver'
      BY <2>1, <2>3 DEF NotCarriedOver
    <2> QED
      BY <2>4, <2>5
  <1>36. CASE UNCHANGED vars
    BY <1>36, <1>q DEF vars, table, worker, locals, monitors, device, Task
  <1> QED
    <2>h. CASE Host
      BY <1>1, <1>2, <1>3, <2>h DEF Host
    <2>w. CASE Worker
      BY <1>4, <1>5, <1>6, <1>7, <1>8, <1>9, <1>10, <1>11, <1>12, <1>13, <1>14, <1>15,
         <1>16, <1>17, <1>18, <1>19, <1>20, <1>21, <1>22, <2>w DEF Worker, CreateMonitor,
         Push
    <2>e. CASE Exit
      BY <1>27, <1>28, <1>29, <1>30, <1>31, <1>32, <1>33, <1>34, <1>35, <2>e DEF Exit
    <2> QED
      BY <1>23, <1>24, <1>25, <1>26, <1>36, <2>h, <2>w, <2>e DEF Next

LEMMA RefusalHolds == TypeOK /\ RefusalKnown => RefusalIsTrue
  BY DEF RefusalKnown, RefusalIsTrue, Remembered, Stands

-----------------------------------------------------------------------------
(* The theorems.                                                            *)

(* Every variable has its type: what a handler queues is an effect the      *)
(* worker can carry out, and every task finds the lists it needs.           *)
THEOREM TypeCorrect == Spec => []TypeOK
  <1>1. TypeOK /\ Serving /\ [Next]_vars => TypeOK' /\ Serving'
    BY TypingStep
  <1> QED
    BY TypingInit, <1>1, PTL DEF Spec

(* A monitor the OS has been called on is not destroyed before the call     *)
(* returns, unless the final exit stopped waiting for it.                   *)
THEOREM KeptThroughTheCall == Spec => NotDestroyedInCall
  <1>1. PushMarked /\ [Next]_vars =>
          [wpc = "call" /\ obj \in alive /\ ~ timedOut => obj \in alive']_vars
    BY KeptInCall
  <1> QED
    BY MarkedInit, MarkedStep, <1>1, PTL DEF Spec, NotDestroyedInCall

(* However a push ends, the monitor offers modes it has and the preferred   *)
(* one is among them.                                                       *)
THEOREM OfferStands == Spec => []AlwaysActivatable
  <1>1. TypeOK /\ Serving /\ [Next]_vars => TypeOK' /\ Serving'
    BY TypingStep
  <1>2. TypeOK /\ Serving /\ MonitorsOffered /\ PlugsOffered /\ [Next]_vars
          => MonitorsOffered' /\ PlugsOffered'
    BY OfferedStep
  <1> QED
    BY TypingInit, OfferedInit, <1>1, <1>2, OfferedIsActivatable, PTL DEF Spec

(* A refusal that would be answered from memory is true of the monitor that *)
(* is there now.                                                            *)
THEOREM RefusalsAreTrue == Spec => []RefusalIsTrue
  <1>1. TypeOK /\ Serving /\ [Next]_vars => TypeOK' /\ Serving'
    BY TypingStep
  <1>2. TypeOK /\ Serving /\ QueueKnown /\ [Next]_vars => QueueKnown'
    BY KnownStep
  <1>3. TypeOK /\ Serving /\ PushMarked /\ QueueKnown /\ RefusalKnown /\ NotCarriedOver
        /\ [Next]_vars
          => RefusalKnown' /\ NotCarriedOver'
    BY RefusalStep
  <1> QED
    BY TypingInit, MarkedInit, MarkedStep, KnownInit, RefusalInit, <1>1, <1>2, <1>3,
       RefusalHolds, PTL DEF Spec
-----------------------------------------------------------------------------
(***************************************************************************)
(* The list in force, when no effect outlives its device.  Effects of a     *)
(* session are carried out before those of the next one of the same id: a   *)
(* plug finds nothing of an earlier session, an update that comes before    *)
(* the session's plug is one the table does not settle, and every other     *)
(* one is waited for.                                                       *)
(***************************************************************************)
Before(q, i, op) == \E j \in DOMAIN q : j < i /\ q[j].op = op
After(q, i, op) == \E j \in DOMAIN q : i < j /\ q[j].op = op

Increasing(q) ==
  \A i, j \in DOMAIN q :
    i < j /\ q[i].op = "update" /\ q[j].op = "update" => q[i].seq < q[j].seq
Alternating(q) ==
  \A i, k \in DOMAIN q :
    i < k /\ q[i].op = "plug" /\ q[k].op = "plug" =>
      \E j \in DOMAIN q : i < j /\ j < k /\ q[j].op = "unplug"

(* The queue of a session with these lists and numbers *)
Owned(q, targets, pending, settled) ==
  \A i \in DOMAIN q :
    /\ q[i].op = "unplug" => After(q, i, "plug")
    /\ q[i].op = "plug" /\ ~ After(q, i, "plug") => q[i].targets = targets
    /\ q[i].op = "update" =>
         /\ q[i].seq <= settled <=> After(q, i, "plug")
         /\ q[i].seq > settled => pending # None /\ q[i].seq <= pending.seq
(* The queue of no session: what there is of one is unplugged. *)
Disowned(q) == \A i \in DOMAIN q : q[i].op = "plug" => After(q, i, "unplug")
Unplugs(q) == \E i \in DOMAIN q : q[i].op = "unplug"
(* Before a plug, what there is of an earlier session is unplugged. *)
Cleared(q) == \A i \in DOMAIN q : q[i].op = "plug" => Before(q, i, "unplug")

(* There is a monitor, parked or not, or one about to come back. *)
Bound ==
  \/ Arrived \/ parked # None
  \/ wpc = "park" /\ rt # None
  \/ wpc = "create" /\ Task.op = "replug"

Orderly ==
  /\ Increasing(queue) /\ Alternating(queue) /\ (Bound => Cleared(queue))
  /\ mon # None => /\ Owned(queue, mon.targets, mon.pending, mon.settled)
                   /\ mon.settled <= updateSeq
  /\ mon = None /\ adapter => Disowned(queue) /\ (Bound => Unplugs(queue))

(* One duck-out at a time: its task, its poller or its replug. *)
DuckTasks(q) == {i \in DOMAIN q : q[i].op \in {"duck", "replug"}}
OneDuck ==
  /\ \A i, j \in DuckTasks(queue) : i = j
  /\ DuckTasks(queue) # {} => latch /\ poller = None
  /\ poller # None => latch
  /\ parked # None => latch /\ \A i \in DOMAIN queue : queue[i].op # "duck"

Placed ==
  /\ wpc = "create" => Task.op \in {"plug", "replug"}
  /\ wpc = "create" /\ Task.op = "plug" => lists.targets = Task.targets
  /\ wpc = "depart" => Task.op = "unplug"
  /\ wpc = "park" => Task.op = "duck"
  /\ wpc \in Pushing \cup {"create", "depart", "park"} => parked = None
  /\ parked # None => rt = None
  /\ wpc \in {"epoch", "call"} /\ rt # None => rt.obj = obj /\ rt.targets = Task.targets
  /\ pnp = "gone" => alive = {}

(* The list the monitor has: the table's, but for a push not settled *)
Ahead == wpc \in {"epoch", "call"} \/ (wpc = "settle" /\ outcome.result = "applied")
ListIs(l) ==
  /\ Arrived \/ (wpc = "park" /\ rt # None) => rt.targets = l
  /\ parked # None => parked.targets = l
Truthful ==
  mon # None /\ ~ PlugDue =>
    /\ IF Ahead THEN ListIs(Task.targets) ELSE ListIs(mon.targets)
    /\ wpc = "create" \/ (wpc \in {"epoch", "call"} /\ Arrived) => lists.targets = mon.targets

(* The queue, place by place *)
LEMMA Pushed ==
  ASSUME NEW T, NEW q \in Seq(T), NEW e \in T
  PROVE  \E n \in Nat :
           /\ DOMAIN q = 1 .. n /\ DOMAIN Append(q, e) = 1 .. n + 1
           /\ Append(q, e)[n + 1] = e /\ \A i \in 1 .. n : Append(q, e)[i] = q[i]
  <1>1. /\ Append(q, e) \in Seq(T) /\ Len(Append(q, e)) = Len(q) + 1
        /\ Append(q, e)[Len(q) + 1] = e
        /\ \A i \in 1 .. Len(q) : Append(q, e)[i] = q[i]
    BY AppendProperties
  <1>2. /\ Len(q) \in Nat /\ DOMAIN q = 1 .. Len(q)
        /\ DOMAIN Append(q, e) = 1 .. Len(q) + 1
    BY <1>1, LenProperties
  <1> QED
    BY <1>1, <1>2

LEMMA Popped ==
  ASSUME NEW T, NEW q \in Seq(T), q # <<>>
  PROVE  \E n \in Nat :
           /\ DOMAIN q = 1 .. n + 1 /\ DOMAIN Tail(q) = 1 .. n
           /\ q[1] = Head(q) /\ \A i \in 1 .. n : Tail(q)[i] = q[i + 1]
  <1>1. Len(q) \in Nat \ {0} /\ DOMAIN q = 1 .. Len(q) /\ Head(q) = q[1]
    BY EmptySeq
  <1>2. /\ Tail(q) \in Seq(T) /\ Len(Tail(q)) = Len(q) - 1
        /\ \A i \in 1 .. Len(Tail(q)) : Tail(q)[i] = q[i + 1]
    BY HeadTailProperties
  <1>3. DOMAIN Tail(q) = 1 .. Len(q) - 1
    BY <1>2
  <1>4. Len(q) - 1 \in Nat /\ Len(q) - 1 + 1 = Len(q)
    BY <1>1
  <1> QED
    BY <1>1, <1>2, <1>3, <1>4

(* A task of a duck-out is added. *)
LEMMA DuckAdded ==
  ASSUME NEW T, NEW q \in Seq(T), NEW e \in T, e.op \in {"duck", "replug"},
         NEW r, r = Append(q, e)
  PROVE  /\ \A i \in DOMAIN q : r[i] = q[i] /\ i \in DOMAIN r
         /\ Increasing(q) => Increasing(r)
         /\ Alternating(q) => Alternating(r)
         /\ \A t, p, s : Owned(q, t, p, s) => Owned(r, t, p, s)
         /\ Disowned(q) => Disowned(r)
         /\ Cleared(q) => Cleared(r)
         /\ Unplugs(q) => Unplugs(r)
         /\ \A i \in DOMAIN r :
              r[i].op \in {"duck", "replug"} \/ (i \in DOMAIN q /\ r[i] = q[i])
  <1>1. PICK n \in Nat :
          /\ DOMAIN q = 1 .. n /\ DOMAIN r = 1 .. n + 1
          /\ r[n + 1] = e /\ \A i \in 1 .. n : r[i] = q[i]
    BY Pushed
  <1>2. \A i \in DOMAIN r : \/ i \in DOMAIN q /\ r[i] = q[i]
                            \/ i = n + 1 /\ r[i].op \notin {"plug", "unplug", "update"}
    BY <1>1
  <1>3. \A i \in DOMAIN q : i \in DOMAIN r /\ r[i] = q[i]
    BY <1>1
  <1>4. \A i \in DOMAIN q : \A op \in {"plug", "unplug", "update"} :
          (After(q, i, op) <=> After(r, i, op)) /\ (Before(q, i, op) <=> Before(r, i, op))
    <2> SUFFICES ASSUME NEW i \in DOMAIN q, NEW op \in {"plug", "unplug", "update"}
                 PROVE  /\ After(q, i, op) <=> After(r, i, op)
                        /\ Before(q, i, op) <=> Before(r, i, op)
      OBVIOUS
    <2> QED
      BY <1>2, <1>3 DEF After, Before
  <1>5. Increasing(q) => Increasing(r)
    BY <1>2 DEF Increasing
  <1>6. Alternating(q) => Alternating(r)
    BY <1>2, <1>3 DEF Alternating
  <1>7. ASSUME NEW t, NEW p, NEW s, Owned(q, t, p, s) PROVE Owned(r, t, p, s)
    BY <1>2, <1>4, <1>7 DEF Owned
  <1>8. Disowned(q) => Disowned(r)
    BY <1>2, <1>4 DEF Disowned
  <1>9. Cleared(q) => Cleared(r)
    BY <1>2, <1>4 DEF Cleared
  <1>10. Unplugs(q) => Unplugs(r)
    BY <1>3 DEF Unplugs
  <1>11. \A i \in DOMAIN r :
           r[i].op \in {"duck", "replug"} \/ (i \in DOMAIN q /\ r[i] = q[i])
    BY <1>1
  <1> QED
    BY <1>3, <1>5, <1>6, <1>7, <1>8, <1>9, <1>10, <1>11

(* The task at the head is done. *)
LEMMA HeadDone ==
  ASSUME NEW T, NEW q \in Seq(T), q # <<>>, NEW r, r = Tail(q)
  PROVE  /\ \A i \in DOMAIN r : \E j \in DOMAIN q : r[i] = q[j] /\ j # 1
         /\ Increasing(q) => Increasing(r)
         /\ Alternating(q) => Alternating(r)
         /\ \A t, p, s : Owned(q, t, p, s) => Owned(r, t, p, s)
         /\ Disowned(q) => Disowned(r) /\ (Head(q).op = "plug" => Unplugs(r))
         /\ Unplugs(q) /\ Head(q).op # "unplug" => Unplugs(r)
         /\ Cleared(q) /\ Head(q).op # "unplug" => Cleared(r)
         /\ Alternating(q) /\ Head(q).op = "plug" => Cleared(r)
         /\ \A op : (\E i \in DOMAIN q : q[i].op = op) =>
                      Head(q).op = op \/ \E i \in DOMAIN r : r[i].op = op
  <1>1. PICK n \in Nat :
          /\ DOMAIN q = 1 .. n + 1 /\ DOMAIN r = 1 .. n
          /\ q[1] = Head(q) /\ \A i \in 1 .. n : r[i] = q[i + 1]
    BY Popped
  <1>2. \A i \in DOMAIN r : i + 1 \in DOMAIN q /\ r[i] = q[i + 1] /\ i \in Nat \ {0}
    BY <1>1
  <1>3. \A j \in DOMAIN q : j # 1 => /\ j - 1 \in DOMAIN r /\ r[j - 1] = q[j]
                                     /\ j \in Nat \ {0} /\ j - 1 + 1 = j
    <2> SUFFICES ASSUME NEW j \in DOMAIN q, j # 1
                 PROVE  /\ j - 1 \in DOMAIN r /\ r[j - 1] = q[j]
                        /\ j \in Nat \ {0} /\ j - 1 + 1 = j
      OBVIOUS
    <2>1. j - 1 \in 1 .. n /\ j - 1 + 1 = j /\ j \in Nat \ {0}
      BY <1>1
    <2> QED
      BY <1>1, <2>1
  <1>4. ASSUME NEW i \in DOMAIN r, NEW op
        PROVE  /\ After(r, i, op) <=> After(q, i + 1, op)
               /\ Before(q, i + 1, op) => Before(r, i, op) \/ Head(q).op = op
    <2>0. i \in Nat /\ 1 \in DOMAIN q /\ i + 1 \in Nat
      BY <1>1, <1>2
    <2>1. ASSUME NEW j \in DOMAIN r, i < j, r[j].op = op PROVE After(q, i + 1, op)
      <3>1. j + 1 \in DOMAIN q /\ q[j + 1].op = op /\ i + 1 < j + 1
        BY <1>2, <2>0, <2>1
      <3> QED
        BY <3>1 DEF After
    <2>2. ASSUME NEW j \in DOMAIN q, i + 1 < j, q[j].op = op PROVE After(r, i, op)
      <3>1. j # 1 /\ j \in Nat
        BY <1>1, <2>0, <2>2
      <3>2. j - 1 \in DOMAIN r /\ r[j - 1].op = op
        BY <1>3, <2>2, <3>1
      <3>3. i < j - 1
        BY <2>0, <2>2, <3>1
      <3> QED
        BY <3>2, <3>3 DEF After
    <2>3. ASSUME NEW j \in DOMAIN q, j < i + 1, q[j].op = op
          PROVE  Before(r, i, op) \/ Head(q).op = op
      <3>1. CASE j = 1
        BY <1>1, <2>3, <3>1
      <3>2. CASE j # 1
        <4>1. j - 1 \in DOMAIN r /\ r[j - 1].op = op /\ j - 1 < i
          BY <1>3, <2>0, <2>3, <3>2
        <4> QED
          BY <4>1 DEF Before
      <3> QED
        BY <3>1, <3>2
    <2> QED
      BY <2>1, <2>2, <2>3 DEF After, Before
  <1>5. \A i \in DOMAIN r : \E j \in DOMAIN q : r[i] = q[j] /\ j # 1
    <2> SUFFICES ASSUME NEW i \in DOMAIN r PROVE \E j \in DOMAIN q : r[i] = q[j] /\ j # 1
      OBVIOUS
    <2>1. i + 1 \in DOMAIN q /\ r[i] = q[i + 1] /\ i + 1 # 1
      BY <1>2
    <2> QED
      BY <2>1
  <1>6. Increasing(q) => Increasing(r)
    <2> SUFFICES ASSUME Increasing(q), NEW i \in DOMAIN r, NEW j \in DOMAIN r, i < j,
                        r[i].op = "update", r[j].op = "update"
                 PROVE  r[i].seq < r[j].seq
      BY DEF Increasing
    <2>1. i + 1 \in DOMAIN q /\ j + 1 \in DOMAIN q /\ i + 1 < j + 1
          /\ r[i] = q[i + 1] /\ r[j] = q[j + 1]
      BY <1>2
    <2> QED
      BY <2>1 DEF Increasing
  <1>7. Alternating(q) => Alternating(r)
    <2> SUFFICES ASSUME Alternating(q), NEW i \in DOMAIN r, NEW k \in DOMAIN r, i < k,
                        r[i].op = "plug", r[k].op = "plug"
                 PROVE  \E j \in DOMAIN r : i < j /\ j < k /\ r[j].op = "unplug"
      BY DEF Alternating
    <2>1. /\ i + 1 \in DOMAIN q /\ k + 1 \in DOMAIN q /\ i + 1 < k + 1
          /\ r[i] = q[i + 1] /\ r[k] = q[k + 1] /\ i \in Nat \ {0} /\ k \in Nat
      BY <1>2
    <2>2. PICK j \in DOMAIN q : i + 1 < j /\ j < k + 1 /\ q[j].op = "unplug"
      BY <2>1 DEF Alternating
    <2>3. j # 1 /\ j \in Nat
      BY <1>1, <2>1, <2>2
    <2>4. j - 1 \in DOMAIN r /\ r[j - 1].op = "unplug" /\ i < j - 1 /\ j - 1 < k
      BY <1>3, <2>1, <2>2, <2>3
    <2> QED
      BY <2>4
  <1>8. ASSUME NEW t, NEW p, NEW s, Owned(q, t, p, s) PROVE Owned(r, t, p, s)
    <2> SUFFICES ASSUME NEW i \in DOMAIN r
                 PROVE  /\ r[i].op = "unplug" => After(r, i, "plug")
                        /\ r[i].op = "plug" /\ ~ After(r, i, "plug") => r[i].targets = t
                        /\ r[i].op = "update" =>
                             /\ r[i].seq <= s <=> After(r, i, "plug")
                             /\ r[i].seq > s => p # None /\ r[i].seq <= p.seq
      BY DEF Owned
    <2>1. i + 1 \in DOMAIN q /\ r[i] = q[i + 1]
          /\ (After(r, i, "plug") <=> After(q, i + 1, "plug"))
      BY <1>2, <1>4
    <2> QED
      BY <1>8, <2>1 DEF Owned
  <1>9. ASSUME Disowned(q) PROVE Disowned(r)
    BY <1>2, <1>4, <1>9 DEF Disowned
  <1>10. ASSUME NEW i \in DOMAIN q, q[i].op = "unplug", Head(q).op # "unplug"
         PROVE  Unplugs(r)
    <2>1. i # 1
      BY <1>1, <1>10
    <2> QED
      BY <1>3, <1>10, <2>1 DEF Unplugs
  <1>11. ASSUME Disowned(q), Head(q).op = "plug" PROVE Unplugs(r)
    <2>1. 1 \in DOMAIN q /\ q[1].op = "plug"
      BY <1>1, <1>11
    <2> QED
      BY <1>10, <1>11, <2>1 DEF Disowned, After
  <1>12. ASSUME Cleared(q), Head(q).op # "unplug" PROVE Cleared(r)
    BY <1>2, <1>4, <1>12 DEF Cleared
  <1>13. ASSUME Alternating(q), Head(q).op = "plug" PROVE Cleared(r)
    <2> SUFFICES ASSUME NEW i \in DOMAIN r, r[i].op = "plug" PROVE Before(r, i, "unplug")
      BY DEF Cleared
    <2>1. i + 1 \in DOMAIN q /\ q[i + 1].op = "plug" /\ i \in Nat \ {0}
      BY <1>2
    <2>2. 1 \in DOMAIN q /\ q[1].op = "plug" /\ 1 < i + 1
      BY <1>1, <1>13, <2>1
    <2>3. \E j \in DOMAIN q : 1 < j /\ j < i + 1 /\ q[j].op = "unplug"
      BY <1>13, <2>1, <2>2 DEF Alternating
    <2> QED
      BY <1>4, <1>13, <2>3 DEF Before
  <1>14. \A op : (\E i \in DOMAIN q : q[i].op = op) =>
                    Head(q).op = op \/ \E j \in DOMAIN r : r[j].op = op
    <2> SUFFICES ASSUME NEW op, NEW i \in DOMAIN q, q[i].op = op
                 PROVE  Head(q).op = op \/ \E j \in DOMAIN r : r[j].op = op
      OBVIOUS
    <2> QED
      BY <1>1, <1>3
  <1>15. \A t, p, s : Owned(q, t, p, s) => Owned(r, t, p, s)
    BY <1>8
  <1> QED
    BY <1>5, <1>6, <1>7, <1>9, <1>10, <1>11, <1>12, <1>13, <1>14, <1>15 DEF Unplugs
-----------------------------------------------------------------------------
(* Where the worker is                                                      *)
LEMMA NewEffects ==
  /\ \A l \in Lists : /\ Plug(l, l) \in EffectType
                      /\ Plug(l, l).op = "plug" /\ Plug(l, l).targets = l
  /\ Unplug \in EffectType /\ Unplug.op = "unplug"
  /\ \A l \in Lists, n \in Nat :
       /\ Update(n, l) \in EffectType
       /\ Update(n, l).op = "update" /\ Update(n, l).targets = l /\ Update(n, l).seq = n
  /\ \A n \in Nat : /\ Duck(n) \in EffectType /\ Duck(n).op = "duck"
                    /\ Replug(n) \in EffectType /\ Replug(n).op = "replug"
  BY DEF Plug, Unplug, Update, Duck, Replug, EffectType

LEMMA TaskTypes ==
  ASSUME TypeOK, queue # <<>>
  PROVE  /\ queue \in Seq(EffectType) /\ Task \in EffectType
         /\ Task.op = "update" => Task.seq \in Nat /\ Task.targets \in Lists
         /\ Task.op = "plug" => Task.targets \in Lists
  <1>1. queue \in Seq(EffectType) /\ Task \in EffectType
    BY Served DEF TypeOK, QueueTypes, Task
  <1> QED
    BY <1>1 DEF EffectType

(* A step of another actor, as far as the worker and its monitor see it     *)
Apart ==
  /\ UNCHANGED <<wpc, obj, lists, outcome>>
  /\ wpc # "idle" => Task' = Task
  /\ rt' \in {rt, None} /\ parked' \in {parked, None} /\ alive' \in {alive, {}}
  /\ pnp' = "gone" => pnp = "gone" \/ alive' = {}

Elsewhere ==
  \/ Host \/ ArmDuck \/ PollerReplugs \/ PollerEnds \/ Exit
  \/ (\E m \in Modes \cup {None} : Commit(m))
  \/ UNCHANGED vars

LEMMA ElsewhereApart ==
  ASSUME TypeOK, Serving, Elsewhere
  PROVE  Apart
  <1>0. queue \in Seq(EffectType) /\ updateSeq \in Nat /\ epoch \in Nat
    BY DEF TypeOK, QueueTypes, TableTypes, DeviceTypes
  <1>1. ASSUME NEW e \in EffectType, queue' = Append(queue, e)
        PROVE  wpc # "idle" => Task' = Task
    BY <1>0, <1>1, Appended DEF Serving, Task
  <1>2. ASSUME queue' = queue PROVE Task' = Task
    BY <1>2 DEF Task
  <1>3. ASSUME NEW l \in Supersets, HostCreate(l) PROVE Apart
    <2>1. l \in Lists
      BY SupersetsAssumption
    <2>2. PICK e \in EffectType : queue' = Append(queue, e)
      BY <1>3, <2>1, NewEffects DEF HostCreate
    <2>3. /\ UNCHANGED <<wpc, obj, lists, outcome, rt, parked, alive, pnp>>
      BY <1>3 DEF HostCreate, locals, monitors, device
    <2> QED
      BY <1>1, <2>2, <2>3 DEF Apart
  <1>4. CASE HostDestroy
    <2>1. PICK e \in EffectType : queue' = Append(queue, e)
      BY <1>4, NewEffects DEF HostDestroy
    <2>2. /\ UNCHANGED <<wpc, obj, lists, outcome, rt, parked, alive, pnp>>
      BY <1>4 DEF HostDestroy, locals, monitors, device
    <2> QED
      BY <1>1, <2>1, <2>2 DEF Apart
  <1>5. ASSUME NEW l \in Lists, HostUpdate(l) PROVE Apart
    <2>1. /\ UNCHANGED <<wpc, obj, lists, outcome, rt, parked, alive, pnp>>
      BY <1>5 DEF HostUpdate, locals, monitors, device
    <2>2. CASE queue' = queue
      BY <1>2, <2>1, <2>2 DEF Apart
    <2>3. CASE queue' # queue
      <3> DEFINE targets == Select(mon.superset, l)
      <3>1. queue' = Append(queue, Update(updateSeq + 1, targets)) /\ targets \in Lists
        BY <1>5, <2>3 DEF HostUpdate, Answered
      <3> HIDE DEF targets
      <3>2. PICK e \in EffectType : queue' = Append(queue, e)
        BY <1>0, <3>1, NewEffects
      <3> QED
        BY <1>1, <2>1, <3>2 DEF Apart
    <2> QED
      BY <2>2, <2>3
  <1>6. CASE ArmDuck \/ PollerReplugs
    <2>1. PICK e \in EffectType : queue' = Append(queue, e)
      BY <1>0, <1>6, NewEffects DEF ArmDuck, PollerReplugs
    <2>2. /\ UNCHANGED <<wpc, obj, lists, outcome, rt, parked, alive, pnp>>
      BY <1>6 DEF ArmDuck, PollerReplugs, locals, monitors, device
    <2> QED
      BY <1>1, <2>1, <2>2 DEF Apart
  <1>7. CASE PollerEnds
    BY <1>2, <1>7 DEF PollerEnds, worker, locals, device, Apart
  <1>8. ASSUME NEW m \in Modes \cup {None}, Commit(m) PROVE Apart
    BY <1>2, <1>8 DEF Commit, device, Apart
  <1>9. CASE ClearAdapter \/ DrainPushes \/ DrainTimesOut \/ TeardownReset \/ BringUp
    <2>1. /\ UNCHANGED <<queue, wpc, obj, lists, outcome, rt, parked, alive>>
          /\ pnp' # "gone"
      BY <1>9 DEF ClearAdapter, DrainPushes, DrainTimesOut, TeardownReset, BringUp, worker,
                  locals, monitors
    <2> QED
      BY <1>2, <2>1 DEF Apart
  <1>10. CASE ForgetAll \/ DrainMonitors \/ DrainParked \/ DestroyAdapter
    <2>1. /\ UNCHANGED <<queue, wpc, obj, lists, outcome>>
          /\ rt' \in {rt, None} /\ parked' \in {parked, None} /\ alive' \in {alive, {}}
          /\ pnp' = "gone" => alive' = {}
      BY <1>10 DEF ForgetAll, DrainMonitors, DrainParked, DestroyAdapter, worker, locals,
                   monitors
    <2> QED
      BY <1>2, <2>1 DEF Apart
  <1>11. CASE UNCHANGED vars
    BY <1>2, <1>11 DEF vars, worker, locals, monitors, device, Apart
  <1> QED
    BY <1>3, <1>4, <1>5, <1>6, <1>7, <1>8, <1>9, <1>10, <1>11 DEF Elsewhere, Host, Exit

LEMMA PlacedInit == Init => Placed
  BY DEF Init, Placed, Pushing

LEMMA PlacedDone ==
  ASSUME Done, parked' # None => rt' = None, pnp' = "gone" => alive' = {}
  PROVE  Placed'
  BY DEF Done, Placed, Pushing

LEMMA PlacedWorker ==
  ASSUME TypeOK, Serving, Placed, Worker
  PROVE  Placed'
  <1>0. (parked # None => rt = None) /\ (pnp = "gone" => alive = {})
        /\ (wpc \in Pushing \cup {"create", "depart", "park"} => parked = None)
    BY DEF Placed
  <1>1. CASE StartPlug
    <2>1. parked' \in {parked, None} /\ UNCHANGED <<rt, pnp, alive>>
      BY <1>1 DEF StartPlug, device
    <2>2. CASE ~ adapter
      BY <1>0, <1>1, <2>1, <2>2, PlacedDone DEF StartPlug
    <2>3. CASE adapter
      <3>1. /\ wpc' = "create" /\ parked' = None /\ queue' = queue /\ Task.op = "plug"
            /\ lists' = [superset |-> Task.superset, targets |-> Task.targets]
        BY <1>1, <2>3 DEF StartPlug, AtHead, Task
      <3>2. Task' = Task /\ lists'.targets = Task.targets
        BY <3>1 DEF Task
      <3> QED
        BY <1>0, <2>1, <3>1, <3>2 DEF Placed, Pushing
    <2> QED
      BY <2>2, <2>3
  <1>2. CASE StartReplug
    <2>1. parked' = None /\ UNCHANGED <<rt, pnp, alive>>
      BY <1>2 DEF StartReplug, device
    <2>2. CASE Done
      BY <1>0, <2>1, <2>2, PlacedDone
    <2>3. CASE ~ Done
      <3>1. wpc' = "create" /\ queue' = queue /\ Task.op = "replug"
        BY <1>2, <2>3 DEF StartReplug, AtHead, Task
      <3>2. Task' = Task
        BY <3>1 DEF Task
      <3> QED
        BY <1>0, <2>1, <3>1, <3>2 DEF Placed, Pushing
    <2> QED
      BY <2>2, <2>3
  <1>3. CASE CreateFails
    <2>1. Done /\ UNCHANGED <<parked, rt, pnp, alive>>
      BY <1>3 DEF CreateFails, monitors, device
    <2> QED
      BY <1>0, <2>1, PlacedDone
  <1>4. ASSUME NEW o \in Objects, Arrive(o) \/ ArrivalFails(o) PROVE Placed'
    <2>1. Done /\ parked' = None /\ pnp' # "gone"
      BY <1>0, <1>4 DEF Arrive, ArrivalFails, device
    <2> QED
      BY <2>1, PlacedDone
  <1>5. CASE StartUnplug
    <2>1. UNCHANGED <<rt, pnp, alive>> /\ parked' \in {parked, None}
      BY <1>5 DEF StartUnplug, device
    <2>2. CASE parked # None \/ rt = None
      BY <1>0, <1>5, <2>1, <2>2, PlacedDone DEF StartUnplug
    <2>3. CASE ~ (parked # None \/ rt = None)
      <3>1. wpc' = "depart" /\ queue' = queue /\ Task.op = "unplug" /\ parked' = None
        BY <1>5, <2>3 DEF StartUnplug, AtHead, Task
      <3>2. Task' = Task
        BY <3>1 DEF Task
      <3> QED
        BY <1>0, <2>1, <3>1, <3>2 DEF Placed, Pushing
    <2> QED
      BY <2>2, <2>3
  <1>6. CASE Depart
    <2>1. Done /\ rt' = None /\ UNCHANGED pnp /\ alive' = alive \ {obj}
      BY <1>6 DEF Depart
    <2> QED
      BY <1>0, <2>1, PlacedDone
  <1>7. CASE StartPush
    <2>1. /\ UNCHANGED <<queue, obj, rt, pnp, alive>>
          /\ \/ wpc' = "settle"
                /\ (parked' = None <=> parked = None)
             \/ wpc' = "adapter" /\ parked = None /\ parked' = None
      <3>1. ASSUME parked # None
            PROVE  [parked EXCEPT !.targets = Task.targets] # None
        <4>1. Task.op = "update" /\ queue # <<>>
          BY <1>7 DEF StartPush, AtHead, Task
        <4>2. Task.targets \in Lists /\ parked \in PlugLists
          BY <3>1, <4>1, TaskTypes DEF TypeOK, MonitorTypes
        <4>3. [parked EXCEPT !.targets = Task.targets] \in PlugLists
          BY <4>2 DEF PlugLists
        <4> QED
          BY <4>3, NoneAssumption
      <3> QED
        BY <1>7, <3>1 DEF StartPush, Settling, device
    <2> QED
      BY <1>0, <2>1 DEF Placed, Pushing
  <1>8. CASE ReadAdapter \/ Refuse
    <2>1. /\ UNCHANGED <<queue, obj, rt, parked, pnp, alive>> /\ parked = None
          /\ wpc' \in {"settle", "publish"}
      BY <1>0, <1>8 DEF ReadAdapter, Refuse, Settling, monitors, device, Pushing
    <2> QED
      BY <1>0, <2>1 DEF Placed, Pushing
  <1>9. CASE Publish
    <2>1. /\ wpc = "publish" /\ wpc' = "epoch" /\ rt # None /\ obj' = rt.obj
          /\ rt' = [rt EXCEPT !.targets = Task.targets]
          /\ UNCHANGED <<queue, parked, pnp, alive>>
      BY <1>9 DEF Publish, Pushable, device
    <2>2. queue # <<>> /\ Task.op = "update" /\ rt \in RuntimeType
      BY <2>1 DEF Serving, Pushing, TypeOK, MonitorTypes
    <2>3. rt'.obj = rt.obj /\ rt'.targets = Task.targets
      BY <2>1, <2>2, TaskTypes, Patched
    <2>4. Task' = Task /\ parked = None
      BY <1>0, <2>1 DEF Task, Pushing
    <2> QED
      BY <1>0, <2>1, <2>3, <2>4 DEF Placed, Pushing
  <1>10. CASE CheckEpoch \/ OSAccepts \/ OSRefuses
    <2>1. /\ UNCHANGED <<queue, obj, parked, pnp, alive>> /\ parked = None
          /\ \/ wpc' = "settle"
             \/ wpc = "epoch" /\ wpc' = "call" /\ UNCHANGED rt
      BY <1>0, <1>10 DEF CheckEpoch, OSAccepts, OSRefuses, Settling, monitors, device, Pushing
    <2>2. Task' = Task
      BY <2>1 DEF Task
    <2> QED
      BY <1>0, <2>1, <2>2 DEF Placed, Pushing
  <1>11. CASE Settle \/ DuckNothing \/ DuckDevice
    <2>1. Done /\ UNCHANGED <<rt, parked, pnp, alive>>
      BY <1>11 DEF Settle, DuckNothing, DuckDevice, monitors, device
    <2> QED
      BY <1>0, <2>1, PlacedDone
  <1>12. CASE DuckDepart
    <2>1. /\ wpc' = "park" /\ Task.op = "duck" /\ UNCHANGED <<queue, rt, parked, pnp>>
          /\ alive' = alive \ {rt.obj} /\ rt # None
      BY <1>12 DEF DuckDepart, AtHead, Arrived, monitors, Task
    <2>2. Task' = Task
      BY <2>1 DEF Task
    <2> QED
      BY <1>0, <2>1, <2>2 DEF Placed, Pushing
  <1>13. CASE Park
    <2>1. Done /\ rt' = None /\ UNCHANGED <<pnp, alive>>
      BY <1>13 DEF Park, device
    <2> QED
      BY <1>0, <2>1, PlacedDone
  <1> QED
    BY <1>1, <1>2, <1>3, <1>4, <1>5, <1>6, <1>7, <1>8, <1>9, <1>10, <1>11, <1>12, <1>13
       DEF Worker, CreateMonitor, Push

LEMMA PlacedStep ==
  ASSUME TypeOK, Serving, Placed, [Next]_vars
  PROVE  Placed'
  <1>1. CASE Elsewhere
    <2>1. Apart
      BY <1>1, ElsewhereApart
    <2>2. wpc # "idle" => Task' = Task
      BY <2>1 DEF Apart
    <2> QED
      BY <2>1, <2>2 DEF Apart, Placed, Pushing
  <1>2. CASE Worker
    BY <1>2, PlacedWorker
  <1> QED
    BY <1>1, <1>2 DEF Next, Elsewhere
-----------------------------------------------------------------------------
(* One duck-out at a time                                                   *)
Single(q) == \A i, j \in DuckTasks(q) : i = j

LEMMA DuckTasksServed ==
  ASSUME NEW T, NEW q \in Seq(T), q # <<>>, NEW r, r = Tail(q),
         Single(q)
  PROVE  /\ Single(r)
         /\ Head(q).op \in {"duck", "replug"} => DuckTasks(q) # {} /\ DuckTasks(r) = {}
         /\ DuckTasks(r) # {} => DuckTasks(q) # {}
         /\ \A i \in DOMAIN r : \E j \in DOMAIN q : r[i] = q[j]
  <1>1. PICK n \in Nat :
          /\ DOMAIN q = 1 .. n + 1 /\ DOMAIN r = 1 .. n
          /\ q[1] = Head(q) /\ \A i \in 1 .. n : r[i] = q[i + 1]
    BY Popped
  <1>2. \A i \in DOMAIN r : i + 1 \in DOMAIN q /\ r[i] = q[i + 1] /\ i \in Nat \ {0}
    BY <1>1
  <1>3. \A i \in DuckTasks(r) : i + 1 \in DuckTasks(q) /\ i \in Nat \ {0}
    BY <1>2 DEF DuckTasks
  <1>4. Single(r)
    <2> SUFFICES ASSUME NEW i \in DuckTasks(r), NEW j \in DuckTasks(r) PROVE i = j
      BY DEF Single
    <2>1. i + 1 = j + 1 /\ i \in Nat /\ j \in Nat
      BY <1>3 DEF Single
    <2> QED
      BY <2>1
  <1>5. ASSUME Head(q).op \in {"duck", "replug"} PROVE DuckTasks(q) # {} /\ DuckTasks(r) = {}
    <2>1. 1 \in DuckTasks(q)
      BY <1>1, <1>5 DEF DuckTasks
    <2>2. ASSUME NEW i \in DuckTasks(r) PROVE FALSE
      <3>1. i + 1 = 1 /\ i \in Nat \ {0}
        BY <1>3, <2>1 DEF Single
      <3> QED
        BY <3>1
    <2> QED
      BY <2>1, <2>2
  <1> QED
    BY <1>2, <1>3, <1>4, <1>5

LEMMA AddedAt ==
  ASSUME NEW T, NEW q \in Seq(T), NEW e \in T, NEW r, r = Append(q, e)
  PROVE  \A i \in DOMAIN r : r[i] = e \/ (i \in DOMAIN q /\ r[i] = q[i])
  <1>1. PICK n \in Nat :
          /\ DOMAIN q = 1 .. n /\ DOMAIN r = 1 .. n + 1
          /\ r[n + 1] = e /\ \A i \in 1 .. n : r[i] = q[i]
    BY Pushed
  <1> QED
    BY <1>1

LEMMA SameDuckTasks ==
  ASSUME NEW T, NEW q \in Seq(T), NEW e \in T, NEW r, r = Append(q, e),
         e.op \notin {"duck", "replug"}
  PROVE  DuckTasks(r) = DuckTasks(q)
  <1>1. PICK n \in Nat :
          /\ DOMAIN q = 1 .. n /\ DOMAIN r = 1 .. n + 1
          /\ r[n + 1] = e /\ \A i \in 1 .. n : r[i] = q[i]
    BY Pushed
  <1>2. /\ \A i \in DOMAIN r : i = n + 1 \/ (i \in DOMAIN q /\ r[i] = q[i])
        /\ \A i \in DOMAIN q : i \in DOMAIN r /\ r[i] = q[i]
    BY <1>1
  <1>3. DuckTasks(r) \subseteq DuckTasks(q)
    BY <1>1, <1>2 DEF DuckTasks
  <1>4. DuckTasks(q) \subseteq DuckTasks(r)
    BY <1>2 DEF DuckTasks
  <1> QED
    BY <1>3, <1>4

LEMMA FirstDuckTask ==
  ASSUME NEW T, NEW q \in Seq(T), NEW e \in T, NEW r, r = Append(q, e),
         DuckTasks(q) = {}
  PROVE  Single(r)
  <1>1. PICK n \in Nat :
          /\ DOMAIN q = 1 .. n /\ DOMAIN r = 1 .. n + 1
          /\ r[n + 1] = e /\ \A i \in 1 .. n : r[i] = q[i]
    BY Pushed
  <1>2. \A i \in DuckTasks(r) : i = n + 1
    BY <1>1 DEF DuckTasks
  <1> QED
    BY <1>2 DEF Single

LEMMA StillSingle ==
  ASSUME NEW T, NEW q \in Seq(T), q # <<>>, NEW r, r = Tail(q), Single(q)
  PROVE  Single(r)
  BY DuckTasksServed

LEMMA DuckTaskGone ==
  ASSUME NEW T, NEW q \in Seq(T), q # <<>>, NEW r, r = Tail(q), Single(q),
         Head(q).op \in {"duck", "replug"}
  PROVE  DuckTasks(q) # {} /\ DuckTasks(r) = {}
  BY DuckTasksServed

LEMMA DuckTasksWere ==
  ASSUME NEW T, NEW q \in Seq(T), q # <<>>, NEW r, r = Tail(q), Single(q),
         DuckTasks(r) # {}
  PROVE  DuckTasks(q) # {}
  BY DuckTasksServed

LEMMA ServedAt ==
  ASSUME NEW T, NEW q \in Seq(T), q # <<>>, NEW r, r = Tail(q)
  PROVE  \A i \in DOMAIN r : \E j \in DOMAIN q : r[i] = q[j]
  BY HeadDone

LEMMA OneDuckInit == Init => OneDuck
  BY EmptySeq DEF Init, OneDuck, DuckTasks

(* An effect that is no part of a duck-out, added *)
LEMMA OneDuckAdded ==
  ASSUME TypeOK, OneDuck, NEW e \in EffectType, e.op \notin {"duck", "replug"},
         queue' = Append(queue, e), UNCHANGED <<latch, poller, parked>>
  PROVE  OneDuck'
  <1>1. queue \in Seq(EffectType)
    BY DEF TypeOK, QueueTypes
  <1>2. /\ DuckTasks(queue') = DuckTasks(queue)
        /\ \A i \in DOMAIN queue' : queue'[i] = e \/ (i \in DOMAIN queue /\ queue'[i] = queue[i])
    <2>1. PICK r : r = queue'
      OBVIOUS
    <2>2. DuckTasks(r) = DuckTasks(queue)
      BY <1>1, <2>1, SameDuckTasks
    <2>3. \A i \in DOMAIN r : r[i] = e \/ (i \in DOMAIN queue /\ r[i] = queue[i])
      BY <1>1, <2>1, AddedAt
    <2> QED
      BY <2>1, <2>2, <2>3
  <1>3. parked # None => \A i \in DOMAIN queue' : queue'[i].op # "duck"
    BY <1>2 DEF OneDuck, Single
  <1> QED
    BY <1>2, <1>3 DEF OneDuck, Single

(* The task at the head done: if it is one of the duck-out, its poller has  *)
(* taken over, or the duck-out has ended.                                   *)
LEMMA OneDuckServed ==
  ASSUME TypeOK, OneDuck, queue # <<>>, queue' = Tail(queue),
         \/ /\ UNCHANGED <<latch, poller>> /\ parked' \in {parked, None}
            /\ Task.op \notin {"duck", "replug"}
         \/ /\ UNCHANGED poller /\ latch' = FALSE /\ parked' = None
            /\ Task.op \in {"duck", "replug"}
         \/ UNCHANGED latch /\ Task.op \in {"duck", "replug"}
  PROVE  OneDuck'
  <1>1. queue \in Seq(EffectType)
    BY DEF TypeOK, QueueTypes
  <1>2. Single(queue)
    BY DEF OneDuck, Single
  <1>3. /\ Single(queue')
        /\ Task.op \in {"duck", "replug"} => DuckTasks(queue) # {} /\ DuckTasks(queue') = {}
        /\ DuckTasks(queue') # {} => DuckTasks(queue) # {}
        /\ \A i \in DOMAIN queue' : \E j \in DOMAIN queue : queue'[i] = queue[j]
    <2>1. PICK r : r = queue'
      OBVIOUS
    <2>2. Single(r)
      BY <1>1, <1>2, <2>1, StillSingle
    <2>3. Task.op \in {"duck", "replug"} => DuckTasks(queue) # {} /\ DuckTasks(r) = {}
      BY <1>1, <1>2, <2>1, DuckTaskGone DEF Task
    <2>4. DuckTasks(r) # {} => DuckTasks(queue) # {}
      BY <1>1, <1>2, <2>1, DuckTasksWere
    <2>5. \A i \in DOMAIN r : \E j \in DOMAIN queue : r[i] = queue[j]
      BY <1>1, <2>1, ServedAt
    <2> QED
      BY <2>1, <2>2, <2>3, <2>4, <2>5
  <1>4. CASE Task.op \notin {"duck", "replug"}
    BY <1>3, <1>4 DEF OneDuck, Single
  <1>5. CASE Task.op \in {"duck", "replug"}
    <2>1. DuckTasks(queue') = {} /\ latch /\ poller = None
      BY <1>3, <1>5 DEF OneDuck, Single
    <2>2. \A i \in DOMAIN queue' : queue'[i].op # "duck"
      BY <2>1 DEF DuckTasks
    <2> QED
      BY <1>5, <2>1, <2>2 DEF OneDuck, Single
  <1> QED
    BY <1>4, <1>5

LEMMA OneDuckKept ==
  ASSUME OneDuck, UNCHANGED <<queue, latch, poller>>, parked' \in {parked, None}
  PROVE  OneDuck'
  BY DEF OneDuck, Single

LEMMA OneDuckElsewhere ==
  ASSUME TypeOK, Serving, OneDuck, Elsewhere
  PROVE  OneDuck'
  <1>0. queue \in Seq(EffectType) /\ updateSeq \in Nat /\ epoch \in Nat /\ epoch # None
    BY NoneAssumption DEF TypeOK, QueueTypes, TableTypes, DeviceTypes
  <1>1. ASSUME NEW l \in Supersets, HostCreate(l) PROVE OneDuck'
    <2>1. PICK e \in EffectType : queue' = Append(queue, e) /\ e.op = "plug"
      BY <1>1, SupersetsAssumption, NewEffects DEF HostCreate
    <2> QED
      BY <1>1, <2>1, OneDuckAdded DEF HostCreate, monitors, duck
  <1>2. CASE HostDestroy
    <2>1. PICK e \in EffectType : queue' = Append(queue, e) /\ e.op = "unplug"
      BY <1>2, NewEffects DEF HostDestroy
    <2> QED
      BY <1>2, <2>1, OneDuckAdded DEF HostDestroy, monitors, duck
  <1>3. ASSUME NEW l \in Lists, HostUpdate(l) PROVE OneDuck'
    <2>1. UNCHANGED <<latch, poller, parked>>
      BY <1>3 DEF HostUpdate, monitors, duck
    <2>2. CASE queue' = queue
      BY <2>1, <2>2, OneDuckKept
    <2>3. CASE queue' # queue
      <3> DEFINE targets == Select(mon.superset, l)
      <3>1. queue' = Append(queue, Update(updateSeq + 1, targets)) /\ targets \in Lists
        BY <1>3, <2>3 DEF HostUpdate, Answered
      <3> HIDE DEF targets
      <3>2. PICK e \in EffectType : queue' = Append(queue, e) /\ e.op = "update"
        BY <1>0, <3>1, NewEffects
      <3> QED
        BY <2>1, <3>2, OneDuckAdded
    <2> QED
      BY <2>2, <2>3
  <1>4. CASE ArmDuck
    <2>1. /\ ~ latch /\ latch' = TRUE /\ queue' = Append(queue, Duck(epoch))
          /\ UNCHANGED <<poller, parked>>
      BY <1>4 DEF ArmDuck, monitors
    <2>2. DuckTasks(queue) = {} /\ poller = None /\ parked = None
      BY <2>1 DEF OneDuck, Single
    <2>3. Duck(epoch) \in EffectType
      BY <1>0, NewEffects
    <2>4. Single(queue')
      BY <1>0, <2>1, <2>2, <2>3, FirstDuckTask
    <2> QED
      BY <2>1, <2>2, <2>4 DEF OneDuck, Single
  <1>5. CASE PollerReplugs
    <2>1. /\ poller = epoch /\ poller' = None /\ queue' = Append(queue, Replug(poller))
          /\ UNCHANGED <<latch, parked>>
      BY <1>5 DEF PollerReplugs, monitors
    <2>2. DuckTasks(queue) = {} /\ latch
      BY <1>0, <2>1 DEF OneDuck, Single
    <2>3. Replug(poller) \in EffectType /\ Replug(poller).op = "replug"
      BY <1>0, <2>1, NewEffects
    <2>4. Single(queue')
      BY <1>0, <2>1, <2>2, <2>3, FirstDuckTask
    <2>6. \A i \in DOMAIN queue' :
            queue'[i] = Replug(poller) \/ (i \in DOMAIN queue /\ queue'[i] = queue[i])
      BY <1>0, <2>1, <2>3, AddedAt
    <2>5. parked # None => \A i \in DOMAIN queue' : queue'[i].op # "duck"
      BY <2>3, <2>6 DEF OneDuck, Single
    <2> QED
      BY <2>1, <2>2, <2>4, <2>5 DEF OneDuck, Single
  <1>6. CASE PollerEnds
    <2>1. /\ poller # None /\ poller' = None /\ latch' = FALSE /\ parked' = None
          /\ UNCHANGED queue
      BY <1>6 DEF PollerEnds, worker
    <2>2. DuckTasks(queue) = {}
      BY <2>1 DEF OneDuck, Single
    <2> QED
      BY <2>1, <2>2 DEF OneDuck, Single
  <1>7. ASSUME NEW m \in Modes \cup {None}, Commit(m) PROVE OneDuck'
    BY <1>7, OneDuckKept DEF Commit, duck
  <1>8. CASE Exit
    <2>1. UNCHANGED <<queue, latch, poller>> /\ parked' \in {parked, None}
      BY <1>8 DEF Exit, ClearAdapter, DrainPushes, DrainTimesOut, ForgetAll, DrainMonitors,
                  DrainParked, TeardownReset, DestroyAdapter, BringUp, worker, monitors, duck
    <2> QED
      BY <2>1, OneDuckKept
  <1>9. CASE UNCHANGED vars
    BY <1>9, OneDuckKept DEF vars, worker, monitors, duck
  <1> QED
    BY <1>1, <1>2, <1>3, <1>4, <1>5, <1>6, <1>7, <1>8, <1>9 DEF Elsewhere, Host

LEMMA OneDuckStep ==
  ASSUME TypeOK, Serving, Placed, OneDuck, [Next]_vars
  PROVE  OneDuck'
  <1>1. CASE Elsewhere
    BY <1>1, OneDuckElsewhere
  <1>2. CASE StartPlug
    <2>1. Task.op = "plug" /\ queue # <<>> /\ UNCHANGED <<latch, poller>>
          /\ parked' \in {parked, None}
      BY <1>2 DEF StartPlug, AtHead, Task, duck
    <2>2. queue' = queue \/ queue' = Tail(queue)
      BY <1>2 DEF StartPlug, Done
    <2> QED
      BY <2>1, <2>2, OneDuckKept, OneDuckServed
  <1>3. CASE StartReplug
    <2>1. Task.op = "replug" /\ queue # <<>> /\ UNCHANGED poller /\ parked' = None
      BY <1>3 DEF StartReplug, AtHead, Task
    <2>2. \/ queue' = queue /\ latch' = latch
          \/ queue' = Tail(queue) /\ latch' = FALSE
      BY <1>3 DEF StartReplug, Done
    <2> QED
      BY <2>1, <2>2, OneDuckKept, OneDuckServed
  <1>4. CASE CreateMonitor
    <2>1. /\ wpc = "create" /\ queue' = Tail(queue) /\ UNCHANGED <<poller, parked>>
          /\ latch' = IF Task.op = "replug" THEN FALSE ELSE latch
      BY <1>4 DEF CreateMonitor, CreateFails, Arrive, ArrivalFails, Done, LatchOver, monitors
    <2>2. queue # <<>> /\ Task.op \in {"plug", "replug"} /\ parked = None
      BY <2>1 DEF Serving, Placed
    <2> QED
      BY <2>1, <2>2, OneDuckServed
  <1>5. CASE StartUnplug \/ Depart
    <2>1. Task.op = "unplug" /\ queue # <<>> /\ UNCHANGED <<latch, poller>>
          /\ parked' \in {parked, None}
      BY <1>5 DEF StartUnplug, Depart, AtHead, Task, duck, Serving, Placed
    <2>2. queue' = queue \/ queue' = Tail(queue)
      BY <1>5 DEF StartUnplug, Depart, Done
    <2> QED
      BY <2>1, <2>2, OneDuckKept, OneDuckServed
  <1>6. CASE StartPush
    <2>1. UNCHANGED <<queue, latch, poller>>
      BY <1>6 DEF StartPush, duck
    <2>2. parked' # None => parked # None
      BY <1>6 DEF StartPush
    <2> QED
      BY <2>1, <2>2 DEF OneDuck, Single
  <1>7. CASE ReadAdapter \/ Refuse \/ Publish \/ CheckEpoch \/ OSAccepts \/ OSRefuses
    <2>1. UNCHANGED <<queue, latch, poller, parked>>
      BY <1>7 DEF ReadAdapter, Refuse, Publish, CheckEpoch, OSAccepts, OSRefuses, monitors,
                  duck
    <2> QED
      BY <2>1, OneDuckKept
  <1>8. CASE Settle
    <2>1. queue # <<>> /\ Task.op = "update"
      BY <1>8 DEF Settle, Serving
    <2>2. queue' = Tail(queue) /\ UNCHANGED <<latch, poller, parked>>
      BY <1>8 DEF Settle, Done, monitors, duck
    <2> QED
      BY <2>1, <2>2, OneDuckServed
  <1>9. CASE DuckNothing
    <2>1. /\ Task.op = "duck" /\ queue # <<>> /\ queue' = Tail(queue)
          /\ latch' = FALSE /\ UNCHANGED <<poller, parked>>
      BY <1>9 DEF DuckNothing, AtHead, Task, Done, monitors
    <2>2. parked = None
      <3>1. 1 \in DOMAIN queue /\ queue[1].op = "duck"
        BY <2>1, Served DEF TypeOK, QueueTypes, Task
      <3> QED
        BY <3>1 DEF OneDuck, Single
    <2> QED
      BY <2>1, <2>2, OneDuckServed
  <1>10. CASE DuckDevice
    <2>1. Task.op = "duck" /\ queue # <<>> /\ queue' = Tail(queue) /\ UNCHANGED latch
      BY <1>10 DEF DuckDevice, AtHead, Task, Done
    <2> QED
      BY <2>1, OneDuckServed
  <1>11. CASE DuckDepart
    BY <1>11, OneDuckKept DEF DuckDepart, monitors, duck
  <1>12. CASE Park
    <2>1. wpc = "park" /\ queue' = Tail(queue)
      BY <1>12 DEF Park, Done
    <2>2. queue # <<>> /\ Task.op = "duck"
      BY <2>1 DEF Serving, Placed
    <2>3. \/ UNCHANGED latch
          \/ latch' = FALSE /\ parked' = None /\ UNCHANGED poller
      BY <1>12 DEF Park
    <2> QED
      BY <2>1, <2>2, <2>3, OneDuckServed
  <1> QED
    BY <1>1, <1>2, <1>3, <1>4, <1>5, <1>6, <1>7, <1>8, <1>9, <1>10, <1>11, <1>12
       DEF Next, Worker, Push, Elsewhere
-----------------------------------------------------------------------------
(* The queue is in the order of the decisions                               *)
SameTable ==
  /\ mon = None <=> mon' = None
  /\ mon # None => /\ mon'.targets = mon.targets /\ mon'.pending = mon.pending
                   /\ mon'.settled = mon.settled
  /\ updateSeq' = updateSeq

LEMMA ExpireSameTable ==
  ASSUME TypeOK, Expire, UNCHANGED updateSeq
  PROVE  SameTable
  <1>1. CASE mon # None /\ mon.blocked # None
    <2>1. mon \in SessionType /\ mon.blocked \in BlockedType
      BY <1>1 DEF TypeOK, TableTypes, SessionType
    <2> DEFINE b == [mon.blocked EXCEPT !.current = FALSE]
    <2>2. b \in BlockedType
      BY <2>1 DEF BlockedType
    <2>3. mon' = [mon EXCEPT !.blocked = b]
      BY <1>1 DEF Expire
    <2> HIDE DEF b
    <2>4. /\ mon' \in SessionType /\ mon'.targets = mon.targets
          /\ mon'.pending = mon.pending /\ mon'.settled = mon.settled
      BY <2>1, <2>2, <2>3 DEF SessionType
    <2>5. mon' # None
      BY <2>4, NoneAssumption
    <2> QED
      BY <1>1, <2>4, <2>5 DEF SameTable
  <1>2. CASE ~ (mon # None /\ mon.blocked # None)
    BY <1>2 DEF Expire, SameTable
  <1> QED
    BY <1>1, <1>2

LEMMA OrderlyKept ==
  ASSUME Orderly, SameTable, queue' = queue, Bound' => Bound, adapter' => adapter
  PROVE  Orderly'
  BY DEF Orderly, SameTable

LEMMA OrderlyAdded ==
  ASSUME TypeOK, Orderly, SameTable, NEW e \in EffectType, e.op \in {"duck", "replug"},
         queue' = Append(queue, e), Bound' => Bound, adapter' => adapter
  PROVE  Orderly'
  <1>1. PICK r : r = queue'
    OBVIOUS
  <1>2. queue \in Seq(EffectType)
    BY DEF TypeOK, QueueTypes
  <1>3. /\ Increasing(queue) => Increasing(r)
        /\ Alternating(queue) => Alternating(r)
        /\ \A t, p, s : Owned(queue, t, p, s) => Owned(r, t, p, s)
        /\ Disowned(queue) => Disowned(r)
        /\ Cleared(queue) => Cleared(r)
        /\ Unplugs(queue) => Unplugs(r)
    BY <1>1, <1>2, DuckAdded
  <1> QED
    BY <1>1, <1>3 DEF Orderly, SameTable

(* The task at the head done: a plug finds the queue cleared behind it, an  *)
(* unplug leaves nothing to clear.                                          *)
LEMMA OrderlyServed ==
  ASSUME TypeOK, Orderly, SameTable, queue # <<>>, queue' = Tail(queue),
         Bound' => Bound \/ Task.op = "plug", Task.op = "unplug" => ~ Bound',
         adapter' => adapter
  PROVE  Orderly'
  <1>1. PICK r : r = queue'
    OBVIOUS
  <1>2. queue \in Seq(EffectType)
    BY DEF TypeOK, QueueTypes
  <1>3. /\ Increasing(queue) => Increasing(r)
        /\ Alternating(queue) => Alternating(r)
        /\ \A t, p, s : Owned(queue, t, p, s) => Owned(r, t, p, s)
        /\ Disowned(queue) => Disowned(r) /\ (Head(queue).op = "plug" => Unplugs(r))
        /\ Unplugs(queue) /\ Head(queue).op # "unplug" => Unplugs(r)
        /\ Cleared(queue) /\ Head(queue).op # "unplug" => Cleared(r)
        /\ Alternating(queue) /\ Head(queue).op = "plug" => Cleared(r)
    BY <1>1, <1>2, HeadDone
  <1>4. Increasing(r) /\ Alternating(r)
    BY <1>3 DEF Orderly
  <1>5. Bound' => Cleared(r)
    BY <1>3 DEF Orderly, Task
  <1>6. mon' # None => /\ Owned(r, mon'.targets, mon'.pending, mon'.settled)
                       /\ mon'.settled <= updateSeq'
    BY <1>3 DEF Orderly, SameTable
  <1>7. mon' = None /\ adapter' => Disowned(r) /\ (Bound' => Unplugs(r))
    BY <1>3 DEF Orderly, SameTable, Task
  <1> QED
    BY <1>1, <1>4, <1>5, <1>6, <1>7 DEF Orderly

LEMMA OrderlyInit == Init => Orderly
  BY EmptySeq DEF Init, Orderly, Increasing, Alternating, Cleared, Disowned, Bound, Arrived

LEMMA BoundElsewhere ==
  ASSUME Apart
  PROVE  Bound' => Bound
  BY DEF Apart, Bound, Arrived

(* A session is created: what was there of its id is unplugged before.      *)
LEMMA OrderlyCreate ==
  ASSUME TypeOK, QueueKnown, Orderly, NEW l \in Supersets, HostCreate(l), Bound' => Bound
  PROVE  Orderly'
  <1>0. queue \in Seq(EffectType) /\ updateSeq \in Nat /\ l \in Lists
    BY SupersetsAssumption DEF TypeOK, QueueTypes, TableTypes
  <1>e. \A i \in DOMAIN queue : queue[i] \in EffectType
    BY <1>0
  <1>1. PICK e \in EffectType : queue' = Append(queue, e) /\ e.op = "plug" /\ e.targets = l
    BY <1>0, NewEffects DEF HostCreate
  <1>2. /\ mon = None /\ adapter /\ updateSeq' = updateSeq
        /\ mon' # None /\ mon'.targets = l /\ mon'.pending = None /\ mon'.settled = updateSeq
    <2>1. mon = None /\ adapter /\ updateSeq' = updateSeq /\ mon' = Created(l)
      BY DEF HostCreate, MayDispatch
    <2>2. Created(l) \in SessionType
      BY <1>0 DEF Created, SessionType
    <2>3. Created(l) # None
      BY <2>2, NoneAssumption
    <2> QED
      BY <2>1, <2>3 DEF Created
  <1>3. PICK r : r = queue'
    OBVIOUS
  <1>a. queue \in Seq(EffectType) /\ r = Append(queue, e)
    BY <1>0, <1>1, <1>3
  <1>4. PICK n \in Nat :
          /\ DOMAIN queue = 1 .. n /\ DOMAIN r = 1 .. n + 1
          /\ r[n + 1] = e /\ \A i \in 1 .. n : r[i] = queue[i]
    BY <1>a, Pushed
  <1>5. /\ \A i \in DOMAIN r : (i \in DOMAIN queue /\ r[i] = queue[i] /\ i < n + 1)
                               \/ (i = n + 1 /\ r[i] = e)
        /\ \A i \in DOMAIN queue : i \in DOMAIN r /\ r[i] = queue[i] /\ i < n + 1
        /\ n + 1 \in DOMAIN r /\ \A i \in DOMAIN r : ~ (n + 1 < i)
    BY <1>4
  <1>6. Disowned(queue) /\ (Bound => Unplugs(queue) /\ Cleared(queue))
    BY <1>2 DEF Orderly
  <1>7. Increasing(r)
    BY <1>1, <1>5 DEF Orderly, Increasing
  <1>8. Alternating(r)
    <2> SUFFICES ASSUME NEW i \in DOMAIN r, NEW k \in DOMAIN r, i < k, r[i].op = "plug",
                        r[k].op = "plug"
                 PROVE  \E j \in DOMAIN r : i < j /\ j < k /\ r[j].op = "unplug"
      BY DEF Alternating
    <2>1. i \in DOMAIN queue /\ queue[i].op = "plug"
      BY <1>5
    <2>2. CASE k \in DOMAIN queue
      BY <1>5, <2>1, <2>2 DEF Orderly, Alternating
    <2>3. CASE k = n + 1
      BY <1>5, <1>6, <2>1, <2>3 DEF Disowned, After
    <2> QED
      BY <1>5, <2>2, <2>3
  <1>9. Bound' => Cleared(r)
    <2> SUFFICES ASSUME Bound, NEW i \in DOMAIN r, r[i].op = "plug"
                 PROVE  Before(r, i, "unplug")
      BY DEF Cleared
    <2>1. CASE i = n + 1
      BY <1>5, <1>6, <2>1 DEF Unplugs, Before
    <2>2. CASE i \in DOMAIN queue
      BY <1>5, <1>6, <2>2 DEF Cleared, Before
    <2> QED
      BY <1>5, <2>1, <2>2
  <1>10. Owned(r, l, None, updateSeq)
    <2> SUFFICES ASSUME NEW i \in DOMAIN r
                 PROVE  /\ r[i].op = "unplug" => After(r, i, "plug")
                        /\ r[i].op = "plug" /\ ~ After(r, i, "plug") => r[i].targets = l
                        /\ r[i].op = "update" =>
                             /\ r[i].seq <= updateSeq <=> After(r, i, "plug")
                             /\ r[i].seq > updateSeq => None # None /\ r[i].seq <= None.seq
      BY DEF Owned
    <2>1. CASE i = n + 1
      BY <1>1, <1>5, <2>1
    <2>2. CASE i \in DOMAIN queue
      <3>1. After(r, i, "plug")
        BY <1>1, <1>5, <2>2 DEF After
      <3>2. r[i] = queue[i] /\ Known(queue[i]) /\ queue[i] \in EffectType
        BY <1>e, <1>5, <2>2 DEF QueueKnown
      <3>3. r[i].op = "update" => r[i].seq \in Nat /\ r[i].seq <= updateSeq
        BY <3>2 DEF Known, EffectType
      <3> QED
        BY <1>0, <3>1, <3>3
    <2> QED
      BY <1>5, <2>1, <2>2
  <1> QED
    BY <1>0, <1>2, <1>3, <1>7, <1>8, <1>9, <1>10 DEF Orderly

(* It is destroyed: its unplug is the last effect.                          *)
LEMMA OrderlyDestroy ==
  ASSUME TypeOK, Orderly, HostDestroy, Bound' => Bound
  PROVE  Orderly'
  <1>0. queue \in Seq(EffectType)
    BY DEF TypeOK, QueueTypes
  <1>1. PICK e \in EffectType : queue' = Append(queue, e) /\ e.op = "unplug"
    BY NewEffects DEF HostDestroy
  <1>2. mon' = None
    BY DEF HostDestroy
  <1>3. PICK r : r = queue'
    OBVIOUS
  <1>4. PICK n \in Nat :
          /\ DOMAIN queue = 1 .. n /\ DOMAIN r = 1 .. n + 1
          /\ r[n + 1] = e /\ \A i \in 1 .. n : r[i] = queue[i]
    BY <1>0, <1>1, <1>3, Pushed
  <1>5. /\ \A i \in DOMAIN r : (i \in DOMAIN queue /\ r[i] = queue[i] /\ i < n + 1)
                               \/ (i = n + 1 /\ r[i] = e)
        /\ \A i \in DOMAIN queue : i \in DOMAIN r /\ r[i] = queue[i]
        /\ n + 1 \in DOMAIN r
    BY <1>4
  <1>6. Increasing(r)
    BY <1>1, <1>5 DEF Orderly, Increasing
  <1>7. Alternating(r)
    BY <1>1, <1>5 DEF Orderly, Alternating
  <1>8. Bound' => Cleared(r)
    BY <1>1, <1>5 DEF Orderly, Cleared, Before
  <1>9. Disowned(r) /\ Unplugs(r)
    BY <1>1, <1>5 DEF Disowned, Unplugs, After
  <1> QED
    BY <1>2, <1>3, <1>6, <1>7, <1>8, <1>9 DEF Orderly

(* Another update is asked for: the last of the queue, and the pending one. *)
LEMMA OrderlyUpdate ==
  ASSUME TypeOK, QueueKnown, Orderly, NEW l \in Lists, HostUpdate(l), Bound' => Bound
  PROVE  Orderly'
  <1> DEFINE targets == Select(mon.superset, l)
  <1>0. queue \in Seq(EffectType) /\ updateSeq \in Nat
    BY DEF TypeOK, QueueTypes, TableTypes
  <1>1. mon \in SessionType /\ mon # None /\ UNCHANGED adapter
    BY DEF HostUpdate, TypeOK, TableTypes, device
  <1>2. CASE Answered(targets)
    <2>1. mon' = [mon EXCEPT !.blocked = Remembered] /\ UNCHANGED <<updateSeq, queue>>
      BY <1>2 DEF HostUpdate
    <2>2. Remembered \in BlockedType \cup {None}
      BY <1>1 DEF Remembered, SessionType
    <2>3. /\ mon' \in SessionType /\ mon'.targets = mon.targets
          /\ mon'.pending = mon.pending /\ mon'.settled = mon.settled
      BY <1>1, <2>1, <2>2 DEF SessionType
    <2>4. mon' # None
      BY <2>3, NoneAssumption
    <2>5. SameTable
      BY <1>1, <2>1, <2>3, <2>4 DEF SameTable
    <2> QED
      BY <1>1, <2>1, <2>5, OrderlyKept
  <1>3. CASE ~ Answered(targets)
    <2> DEFINE m == updateSeq + 1
               p == [seq |-> m, targets |-> targets]
    <2>1. /\ updateSeq' = m /\ targets \in Lists
          /\ mon' = [mon EXCEPT !.blocked = None, !.pending = p]
          /\ queue' = Append(queue, Update(m, targets))
      BY <1>3 DEF HostUpdate, Answered
    <2> HIDE DEF targets
    <2>2. m \in Nat /\ m > updateSeq /\ p \in PendingType /\ p.seq = m
      BY <1>0, <2>1 DEF PendingType
    <2> HIDE DEF m
    <2>3. p # None
      BY <2>2, NoneAssumption
    <2> HIDE DEF p
    <2>4. /\ mon' \in SessionType /\ mon'.targets = mon.targets
          /\ mon'.pending = p /\ mon'.settled = mon.settled
      BY <1>1, <2>1, <2>2 DEF SessionType
    <2>5. mon' # None
      BY <2>4, NoneAssumption
    <2>6. PICK e \in EffectType : queue' = Append(queue, e) /\ e.op = "update" /\ e.seq = m
      BY <2>1, <2>2, NewEffects
    <2>7. PICK r : r = queue'
      OBVIOUS
    <2>a. r = Append(queue, e)
      BY <2>6, <2>7
    <2>8. PICK n \in Nat :
            /\ DOMAIN queue = 1 .. n /\ DOMAIN r = 1 .. n + 1
            /\ r[n + 1] = e /\ \A i \in 1 .. n : r[i] = queue[i]
      BY <1>0, <2>a, Pushed
    <2>9. /\ \A i \in DOMAIN r : (i \in DOMAIN queue /\ r[i] = queue[i] /\ i < n + 1)
                                 \/ (i = n + 1 /\ r[i] = e)
          /\ \A i \in DOMAIN queue : i \in DOMAIN r /\ r[i] = queue[i] /\ i < n + 1
          /\ n + 1 \in DOMAIN r /\ \A i \in DOMAIN r : ~ (n + 1 < i)
      BY <2>8
    <2>10. \A i \in DOMAIN queue :
             queue[i].op = "update" => queue[i].seq \in Nat /\ queue[i].seq <= updateSeq
      <3> SUFFICES ASSUME NEW i \in DOMAIN queue, queue[i].op = "update"
                   PROVE  queue[i].seq \in Nat /\ queue[i].seq <= updateSeq
        OBVIOUS
      <3>1. queue[i] \in EffectType /\ Known(queue[i])
        BY <1>0 DEF QueueKnown
      <3> QED
        BY <3>1 DEF Known, EffectType
    <2>11. Increasing(r)
      <3> SUFFICES ASSUME NEW i \in DOMAIN r, NEW j \in DOMAIN r, i < j,
                          r[i].op = "update", r[j].op = "update"
                   PROVE  r[i].seq < r[j].seq
        BY DEF Increasing
      <3>1. i \in DOMAIN queue /\ r[i] = queue[i]
        BY <2>9
      <3>2. CASE j \in DOMAIN queue
        BY <2>9, <3>1, <3>2 DEF Orderly, Increasing
      <3>3. CASE j = n + 1
        <4>1. queue[i].seq \in Nat /\ queue[i].seq <= updateSeq
          BY <2>10, <3>1
        <4>2. r[j].seq = m
          BY <2>6, <2>8, <3>3
        <4> QED
          BY <1>0, <2>2, <3>1, <4>1, <4>2
      <3> QED
        BY <2>9, <3>2, <3>3
    <2>12. Alternating(r)
      BY <2>6, <2>9 DEF Orderly, Alternating
    <2>13. Bound' => Cleared(r)
      BY <2>6, <2>9 DEF Orderly, Cleared, Before
    <2>14. ASSUME NEW i \in DOMAIN queue
           PROVE  After(r, i, "plug") <=> After(queue, i, "plug")
      BY <2>6, <2>9 DEF After
    <2>15. Owned(r, mon.targets, p, mon.settled)
      <3>1. Owned(queue, mon.targets, mon.pending, mon.settled) /\ mon.settled <= updateSeq
        BY <1>1 DEF Orderly
      <3> SUFFICES ASSUME NEW i \in DOMAIN r
                   PROVE  /\ r[i].op = "unplug" => After(r, i, "plug")
                          /\ r[i].op = "plug" /\ ~ After(r, i, "plug") =>
                               r[i].targets = mon.targets
                          /\ r[i].op = "update" =>
                               /\ r[i].seq <= mon.settled <=> After(r, i, "plug")
                               /\ r[i].seq > mon.settled => p # None /\ r[i].seq <= p.seq
        BY DEF Owned
      <3>2. mon.settled \in Nat
        BY <1>1 DEF SessionType
      <3>3. CASE i = n + 1
        <4>1. r[i] = e /\ ~ After(r, i, "plug")
          BY <2>8, <2>9, <3>3 DEF After
        <4>2. m > mon.settled /\ m <= m
          BY <1>0, <2>2, <3>1, <3>2
        <4> QED
          BY <2>2, <2>3, <2>6, <3>2, <4>1, <4>2
      <3>4. CASE i \in DOMAIN queue
        <4>1. r[i] = queue[i]
          BY <2>9, <3>4
        <4>2. queue[i].op = "update" => queue[i].seq <= p.seq
          BY <1>0, <2>2, <2>10, <3>4
        <4> QED
          BY <2>3, <2>14, <3>1, <3>4, <4>1, <4>2 DEF Owned
      <3> QED
        BY <2>9, <3>3, <3>4
    <2>16. mon'.settled <= updateSeq'
      <3>1. mon.settled <= updateSeq /\ mon.settled \in Nat
        BY <1>1 DEF Orderly, SessionType
      <3> QED
        BY <1>0, <2>1, <2>2, <2>4, <3>1
    <2> QED
      BY <2>4, <2>5, <2>7, <2>11, <2>12, <2>13, <2>15, <2>16 DEF Orderly
  <1> QED
    BY <1>2, <1>3

(* The update at the head, if no plug is to come, is one to settle.         *)
LEMMA HeadUpdate ==
  ASSUME TypeOK, QueueKnown, Orderly, mon # None, queue # <<>>, Task.op = "update"
  PROVE  /\ ~ PlugDue => Task.seq > mon.settled
         /\ Task.seq > mon.settled =>
              ~ PlugDue /\ mon.pending # None /\ Task.seq <= mon.pending.seq
         /\ Task.seq <= updateSeq
  <1>1. /\ queue \in Seq(EffectType) /\ mon.settled \in Nat /\ Task.seq \in Nat
    BY TaskTypes DEF TypeOK, TableTypes, SessionType
  <1>2. PICK n \in Nat : DOMAIN queue = 1 .. n + 1 /\ queue[1] = Task
    BY <1>1, Popped DEF Task
  <1>3. Owned(queue, mon.targets, mon.pending, mon.settled)
    BY DEF Orderly
  <1>4. /\ Task.seq <= mon.settled <=> After(queue, 1, "plug")
        /\ Task.seq > mon.settled => mon.pending # None /\ Task.seq <= mon.pending.seq
    BY <1>2, <1>3 DEF Owned
  <1>5. PlugDue <=> After(queue, 1, "plug")
    <2>1. ASSUME NEW i \in DOMAIN queue, queue[i].op = "plug" PROVE 1 < i
      BY <1>2, <2>1
    <2> QED
      BY <2>1 DEF PlugDue, After
  <1>6. Task.seq <= updateSeq
    BY <1>2 DEF QueueKnown, Known
  <1> QED
    BY <1>1, <1>4, <1>5, <1>6

(* What the table holds once it is settled                                  *)
Settled(m, pending) ==
  /\ m # None /\ m.settled = Task.seq /\ m.pending = pending
  /\ m.targets = IF outcome.result = "applied" THEN Task.targets ELSE mon.targets

LEMMA SettledTable ==
  ASSUME TypeOK, Serving, Settle, mon # None
  PROVE  /\ Settled(Superseded, mon.pending)
         /\ mon.pending # None => Settled(Decided, None)
  <1>1. /\ mon \in SessionType /\ outcome \in OutcomeType /\ fresh \in BOOLEAN
        /\ Task.seq \in Nat /\ Task.targets \in Lists
    <2>1. queue # <<>> /\ Task.op = "update" /\ outcome # None
      BY DEF Settle, Serving
    <2> QED
      BY <2>1, TaskTypes DEF TypeOK, TableTypes, WorkerTypes
  <1>2. Settled(Superseded, mon.pending)
    <2>1. CASE outcome.result = "applied"
      <3>1. Superseded = [mon EXCEPT !.settled = Task.seq, !.blocked = None,
                                     !.targets = Task.targets]
        BY <2>1 DEF Superseded
      <3>2. Superseded \in SessionType
        BY <1>1, <3>1 DEF SessionType
      <3>3. Superseded # None
        BY <3>2, NoneAssumption
      <3> QED
        BY <1>1, <2>1, <3>1, <3>3 DEF Settled, SessionType
    <2>2. CASE outcome.result # "applied"
      <3>1. Superseded = [mon EXCEPT !.settled = Task.seq]
        BY <2>2 DEF Superseded
      <3>2. Superseded \in SessionType
        BY <1>1, <3>1 DEF SessionType
      <3>3. Superseded # None
        BY <3>2, NoneAssumption
      <3> QED
        BY <1>1, <2>2, <3>1, <3>3 DEF Settled, SessionType
    <2> QED
      BY <2>1, <2>2
  <1>3. ASSUME mon.pending # None PROVE Settled(Decided, None)
    <2>1. CASE outcome.result = "applied"
      <3>1. Decided = [mon EXCEPT !.settled = Task.seq, !.pending = None, !.blocked = None,
                                  !.targets = Task.targets]
        BY <2>1 DEF Decided
      <3>2. Decided \in SessionType
        BY <1>1, <3>1 DEF SessionType
      <3>3. Decided # None
        BY <3>2, NoneAssumption
      <3> QED
        BY <1>1, <2>1, <3>1, <3>3 DEF Settled, SessionType
    <2>2. CASE outcome.result = "not applied"
      <3>1. Decided = [mon EXCEPT !.settled = Task.seq, !.pending = None]
        BY <2>2 DEF Decided
      <3>2. Decided \in SessionType
        BY <1>1, <3>1 DEF SessionType
      <3>3. Decided # None
        BY <3>2, NoneAssumption
      <3> QED
        BY <1>1, <2>2, <3>1, <3>3 DEF Settled, SessionType
    <2>3. CASE outcome.result \notin {"applied", "not applied"}
      <3> DEFINE b == [targets |-> mon.pending.targets,
                       mode |-> outcome.mode, current |-> fresh]
      <3>1. b \in BlockedType
        BY <1>1, <1>3, <2>3 DEF SessionType, OutcomeType, PendingType, BlockedType
      <3>2. Decided = [mon EXCEPT !.settled = Task.seq, !.pending = None, !.blocked = b]
        BY <2>3 DEF Decided
      <3> HIDE DEF b
      <3>3. Decided \in SessionType
        BY <1>1, <3>1, <3>2 DEF SessionType
      <3>4. Decided # None
        BY <3>3, NoneAssumption
      <3> QED
        BY <1>1, <2>3, <3>2, <3>4 DEF Settled, SessionType
    <2> QED
      BY <2>1, <2>2, <2>3
  <1> QED
    BY <1>2, <1>3

(* It is settled: the later ones, if any, are of a later pending one.       *)
LEMMA OrderlySettle ==
  ASSUME TypeOK, Serving, QueueKnown, Orderly, Settle, Bound' => Bound
  PROVE  Orderly'
  <1>0. /\ queue # <<>> /\ Task.op = "update" /\ queue' = Tail(queue)
        /\ UNCHANGED <<adapter, updateSeq>>
    BY DEF Serving, Settle, Done, device
  <1>1. CASE mon' = mon
    <2>1. SameTable
      BY <1>0, <1>1 DEF SameTable
    <2> QED
      BY <1>0, <2>1, OrderlyServed
  <1>2. CASE mon' # mon
    <2>1. mon # None /\ ~ (Task.seq <= mon.settled)
      BY <1>2 DEF Settle
    <2>2. /\ mon \in SessionType /\ Task.seq \in Nat /\ mon.settled \in Nat
          /\ queue \in Seq(EffectType) /\ Task.targets \in Lists
      BY <1>0, <2>1, TaskTypes DEF TypeOK, TableTypes, SessionType
    <2>3. /\ ~ PlugDue /\ mon.pending # None /\ Task.seq <= mon.pending.seq
          /\ Task.seq <= updateSeq
      <3>1. Task.seq > mon.settled
        BY <2>1, <2>2
      <3> QED
        BY <1>0, <2>1, <3>1, HeadUpdate
    <2>4. /\ mon' # None /\ mon'.settled = Task.seq
          /\ mon'.pending = mon.pending \/ (mon'.pending = None /\ mon.pending.seq = Task.seq)
      <3>1. \/ mon' = Decided /\ mon.pending.seq = Task.seq
            \/ mon' = Superseded
        BY <2>1, <2>3 DEF Settle
      <3>2. Settled(Superseded, mon.pending) /\ Settled(Decided, None)
        BY <2>1, <2>3, SettledTable
      <3> QED
        BY <3>1, <3>2 DEF Settled
    <2>5. PICK r : r = queue'
      OBVIOUS
    <2>6. /\ Increasing(r) /\ Alternating(r) /\ (Bound' => Cleared(r))
      <3>1. r = Tail(queue) /\ Head(queue).op # "unplug"
        BY <1>0, <2>5 DEF Task
      <3>2. /\ Increasing(queue) => Increasing(r)
            /\ Alternating(queue) => Alternating(r)
            /\ Cleared(queue) /\ Head(queue).op # "unplug" => Cleared(r)
        BY <1>0, <2>2, <3>1, HeadDone
      <3> QED
        BY <3>1, <3>2 DEF Orderly
    <2>7. PICK n \in Nat :
            /\ DOMAIN queue = 1 .. n + 1 /\ DOMAIN r = 1 .. n
            /\ queue[1] = Head(queue) /\ \A i \in 1 .. n : r[i] = queue[i + 1]
      BY <1>0, <2>2, <2>5, Popped
    <2>8. ASSUME NEW i \in DOMAIN r
          PROVE  /\ i + 1 \in DOMAIN queue /\ 1 < i + 1 /\ 1 \in DOMAIN queue
                 /\ r[i] = queue[i + 1] /\ queue[1] = Task
                 /\ queue[i + 1].op # "plug"
      BY <2>3, <2>7 DEF PlugDue, Task
    <2>9. Owned(r, mon'.targets, mon'.pending, mon'.settled)
      <3> SUFFICES ASSUME NEW i \in DOMAIN r
                   PROVE  /\ r[i].op \notin {"plug", "unplug"}
                          /\ r[i].op = "update" =>
                               /\ ~ (r[i].seq <= mon'.settled)
                               /\ mon'.pending # None /\ r[i].seq <= mon'.pending.seq
        BY <2>8 DEF Owned, After
      <3> DEFINE k == i + 1
      <3>1. /\ k \in DOMAIN queue /\ 1 < k /\ 1 \in DOMAIN queue
            /\ r[i] = queue[k] /\ queue[1] = Task
            /\ queue[k].op # "plug" /\ ~ After(queue, k, "plug")
        BY <2>3, <2>8 DEF PlugDue, After
      <3> HIDE DEF k
      <3>2. Owned(queue, mon.targets, mon.pending, mon.settled) /\ Increasing(queue)
        BY <2>1 DEF Orderly
      <3>3. r[i].op \notin {"plug", "unplug"}
        BY <3>1, <3>2 DEF Owned
      <3>4. ASSUME r[i].op = "update"
            PROVE  /\ ~ (r[i].seq <= mon'.settled)
                   /\ mon'.pending # None /\ r[i].seq <= mon'.pending.seq
        <4>1. queue[k].seq \in Nat
          <5>1. queue[k] \in EffectType
            BY <2>2, <3>1
          <5> QED
            BY <3>1, <3>4, <5>1 DEF EffectType
        <4>2. Task.seq < queue[k].seq
          BY <1>0, <3>1, <3>2, <3>4 DEF Increasing
        <4>3. queue[k].seq > mon.settled
          BY <2>1, <2>2, <4>1, <4>2
        <4>4. queue[k].seq <= mon.pending.seq
          BY <3>1, <3>2, <3>4, <4>3 DEF Owned
        <4>5. mon.pending.seq \in Nat
          BY <2>2, <2>3 DEF SessionType, PendingType
        <4>6. mon'.pending = mon.pending
          BY <2>2, <2>4, <4>1, <4>2, <4>4, <4>5
        <4> QED
          BY <2>2, <2>3, <2>4, <3>1, <4>1, <4>2, <4>4, <4>6
      <3> QED
        BY <3>3, <3>4
    <2> QED
      BY <1>0, <2>3, <2>4, <2>5, <2>6, <2>9 DEF Orderly
  <1> QED
    BY <1>1, <1>2

(* The next device comes up: nothing is left of the last one.               *)
LEMMA OrderlyBringUp ==
  ASSUME TypeOK, Serving, Placed, OneDuck, NotCarriedOver, LateEffects = FALSE, BringUp
  PROVE  Orderly'
  <1>1. /\ queue = <<>> /\ ~ latch /\ pnp = "gone"
        /\ UNCHANGED <<queue, wpc, mon, rt, parked, alive>>
    BY DEF BringUp, table, worker, locals, monitors
  <1>2. mon = None /\ alive = {} /\ parked = None /\ wpc = "idle"
    BY <1>1 DEF NotCarriedOver, Placed, OneDuck, Serving
  <1>3. ~ Bound'
    BY <1>1, <1>2 DEF Bound, Arrived
  <1>4. DOMAIN queue' = {} /\ mon' = None
    BY <1>1, <1>2, EmptySeq
  <1> QED
    BY <1>3, <1>4 DEF Orderly, Increasing, Alternating, Disowned

LEMMA OrderlyElsewhere ==
  ASSUME TypeOK, Serving, PushMarked, QueueKnown, NotCarriedOver, Placed, OneDuck, Orderly,
         LateEffects = FALSE, Elsewhere
  PROVE  Orderly'
  <1>0. Bound' => Bound
    BY ElsewhereApart, BoundElsewhere
  <1>t. queue \in Seq(EffectType) /\ epoch \in Nat
    BY DEF TypeOK, QueueTypes, DeviceTypes
  <1>1. ASSUME NEW l \in Supersets, HostCreate(l) PROVE Orderly'
    BY <1>0, <1>1, OrderlyCreate
  <1>2. CASE HostDestroy
    BY <1>0, <1>2, OrderlyDestroy
  <1>3. ASSUME NEW l \in Lists, HostUpdate(l) PROVE Orderly'
    BY <1>0, <1>3, OrderlyUpdate
  <1>4. CASE ArmDuck \/ PollerReplugs
    <2>1. PICK e \in EffectType : queue' = Append(queue, e) /\ e.op \in {"duck", "replug"}
      BY <1>t, <1>4, NewEffects DEF ArmDuck, PollerReplugs
    <2>2. SameTable /\ UNCHANGED adapter
      BY <1>4 DEF ArmDuck, PollerReplugs, table, device, SameTable
    <2> QED
      BY <1>0, <2>1, <2>2, OrderlyAdded
  <1>5. CASE PollerEnds
    <2>1. SameTable /\ UNCHANGED <<queue, adapter>>
      BY <1>5 DEF PollerEnds, table, worker, device, SameTable
    <2> QED
      BY <1>0, <2>1, OrderlyKept
  <1>6. ASSUME NEW m \in Modes \cup {None}, Commit(m) PROVE Orderly'
    <2>1. SameTable
      BY <1>6, ExpireSameTable DEF Commit
    <2>2. UNCHANGED <<queue, adapter>>
      BY <1>6 DEF Commit, device
    <2> QED
      BY <1>0, <2>1, <2>2, OrderlyKept
  <1>7. CASE ClearAdapter \/ DrainPushes \/ DrainTimesOut \/ DrainMonitors \/ DrainParked
             \/ DestroyAdapter
    <2>1. SameTable /\ UNCHANGED queue /\ (adapter' => adapter)
      BY <1>7 DEF ClearAdapter, DrainPushes, DrainTimesOut, DrainMonitors, DrainParked,
                  DestroyAdapter, table, worker, SameTable
    <2> QED
      BY <1>0, <2>1, OrderlyKept
  <1>8. CASE ForgetAll
    <2>1. SameTable
      BY <1>8, ExpireSameTable DEF ForgetAll
    <2>2. UNCHANGED <<queue, adapter>>
      BY <1>8 DEF ForgetAll
    <2> QED
      BY <1>0, <2>1, <2>2, OrderlyKept
  <1>9. CASE TeardownReset
    <2>1. mon' = None /\ UNCHANGED <<queue, adapter>> /\ ~ adapter
      BY <1>9 DEF TeardownReset, worker, PushMarked
    <2> QED
      BY <1>0, <2>1 DEF Orderly
  <1>10. CASE BringUp
    BY <1>10, OrderlyBringUp
  <1>11. CASE UNCHANGED vars
    <2>1. SameTable /\ UNCHANGED <<queue, adapter>>
      BY <1>11 DEF vars, table, worker, device, SameTable
    <2> QED
      BY <1>0, <2>1, OrderlyKept
  <1> QED
    BY <1>1, <1>2, <1>3, <1>4, <1>5, <1>6, <1>7, <1>8, <1>9, <1>10, <1>11
       DEF Elsewhere, Host, Exit

(* A push, and what undoes it, leave the monitor the one it is.             *)
LEMMA SameObject ==
  ASSUME TypeOK, Serving, Publish \/ CheckEpoch \/ OSRefuses
  PROVE  rt' # None => rt # None /\ rt'.obj = rt.obj
  <1> SUFFICES ASSUME rt' # None PROVE rt # None /\ rt'.obj = rt.obj
    OBVIOUS
  <1>1. rt # None
    BY DEF Publish, CheckEpoch, OSRefuses, Restore, Pushable
  <1>2. wpc \in Pushing /\ queue # <<>> /\ Task.op = "update"
    BY DEF Publish, CheckEpoch, OSRefuses, Serving, Pushing
  <1>3. PICK l \in Lists : rt' \in {rt, [rt EXCEPT !.targets = l]}
    <2>1. Task.targets \in Lists
      BY <1>2, TaskTypes
    <2>2. wpc \in {"epoch", "call"} => lists.targets \in Lists
      BY DEF Serving, TypeOK, WorkerTypes, PlugLists
    <2>3. CASE Publish
      BY <2>1, <2>3 DEF Publish
    <2>4. CASE CheckEpoch \/ OSRefuses
      BY <2>1, <2>2, <2>4 DEF CheckEpoch, OSRefuses, Restore
    <2> QED
      BY <2>3, <2>4
  <1>4. rt \in RuntimeType
    BY <1>1 DEF TypeOK, MonitorTypes
  <1>5. [rt EXCEPT !.targets = l].obj = rt.obj
    BY <1>4 DEF RuntimeType
  <1> QED
    BY <1>1, <1>3, <1>5

LEMMA OrderlyWorker ==
  ASSUME TypeOK, Serving, QueueKnown, Placed, Orderly, Worker
  PROVE  Orderly'
  <1>0. /\ parked # None => rt = None
        /\ wpc \in Pushing \cup {"create", "depart", "park"} => parked = None
        /\ wpc # "idle" => queue # <<>>
    BY DEF Placed, Serving
  <1>1. CASE StartPlug
    <2>1. /\ SameTable /\ UNCHANGED <<adapter, rt, alive>> /\ parked' \in {parked, None}
          /\ queue # <<>> /\ Task.op = "plug"
      BY <1>1 DEF StartPlug, AtHead, Task, table, device, SameTable
    <2>2. CASE adapter
      <3>1. queue' = queue /\ wpc' = "create"
        BY <1>1, <2>2 DEF StartPlug
      <3>2. Bound' => Bound
        BY <2>1, <3>1 DEF Bound, Arrived, Task
      <3> QED
        BY <2>1, <3>1, <3>2, OrderlyKept
    <2>3. CASE ~ adapter
      <3>1. queue' = Tail(queue)
        BY <1>1, <2>3 DEF StartPlug, Done
      <3> QED
        BY <2>1, <3>1, OrderlyServed
    <2> QED
      BY <2>2, <2>3
  <1>2. CASE StartReplug
    <2>1. /\ SameTable /\ UNCHANGED <<adapter, rt, alive>> /\ parked' = None
          /\ queue # <<>> /\ Task.op = "replug"
      BY <1>2 DEF StartReplug, AtHead, Task, table, device, SameTable
    <2>2. \/ queue' = queue /\ parked # None
          \/ queue' = Tail(queue) /\ wpc' = "idle"
      BY <1>2 DEF StartReplug, Done
    <2>3. Bound' => Bound
      BY <2>1, <2>2 DEF Bound, Arrived
    <2> QED
      BY <2>1, <2>2, <2>3, OrderlyKept, OrderlyServed
  <1>3. CASE CreateFails
    <2>1. /\ SameTable /\ UNCHANGED <<adapter, rt, parked, alive>>
          /\ queue' = Tail(queue) /\ wpc' = "idle" /\ wpc = "create"
      BY <1>3 DEF CreateFails, Done, table, monitors, device, SameTable
    <2>2. queue # <<>> /\ Task.op # "unplug" /\ (Bound' => Bound)
      BY <1>0, <2>1 DEF Placed, Bound, Arrived
    <2> QED
      BY <2>1, <2>2, OrderlyServed
  <1>4. ASSUME NEW o \in Objects, Arrive(o) \/ ArrivalFails(o) PROVE Orderly'
    <2>1. SameTable
      <3>1. UNCHANGED updateSeq /\ (Expire \/ UNCHANGED mon)
        BY <1>4 DEF Arrive, ArrivalFails, Forget
      <3>2. CASE UNCHANGED mon
        BY <3>1, <3>2 DEF SameTable
      <3> QED
        BY <3>1, <3>2, ExpireSameTable
    <2>2. UNCHANGED <<adapter, parked>> /\ queue' = Tail(queue) /\ wpc = "create"
      BY <1>4 DEF Arrive, ArrivalFails, Done, device
    <2>3. queue # <<>> /\ Task.op \in {"plug", "replug"}
      BY <1>0, <2>2 DEF Placed
    <2>4. Bound \/ Task.op = "plug"
      BY <2>2, <2>3 DEF Bound
    <2> QED
      BY <2>1, <2>2, <2>3, <2>4, OrderlyServed
  <1>5. CASE StartUnplug
    <2>1. UNCHANGED <<adapter, rt, alive>> /\ queue # <<>> /\ Task.op = "unplug"
      BY <1>5 DEF StartUnplug, AtHead, Task, device
    <2>2. SameTable
      <3>1. UNCHANGED updateSeq /\ (Expire \/ UNCHANGED mon)
        BY <1>5 DEF StartUnplug, Forget
      <3>2. CASE UNCHANGED mon
        BY <3>1, <3>2 DEF SameTable
      <3> QED
        BY <3>1, <3>2, ExpireSameTable
    <2>3. CASE parked # None \/ rt = None
      <3>1. parked' = None /\ queue' = Tail(queue) /\ wpc' = "idle" /\ rt' = None
        BY <1>0, <1>5, <2>1, <2>3 DEF StartUnplug, Done
      <3>2. ~ Bound'
        BY <3>1 DEF Bound, Arrived
      <3> QED
        BY <2>1, <2>2, <3>1, <3>2, OrderlyServed
    <2>4. CASE ~ (parked # None \/ rt = None)
      <3>1. UNCHANGED <<queue, parked>> /\ wpc' = "depart"
        BY <1>5, <2>4 DEF StartUnplug
      <3>2. Bound' => Bound
        BY <2>1, <3>1 DEF Bound, Arrived
      <3> QED
        BY <2>1, <2>2, <3>1, <3>2, OrderlyKept
    <2> QED
      BY <2>3, <2>4
  <1>6. CASE Depart
    <2>1. /\ SameTable /\ UNCHANGED <<adapter, parked>> /\ rt' = None /\ wpc = "depart"
          /\ queue' = Tail(queue) /\ wpc' = "idle"
      BY <1>6 DEF Depart, Done, table, SameTable
    <2>2. queue # <<>> /\ ~ Bound'
      BY <1>0, <2>1 DEF Bound, Arrived
    <2> QED
      BY <2>1, <2>2, OrderlyServed
  <1>7. CASE StartPush \/ ReadAdapter \/ Refuse \/ OSAccepts
    <2>1. SameTable /\ UNCHANGED <<adapter, queue, rt, alive>> /\ wpc' \notin {"park", "create"}
      BY <1>7 DEF StartPush, ReadAdapter, Refuse, OSAccepts, Settling, table, monitors, device,
                  SameTable
    <2>2. parked' # None => parked # None
      BY <1>7 DEF StartPush, ReadAdapter, Refuse, OSAccepts, monitors
    <2>3. Bound' => Bound
      BY <2>1, <2>2 DEF Bound, Arrived
    <2> QED
      BY <2>1, <2>3, OrderlyKept
  <1>8. CASE Publish \/ CheckEpoch \/ OSRefuses
    <2>1. /\ SameTable /\ UNCHANGED <<adapter, queue, parked, alive>>
          /\ wpc' \notin {"park", "create"} /\ wpc \in Pushing
      BY <1>8 DEF Publish, CheckEpoch, OSRefuses, Settling, table, device, SameTable, Pushing
    <2>2. rt' # None => rt # None /\ rt'.obj = rt.obj
      BY <1>8, SameObject
    <2>3. Bound' => Bound
      BY <2>1, <2>2 DEF Bound, Arrived
    <2> QED
      BY <2>1, <2>3, OrderlyKept
  <1>9. CASE Settle
    <2>1. UNCHANGED <<rt, parked, alive>> /\ wpc' = "idle"
      BY <1>9 DEF Settle, Done, monitors, device
    <2>2. Bound' => Bound
      BY <2>1 DEF Bound, Arrived
    <2> QED
      BY <1>9, <2>2, OrderlySettle
  <1>10. CASE DuckNothing \/ DuckDevice
    <2>1. /\ SameTable /\ UNCHANGED <<adapter, rt, parked, alive>> /\ queue # <<>>
          /\ queue' = Tail(queue) /\ wpc' = "idle" /\ Task.op = "duck"
      BY <1>10 DEF DuckNothing, DuckDevice, AtHead, Task, Done, table, monitors, device,
                   SameTable
    <2>2. Bound' => Bound
      BY <2>1 DEF Bound, Arrived
    <2> QED
      BY <2>1, <2>2, OrderlyServed
  <1>11. CASE DuckDepart
    <2>1. SameTable /\ UNCHANGED <<adapter, queue>> /\ Arrived
      BY <1>11 DEF DuckDepart, table, SameTable
    <2> QED
      BY <2>1, OrderlyKept DEF Bound
  <1>12. CASE Park
    <2>1. SameTable
      <3>1. UNCHANGED updateSeq /\ (Expire \/ UNCHANGED mon)
        BY <1>12 DEF Park, Forget
      <3>2. CASE UNCHANGED mon
        BY <3>1, <3>2 DEF SameTable
      <3> QED
        BY <3>1, <3>2, ExpireSameTable
    <2>2. /\ UNCHANGED <<adapter>> /\ queue' = Tail(queue) /\ wpc' = "idle" /\ rt' = None
          /\ wpc = "park" /\ (parked' # None => rt # None)
      BY <1>12 DEF Park, Done, device
    <2>3. queue # <<>> /\ Task.op = "duck" /\ (Bound' => Bound)
      BY <1>0, <2>2 DEF Placed, Bound, Arrived
    <2> QED
      BY <2>1, <2>2, <2>3, OrderlyServed
  <1> QED
    BY <1>1, <1>2, <1>3, <1>4, <1>5, <1>6, <1>7, <1>8, <1>9, <1>10, <1>11, <1>12
       DEF Worker, CreateMonitor, Push

LEMMA OrderlyStep ==
  ASSUME TypeOK, Serving, PushMarked, QueueKnown, NotCarriedOver, Placed, OneDuck, Orderly,
         LateEffects = FALSE, [Next]_vars
  PROVE  Orderly'
  BY OrderlyElsewhere, OrderlyWorker DEF Next, Elsewhere

-----------------------------------------------------------------------------
(* What is in force                                                         *)

(* A plug that is to come stays in the queue until it is served.            *)
LEMMA DueKept ==
  ASSUME TypeOK,
         \/ queue' = queue
         \/ \E e \in EffectType : queue' = Append(queue, e)
         \/ queue # <<>> /\ queue' = Tail(queue) /\ Task.op # "plug"
  PROVE  PlugDue => PlugDue'
  <1>1. queue \in Seq(EffectType)
    BY DEF TypeOK, QueueTypes
  <1>2. PICK r : r = queue'
    OBVIOUS
  <1>3. CASE queue' = queue
    BY <1>3 DEF PlugDue
  <1>4. ASSUME NEW e \in EffectType, queue' = Append(queue, e) PROVE PlugDue => PlugDue'
    <2>a. r = Append(queue, e)
      BY <1>2, <1>4
    <2>1. PICK n \in Nat :
            /\ DOMAIN queue = 1 .. n /\ DOMAIN r = 1 .. n + 1
            /\ r[n + 1] = e /\ \A i \in 1 .. n : r[i] = queue[i]
      BY <1>1, <2>a, Pushed
    <2>2. \A i \in DOMAIN queue : i \in DOMAIN r /\ r[i] = queue[i]
      BY <2>1
    <2> QED
      BY <1>2, <2>2 DEF PlugDue
  <1>5. CASE queue # <<>> /\ queue' = Tail(queue) /\ Task.op # "plug"
    <2>a. r = Tail(queue)
      BY <1>2, <1>5
    <2>1. PICK n \in Nat :
            /\ DOMAIN queue = 1 .. n + 1 /\ DOMAIN r = 1 .. n
            /\ queue[1] = Head(queue) /\ \A i \in 1 .. n : r[i] = queue[i + 1]
      BY <1>1, <1>5, <2>a, Popped
    <2> SUFFICES ASSUME NEW i \in DOMAIN queue, queue[i].op = "plug"
                 PROVE  \E j \in DOMAIN r : r[j].op = "plug"
      BY <1>2 DEF PlugDue
    <2>2. i # 1
      BY <1>5, <2>1 DEF Task
    <2>3. i - 1 \in 1 .. n /\ i - 1 + 1 = i
      BY <2>1, <2>2
    <2> QED
      BY <2>1, <2>3
  <1> QED
    BY <1>3, <1>4, <1>5

(* A plug at the head finds nothing of an earlier session.                  *)
LEMMA PlugFindsNothing ==
  ASSUME TypeOK, Orderly, queue # <<>>, Task.op = "plug"
  PROVE  ~ Bound
  <1>1. queue \in Seq(EffectType)
    BY DEF TypeOK, QueueTypes
  <1>2. PICK n \in Nat : DOMAIN queue = 1 .. n + 1 /\ queue[1] = Task
    BY <1>1, Popped DEF Task
  <1>3. ASSUME Bound PROVE FALSE
    <2>1. Before(queue, 1, "unplug")
      BY <1>2, <1>3 DEF Orderly, Cleared
    <2>2. PICK j \in DOMAIN queue : j < 1
      BY <2>1 DEF Before
    <2> QED
      BY <1>2, <2>2
  <1> QED
    BY <1>3

(* The last plug of the queue is the one of the session in the table.       *)
LEMMA LastPlug ==
  ASSUME TypeOK, Orderly, mon # None, queue # <<>>, queue' = Tail(queue), Task.op = "plug",
         ~ PlugDue'
  PROVE  Task.targets = mon.targets
  <1>1. queue \in Seq(EffectType)
    BY DEF TypeOK, QueueTypes
  <1>2. PICK r : r = queue'
    OBVIOUS
  <1>a. r = Tail(queue)
    BY <1>2
  <1>3. PICK n \in Nat :
          /\ DOMAIN queue = 1 .. n + 1 /\ DOMAIN r = 1 .. n
          /\ queue[1] = Head(queue) /\ \A i \in 1 .. n : r[i] = queue[i + 1]
    BY <1>1, <1>a, Popped
  <1>4. ~ After(queue, 1, "plug")
    <2> SUFFICES ASSUME NEW j \in DOMAIN queue, 1 < j, queue[j].op = "plug" PROVE FALSE
      BY DEF After
    <2>1. j - 1 \in 1 .. n /\ j - 1 + 1 = j
      BY <1>3
    <2>2. j - 1 \in DOMAIN r /\ r[j - 1].op = "plug"
      BY <1>3, <2>1
    <2> QED
      BY <1>2, <2>2 DEF PlugDue
  <1>5. Owned(queue, mon.targets, mon.pending, mon.settled) /\ 1 \in DOMAIN queue
    BY <1>3 DEF Orderly
  <1> QED
    BY <1>3, <1>4, <1>5 DEF Owned, Task

LEMMA TruthfulInit == Init => Truthful
  BY DEF Init, Truthful

LEMMA TruthfulElsewhere ==
  ASSUME TypeOK, Serving, Placed, Truthful, Elsewhere
  PROVE  Truthful'
  <1>a. Apart
    BY ElsewhereApart
  <1>t. queue \in Seq(EffectType) /\ updateSeq \in Nat /\ epoch \in Nat
    BY DEF TypeOK, QueueTypes, TableTypes, DeviceTypes
  <1>k. ASSUME mon' # None => mon # None /\ mon'.targets = mon.targets,
               PlugDue => PlugDue'
        PROVE  Truthful'
    <2> SUFFICES ASSUME mon' # None, ~ PlugDue'
                 PROVE  /\ IF Ahead' THEN ListIs(Task.targets)' ELSE ListIs(mon.targets)'
                        /\ wpc' = "create" \/ (wpc' \in {"epoch", "call"} /\ Arrived')
                             => lists'.targets = mon'.targets
      BY DEF Truthful
    <2>1. /\ mon # None /\ ~ PlugDue /\ mon'.targets = mon.targets
      BY <1>k
    <2>2. /\ IF Ahead THEN ListIs(Task.targets) ELSE ListIs(mon.targets)
          /\ wpc = "create" \/ (wpc \in {"epoch", "call"} /\ Arrived)
               => lists.targets = mon.targets
      BY <2>1 DEF Truthful
    <2>3. /\ wpc' = wpc /\ lists' = lists /\ (Ahead' <=> Ahead)
          /\ Arrived' => Arrived /\ rt' = rt
          /\ rt' # None => rt' = rt
          /\ parked' # None => parked' = parked
      BY <1>a DEF Apart, Ahead, Arrived
    <2>4. Ahead => Task' = Task
      BY <1>a DEF Apart, Ahead
    <2> QED
      BY <2>1, <2>2, <2>3, <2>4 DEF ListIs
  <1>1. ASSUME NEW l \in Supersets, HostCreate(l) PROVE Truthful'
    <2>1. PICK e \in EffectType : queue' = Append(queue, e) /\ e.op = "plug"
      BY <1>1, SupersetsAssumption, NewEffects DEF HostCreate
    <2>2. Append(queue, e)[Len(queue) + 1] = e /\ Len(queue) + 1 \in DOMAIN Append(queue, e)
      <3>1. /\ Append(queue, e) \in Seq(EffectType) /\ Len(Append(queue, e)) = Len(queue) + 1
            /\ Append(queue, e)[Len(queue) + 1] = e /\ Len(queue) \in Nat
        BY <1>t, AppendProperties
      <3> QED
        BY <3>1
    <2>3. PlugDue'
      BY <2>1, <2>2 DEF PlugDue
    <2> QED
      BY <2>3 DEF Truthful
  <1>2. CASE HostDestroy \/ TeardownReset
    BY <1>2 DEF HostDestroy, TeardownReset, Truthful
  <1>3. ASSUME NEW l \in Lists, HostUpdate(l) PROVE Truthful'
    <2> DEFINE targets == Select(mon.superset, l)
    <2>1. mon \in SessionType /\ mon # None
      BY <1>3 DEF HostUpdate, TypeOK, TableTypes
    <2>2. CASE Answered(targets)
      <3>1. mon' = [mon EXCEPT !.blocked = Remembered] /\ queue' = queue
        BY <1>3, <2>2 DEF HostUpdate
      <3>2. mon'.targets = mon.targets
        BY <2>1, <3>1 DEF SessionType
      <3>3. PlugDue => PlugDue'
        BY <3>1, DueKept
      <3> QED
        BY <1>k, <2>1, <3>2, <3>3
    <2>3. CASE ~ Answered(targets)
      <3>1. /\ queue' = Append(queue, Update(updateSeq + 1, targets)) /\ targets \in Lists
            /\ mon' = [mon EXCEPT !.blocked = None,
                                  !.pending = [seq |-> updateSeq + 1, targets |-> targets]]
        BY <1>3, <2>3 DEF HostUpdate, Answered
      <3> HIDE DEF targets
      <3>2. mon'.targets = mon.targets
        BY <2>1, <3>1 DEF SessionType
      <3>3. Update(updateSeq + 1, targets) \in EffectType
        BY <1>t, <3>1, NewEffects
      <3>4. PlugDue => PlugDue'
        BY <3>1, <3>3, DueKept
      <3> QED
        BY <1>k, <2>1, <3>2, <3>4
    <2> QED
      BY <2>2, <2>3
  <1>4. CASE ArmDuck \/ PollerReplugs
    <2>1. PICK e \in EffectType : queue' = Append(queue, e)
      BY <1>t, <1>4, NewEffects DEF ArmDuck, PollerReplugs
    <2>2. mon' = mon /\ (PlugDue => PlugDue')
      BY <1>4, <2>1, DueKept DEF ArmDuck, PollerReplugs, table
    <2> QED
      BY <1>k, <2>2
  <1>5. CASE \/ PollerEnds \/ ClearAdapter \/ DrainPushes \/ DrainTimesOut \/ DrainMonitors
             \/ DrainParked \/ DestroyAdapter \/ BringUp \/ UNCHANGED vars
    <2>1. mon' = mon /\ queue' = queue
      BY <1>5 DEF PollerEnds, ClearAdapter, DrainPushes, DrainTimesOut, DrainMonitors,
                  DrainParked, DestroyAdapter, BringUp, vars, table, worker
    <2> QED
      BY <1>k, <2>1, DueKept
  <1>6. CASE ForgetAll \/ \E m \in Modes \cup {None} : Commit(m)
    <2>1. SameTable /\ queue' = queue
      BY <1>6, ExpireSameTable DEF ForgetAll, Commit
    <2> QED
      BY <1>k, <2>1, DueKept DEF SameTable
  <1> QED
    BY <1>1, <1>2, <1>3, <1>4, <1>5, <1>6 DEF Elsewhere, Host, Exit

(* A step after which the worker is ahead of the table, or at peace with it *)
LEMMA TruthfulIdle ==
  ASSUME wpc' = "idle",
         mon' # None /\ ~ PlugDue' => ListIs(mon.targets)'
  PROVE  Truthful'
  BY DEF Truthful, Ahead

LEMMA TruthfulWorker ==
  ASSUME TypeOK, Serving, QueueKnown, Placed, OneDuck, Orderly, Truthful, Worker
  PROVE  Truthful'
  <1>0. /\ parked # None => rt = None
        /\ wpc \in Pushing \cup {"create", "depart", "park"} => parked = None
        /\ wpc # "idle" => queue # <<>>
    BY DEF Placed, Serving
  (* An effect other than a plug is done, the list is as it was.            *)
  <1>i. ASSUME queue # <<>>, Task.op # "plug", queue' = Tail(queue), wpc' = "idle",
               mon' # None => mon # None /\ mon'.targets = mon.targets, ~ Ahead,
               ListIs(mon.targets) => ListIs(mon.targets)'
        PROVE  Truthful'
    <2>1. PlugDue => PlugDue'
      BY <1>i, DueKept
    <2> QED
      BY <1>i, <2>1 DEF Truthful, Ahead
  <1>1. CASE StartPlug
    <2>1. /\ UNCHANGED <<mon, rt, alive>> /\ parked' \in {parked, None}
          /\ queue # <<>> /\ Task.op = "plug"
      BY <1>1 DEF StartPlug, AtHead, Task, table, device
    <2>2. CASE adapter
      <3>1. queue' = queue
        BY <1>1, <2>2 DEF StartPlug
      <3>2. PlugDue
        <4>1. 1 \in DOMAIN queue /\ queue[1] = Task
          BY <2>1, Served DEF TypeOK, QueueTypes, Task
        <4> QED
          BY <2>1, <4>1 DEF PlugDue
      <3>3. PlugDue'
        BY <3>1, <3>2 DEF PlugDue
      <3> QED
        BY <3>3 DEF Truthful
    <2>3. CASE ~ adapter
      <3>1. wpc' = "idle"
        BY <1>1, <2>3 DEF StartPlug, Done
      <3>2. ~ Bound
        BY <2>1, PlugFindsNothing
      <3>3. ~ Arrived' /\ parked' = None
        BY <2>1, <3>2 DEF Bound, Arrived
      <3> QED
        BY <3>1, <3>3 DEF Truthful, Ahead, ListIs
    <2> QED
      BY <2>2, <2>3
  <1>2. CASE StartReplug
    <2>1. /\ UNCHANGED <<mon, rt, alive>> /\ parked' = None /\ wpc = "idle"
          /\ queue # <<>> /\ Task.op = "replug"
      BY <1>2 DEF StartReplug, AtHead, Task, table, device
    <2>2. CASE Done
      <3>1. queue' = Tail(queue) /\ wpc' = "idle" /\ ~ Ahead
        BY <2>1, <2>2 DEF Done, Ahead
      <3>2. ListIs(mon.targets) => ListIs(mon.targets)'
        BY <2>1, <3>1 DEF ListIs, Arrived
      <3> QED
        BY <1>i, <2>1, <3>1, <3>2
    <2>3. CASE ~ Done
      <3>1. wpc' = "create" /\ lists' = parked /\ queue' = queue /\ parked # None
        BY <1>2, <2>3 DEF StartReplug
      <3>2. (PlugDue <=> PlugDue') /\ ~ Ahead /\ ~ Ahead'
        BY <2>1, <3>1 DEF PlugDue, Ahead
      <3>3. ListIs(mon.targets) => ListIs(mon.targets)' /\ lists'.targets = mon.targets
        BY <2>1, <3>1 DEF ListIs, Arrived
      <3> QED
        BY <2>1, <3>1, <3>2, <3>3 DEF Truthful
    <2> QED
      BY <2>2, <2>3
  <1>3. CASE CreateFails
    <2>1. /\ UNCHANGED <<mon, rt, parked, alive>> /\ wpc = "create"
          /\ queue' = Tail(queue) /\ wpc' = "idle"
      BY <1>3 DEF CreateFails, Done, table, monitors, device
    <2>2. queue # <<>> /\ Task.op \in {"plug", "replug"}
      BY <1>0, <2>1 DEF Placed
    <2>3. CASE Task.op = "plug"
      <3>1. ~ Bound
        BY <2>2, <2>3, PlugFindsNothing
      <3>2. ~ Arrived' /\ parked' = None
        BY <2>1, <3>1 DEF Bound, Arrived
      <3> QED
        BY <2>1, <3>2 DEF Truthful, Ahead, ListIs
    <2>4. CASE Task.op = "replug"
      <3>1. ~ Ahead /\ (ListIs(mon.targets) => ListIs(mon.targets)')
        BY <2>1 DEF Ahead, ListIs, Arrived
      <3> QED
        BY <1>i, <2>1, <2>2, <2>4, <3>1
    <2> QED
      BY <2>2, <2>3, <2>4
  <1>4. ASSUME NEW o \in Objects, Arrive(o) \/ ArrivalFails(o) PROVE Truthful'
    <2>1. /\ wpc = "create" /\ queue' = Tail(queue) /\ wpc' = "idle" /\ parked' = None
          /\ rt' \in {None, [obj |-> o, superset |-> lists.superset, targets |-> lists.targets]}
      BY <1>0, <1>4 DEF Arrive, ArrivalFails, Done
    <2>2. queue # <<>> /\ Task.op \in {"plug", "replug"} /\ ~ Ahead
      BY <1>0, <2>1 DEF Placed, Ahead
    <2>3. SameTable
      <3>1. UNCHANGED updateSeq /\ (Expire \/ UNCHANGED mon)
        BY <1>4 DEF Arrive, ArrivalFails, Forget
      <3>2. CASE UNCHANGED mon
        BY <3>1, <3>2 DEF SameTable
      <3> QED
        BY <3>1, <3>2, ExpireSameTable
    <2>4. ASSUME mon' # None, ~ PlugDue' PROVE lists.targets = mon'.targets
      <3>1. mon # None /\ mon'.targets = mon.targets
        BY <2>3, <2>4 DEF SameTable
      <3>2. CASE Task.op = "plug"
        <4>1. Task.targets = mon.targets
          BY <2>1, <2>2, <2>4, <3>1, <3>2, LastPlug
        <4> QED
          BY <2>1, <3>1, <3>2, <4>1 DEF Placed
      <3>3. CASE Task.op = "replug"
        <4>1. ~ PlugDue
          BY <2>1, <2>2, <2>4, <3>3, DueKept
        <4> QED
          BY <2>1, <3>1, <4>1 DEF Truthful
      <3> QED
        BY <2>2, <3>2, <3>3
    <2>5. rt' # None => rt'.targets = lists.targets
      BY <2>1
    <2> QED
      BY <2>1, <2>4, <2>5 DEF Truthful, Ahead, ListIs, Arrived
  <1>5. CASE StartUnplug
    <2>1. /\ UNCHANGED <<rt, alive>> /\ queue # <<>> /\ Task.op = "unplug" /\ wpc = "idle"
      BY <1>5 DEF StartUnplug, AtHead, Task, device
    <2>a. ~ Ahead
      BY <2>1 DEF Ahead
    <2>2. SameTable
      <3>1. UNCHANGED updateSeq /\ (Expire \/ UNCHANGED mon)
        BY <1>5 DEF StartUnplug, Forget
      <3>2. CASE UNCHANGED mon
        BY <3>1, <3>2 DEF SameTable
      <3> QED
        BY <3>1, <3>2, ExpireSameTable
    <2>3. CASE parked # None \/ rt = None
      <3>1. parked' = None /\ wpc' = "idle" /\ rt' = None
        BY <1>0, <1>5, <2>1, <2>3 DEF StartUnplug, Done
      <3> QED
        BY <3>1 DEF Truthful, Ahead, ListIs, Arrived
    <2>4. CASE ~ (parked # None \/ rt = None)
      <3>1. UNCHANGED <<queue, parked>> /\ wpc' = "depart"
        BY <1>5, <2>4 DEF StartUnplug
      <3>2. (PlugDue <=> PlugDue') /\ ~ Ahead'
        BY <3>1 DEF PlugDue, Ahead
      <3>3. mon' # None => mon # None /\ mon'.targets = mon.targets
        BY <2>2 DEF SameTable
      <3>4. mon' # None /\ ListIs(mon.targets) => ListIs(mon.targets)'
        BY <2>1, <3>1, <3>3 DEF ListIs, Arrived
      <3> QED
        BY <2>a, <3>1, <3>2, <3>3, <3>4 DEF Truthful
    <2> QED
      BY <2>3, <2>4
  <1>6. CASE Depart
    <2>1. rt' = None /\ parked' = None /\ wpc' = "idle"
      BY <1>0, <1>6 DEF Depart, Done
    <2> QED
      BY <2>1 DEF Truthful, Ahead, ListIs, Arrived
  <1>7. CASE StartPush
    <2>1. /\ UNCHANGED <<mon, queue, rt, alive>> /\ wpc = "idle" /\ queue # <<>>
          /\ Task.op = "update"
      BY <1>7 DEF StartPush, AtHead, Task, table, device
    <2>2. /\ ~ Ahead /\ (PlugDue <=> PlugDue') /\ Task' = Task
      BY <2>1 DEF Ahead, PlugDue, Task
    <2>3. CASE wpc' = "settle" /\ outcome' = Applied /\ parked # None
                /\ parked' = [parked EXCEPT !.targets = Task.targets]
      <3>1. parked \in PlugLists /\ Task.targets \in Lists /\ ~ Arrived'
        BY <1>0, <2>1, <2>3, TaskTypes DEF TypeOK, MonitorTypes, Arrived
      <3>2. parked'.targets = Task.targets /\ Ahead'
        BY <2>3, <3>1, Outcomes DEF PlugLists, Ahead
      <3> QED
        BY <2>2, <2>3, <3>1, <3>2 DEF Truthful, ListIs
    <2>4. CASE UNCHANGED parked /\ (wpc' = "adapter" \/ (wpc' = "settle" /\ outcome' = NotApplied))
      <3>1. ~ Ahead' /\ (ListIs(mon.targets) => ListIs(mon.targets)')
        BY <2>1, <2>4, Outcomes DEF Ahead, ListIs, Arrived
      <3> QED
        BY <2>1, <2>2, <2>4, <3>1 DEF Truthful
    <2> QED
      BY <1>7, <2>3, <2>4 DEF StartPush, Settling
  <1>8. CASE ReadAdapter \/ Refuse
    <2>1. /\ UNCHANGED <<mon, queue, rt, parked, alive>> /\ wpc \in {"adapter", "publish"}
          /\ wpc' \in {"publish", "settle"}
      BY <1>8 DEF ReadAdapter, Refuse, Settling, table, monitors, device
    <2>2. wpc' = "settle" => outcome'.result # "applied"
      <3>1. CASE ReadAdapter
        BY <3>1, Outcomes DEF ReadAdapter, Settling
      <3>2. CASE Refuse
        <4>1. outcome' = NotApplied \/ outcome' = Blocked(committed[rt.obj])
          BY <3>2 DEF Refuse, Settling
        <4>2. ASSUME NEW m PROVE Blocked(m).result = "blocked"
          BY DEF Blocked
        <4>3. outcome'.result \in {"not applied", "blocked"}
          BY <4>1, <4>2, Outcomes
        <4> QED
          BY <4>3
      <3> QED
        BY <1>8, <3>1, <3>2
    <2>3. ~ Ahead /\ ~ Ahead' /\ (PlugDue <=> PlugDue')
      BY <2>1, <2>2 DEF Ahead, PlugDue
    <2>4. ListIs(mon.targets) => ListIs(mon.targets)'
      BY <2>1 DEF ListIs, Arrived
    <2> QED
      BY <2>1, <2>3, <2>4 DEF Truthful
  <1>9. CASE Publish
    <2>1. /\ UNCHANGED <<mon, queue, parked, alive>> /\ wpc = "publish" /\ wpc' = "epoch"
          /\ rt # None /\ rt' = [rt EXCEPT !.targets = Task.targets]
          /\ lists' = [superset |-> rt.superset, targets |-> rt.targets]
      BY <1>9 DEF Publish, Pushable, table, device
    <2>2. /\ rt \in RuntimeType /\ Task.targets \in Lists
      BY <1>0, <2>1, TaskTypes DEF TypeOK, MonitorTypes, Serving, Pushing
    <2>3. rt'.targets = Task.targets /\ rt'.obj = rt.obj /\ lists'.targets = rt.targets
      BY <2>1, <2>2, Patched
    <2>4. /\ ~ Ahead /\ Ahead' /\ (PlugDue <=> PlugDue') /\ Task' = Task /\ parked' = None
          /\ Arrived' => Arrived
      BY <1>0, <2>1, <2>3 DEF Ahead, PlugDue, Task, Arrived, Pushing
    <2> QED
      BY <2>1, <2>3, <2>4 DEF Truthful, ListIs
  <1>10. CASE CheckEpoch /\ wpc' = "call"
    <2>1. /\ UNCHANGED <<mon, queue, rt, parked, alive, lists>> /\ wpc = "epoch" /\ wpc' = "call"
      BY <1>10 DEF CheckEpoch, Settling, table, device
    <2>2. Ahead /\ Ahead' /\ (PlugDue <=> PlugDue') /\ Task' = Task
      BY <2>1 DEF Ahead, PlugDue, Task
    <2> QED
      BY <2>1, <2>2 DEF Truthful, ListIs, Arrived
  <1>11. CASE (CheckEpoch /\ wpc' # "call") \/ OSRefuses
    <2>1. /\ UNCHANGED <<mon, queue, parked, alive>> /\ wpc \in {"epoch", "call"}
          /\ Restore /\ wpc' = "settle" /\ outcome' = NotApplied
      BY <1>11 DEF CheckEpoch, OSRefuses, Settling, table, device
    <2>2. ~ Ahead' /\ (PlugDue <=> PlugDue') /\ parked' = None
      BY <1>0, <2>1, Outcomes DEF Ahead, PlugDue, Pushing
    <2>3. Arrived' => Arrived /\ rt'.targets = lists.targets
      <3> SUFFICES ASSUME Arrived' PROVE Arrived /\ rt'.targets = lists.targets
        OBVIOUS
      <3>1. rt # None
        BY <2>1 DEF Restore, Arrived
      <3>2. /\ rt' = [rt EXCEPT !.targets = lists.targets] /\ rt \in RuntimeType
            /\ lists.targets \in Lists
        BY <2>1, <3>1 DEF Restore, Placed, TypeOK, MonitorTypes, WorkerTypes, Serving, PlugLists
      <3>3. rt'.targets = lists.targets /\ rt'.obj = rt.obj
        BY <3>2, Patched
      <3> QED
        BY <2>1, <3>1, <3>3 DEF Arrived
    <2> QED
      BY <2>1, <2>2, <2>3 DEF Truthful, ListIs
  <1>12. CASE OSAccepts
    <2>1. /\ UNCHANGED <<mon, queue, rt, parked, alive>> /\ wpc = "call" /\ wpc' = "settle"
          /\ outcome' = Applied
      BY <1>12 DEF OSAccepts, Settling, table, monitors, device
    <2>2. Ahead /\ Ahead' /\ (PlugDue <=> PlugDue') /\ Task' = Task
      BY <2>1, Outcomes DEF Ahead, PlugDue, Task
    <2> QED
      BY <2>1, <2>2 DEF Truthful, ListIs, Arrived
  <1>13. CASE Settle
    <2>1. /\ UNCHANGED <<rt, parked, alive>> /\ wpc = "settle" /\ wpc' = "idle"
          /\ queue' = Tail(queue)
      BY <1>13 DEF Settle, Done, monitors, device
    <2>2. queue # <<>> /\ Task.op = "update"
      BY <2>1 DEF Serving
    <2> SUFFICES ASSUME mon' # None, ~ PlugDue' PROVE ListIs(mon.targets)'
      BY <2>1, TruthfulIdle
    <2>3. mon # None /\ ~ PlugDue
      BY <1>13, <2>1, <2>2, DueKept DEF Settle
    <2>4. /\ Task.seq > mon.settled /\ mon.pending # None
          /\ Task.seq \in Nat /\ mon.settled \in Nat
      BY <2>2, <2>3, HeadUpdate, TaskTypes DEF TypeOK, TableTypes, SessionType
    <2>5. mon' = Decided \/ mon' = Superseded
      BY <1>13, <2>3, <2>4 DEF Settle
    <2>6. mon'.targets = IF outcome.result = "applied" THEN Task.targets ELSE mon.targets
      BY <1>13, <2>3, <2>4, <2>5, SettledTable DEF Settled
    <2>7. IF Ahead THEN ListIs(Task.targets) ELSE ListIs(mon.targets)
      BY <2>3 DEF Truthful
    <2>8. ListIs(mon'.targets)
      BY <2>1, <2>6, <2>7 DEF Ahead
    <2> QED
      BY <2>1, <2>8 DEF ListIs, Arrived
  <1>14. CASE DuckNothing \/ DuckDevice
    <2>1. /\ UNCHANGED <<mon, rt, parked, alive>> /\ wpc = "idle" /\ wpc' = "idle"
          /\ queue # <<>> /\ Task.op = "duck" /\ queue' = Tail(queue)
      BY <1>14 DEF DuckNothing, DuckDevice, AtHead, Task, Done, table, monitors, device
    <2>2. ~ Ahead /\ (ListIs(mon.targets) => ListIs(mon.targets)')
      BY <2>1 DEF Ahead, ListIs, Arrived
    <2> QED
      BY <1>i, <2>1, <2>2
  <1>15. CASE DuckDepart
    <2>1. /\ UNCHANGED <<mon, queue, rt, parked>> /\ wpc = "idle" /\ wpc' = "park" /\ Arrived
      BY <1>15 DEF DuckDepart, AtHead, table, monitors
    <2>2. ~ Ahead /\ ~ Ahead' /\ (PlugDue <=> PlugDue')
      BY <2>1 DEF Ahead, PlugDue
    <2>3. ListIs(mon.targets) => ListIs(mon.targets)'
      BY <2>1 DEF ListIs
    <2> QED
      BY <2>1, <2>2, <2>3 DEF Truthful
  <1>16. CASE Park
    <2>1. /\ rt' = None /\ wpc = "park" /\ wpc' = "idle" /\ queue' = Tail(queue)
          /\ \/ parked' = None
             \/ rt # None /\ parked' = [superset |-> rt.superset, targets |-> rt.targets]
      BY <1>16 DEF Park, Done
    <2>2. SameTable
      <3>1. UNCHANGED updateSeq /\ (Expire \/ UNCHANGED mon)
        BY <1>16 DEF Park, Forget
      <3>2. CASE UNCHANGED mon
        BY <3>1, <3>2 DEF SameTable
      <3> QED
        BY <3>1, <3>2, ExpireSameTable
    <2>3. queue # <<>> /\ Task.op = "duck" /\ ~ Ahead
      BY <1>0, <2>1 DEF Placed, Ahead
    <2>4. mon' # None => mon # None /\ mon'.targets = mon.targets
      BY <2>2 DEF SameTable
    <2>5. mon' # None /\ ListIs(mon.targets) => ListIs(mon.targets)'
      <3> SUFFICES ASSUME mon' # None, ListIs(mon.targets), parked' # None
                   PROVE  parked'.targets = mon'.targets
        BY <2>1 DEF ListIs, Arrived
      <3>1. rt # None /\ parked'.targets = rt.targets
        BY <2>1
      <3> QED
        BY <2>1, <2>4, <3>1 DEF ListIs
    <2>6. PlugDue => PlugDue'
      BY <2>1, <2>3, DueKept
    <2> QED
      BY <2>1, <2>3, <2>4, <2>5, <2>6 DEF Truthful, Ahead
  <1> QED
    BY <1>1, <1>2, <1>3, <1>4, <1>5, <1>6, <1>7, <1>8, <1>9, <1>10, <1>11, <1>12, <1>13, <1>14,
       <1>15, <1>16 DEF Worker, CreateMonitor, Push

LEMMA TruthfulStep ==
  ASSUME TypeOK, Serving, QueueKnown, Placed, OneDuck, Orderly, Truthful, [Next]_vars
  PROVE  Truthful'
  BY TruthfulElsewhere, TruthfulWorker DEF Next, Elsewhere

(* Nothing outstanding: the update at the head, if any, is not settled yet. *)
LEMMA TruthfulInForce ==
  ASSUME TypeOK, Serving, QueueKnown, Orderly, Truthful
  PROVE  InForceIsTruthful
  <1> SUFFICES ASSUME mon # None, mon.pending = None, ~ PlugDue PROVE ListIs(mon.targets)
    BY DEF InForceIsTruthful, ListIs
  <1>1. ASSUME Ahead PROVE FALSE
    <2>1. queue # <<>> /\ Task.op = "update"
      BY <1>1 DEF Ahead, Serving, Pushing
    <2> QED
      BY <2>1, HeadUpdate
  <1> QED
    BY <1>1 DEF Truthful

-----------------------------------------------------------------------------
(* When no effect or duck-out of one device is still at work when the next  *)
(* comes up, and nothing is outstanding, the list the table has in force is *)
(* the one its monitor publishes, or will come back with from a duck-out:   *)
(* settle_modes records what push_targets did and nothing else, through     *)
(* failed and superseded updates, sessions created again under the same id, *)
(* duck-outs and final exits.                                               *)
THEOREM ListsAreTrue == ASSUME LateEffects = FALSE PROVE Spec => []InForceIsTruthful
  <1> DEFINE Inv == /\ TypeOK /\ Serving /\ PushMarked /\ QueueKnown
                    /\ RefusalKnown /\ NotCarriedOver
                    /\ Placed /\ OneDuck /\ Orderly /\ Truthful
  <1>1. Init => Inv
    BY TypingInit, MarkedInit, KnownInit, RefusalInit, PlacedInit, OneDuckInit, OrderlyInit,
       TruthfulInit
  <1>2. Inv /\ [Next]_vars => Inv'
    <2> SUFFICES ASSUME Inv, [Next]_vars PROVE Inv'
      OBVIOUS
    <2>1. TypeOK' /\ Serving'
      BY TypingStep
    <2>2. PushMarked' /\ QueueKnown'
      BY MarkedStep, KnownStep
    <2>3. RefusalKnown' /\ NotCarriedOver'
      BY RefusalStep
    <2>4. Placed'
      BY PlacedStep
    <2>5. OneDuck'
      BY OneDuckStep
    <2>6. Orderly'
      BY OrderlyStep
    <2>7. Truthful'
      BY TruthfulStep
    <2> QED
      BY <2>1, <2>2, <2>3, <2>4, <2>5, <2>6, <2>7
  <1>3. Inv => InForceIsTruthful
    BY TruthfulInForce
  <1> QED
    BY <1>1, <1>2, <1>3, PTL DEF Spec

-----------------------------------------------------------------------------
(* What is displaced, and what is pending                                   *)

(* A plug or a replug finds no monitor that has arrived.                    *)
ReplugsAlone == wpc = "create" /\ Task.op = "replug" => rt = None

LEMMA AloneStep ==
  ASSUME TypeOK, Serving, Placed, ReplugsAlone, [Next]_vars
  PROVE  ReplugsAlone'
  <1> SUFFICES ASSUME wpc' = "create", Task'.op = "replug" PROVE rt' = None
    BY DEF ReplugsAlone
  <1>1. CASE Elsewhere
    <2>1. Apart
      BY <1>1, ElsewhereApart
    <2> QED
      BY <2>1 DEF Apart, ReplugsAlone
  <1>2. CASE StartPlug
    <2>1. Task.op = "plug" /\ queue' = queue
      BY <1>2 DEF StartPlug, AtHead, Task, Done
    <2> QED
      BY <2>1 DEF Task
  <1>3. CASE StartReplug
    BY <1>3 DEF StartReplug, Done, Placed
  <1>4. CASE Worker /\ ~ StartPlug /\ ~ StartReplug
    BY <1>4 DEF Worker, CreateMonitor, Push, CreateFails, Arrive, ArrivalFails, StartUnplug,
                Depart, StartPush, ReadAdapter, Refuse, Publish, CheckEpoch, OSAccepts,
                OSRefuses, Settle, Settling, DuckNothing, DuckDevice, DuckDepart, Park, Done
  <1> QED
    BY <1>1, <1>2, <1>3, <1>4 DEF Next, Elsewhere

LEMMA DisplacedStep ==
  ASSUME TypeOK, Serving, Placed, ReplugsAlone, Orderly, [Next]_vars
  PROVE  rt # None /\ rt' # None /\ rt'.obj # rt.obj => rt.obj \notin alive
  <1> SUFFICES ASSUME rt # None, rt' # None, rt'.obj # rt.obj PROVE rt.obj \notin alive
    OBVIOUS
  <1>1. CASE Elsewhere
    BY <1>1, ElsewhereApart DEF Apart
  <1>2. ASSUME NEW o \in Objects, Arrive(o) PROVE rt.obj \notin alive
    <2>1. wpc = "create" /\ queue # <<>> /\ Task.op = "plug"
      BY <1>2 DEF Arrive, Serving, Placed, ReplugsAlone
    <2> QED
      BY <2>1, PlugFindsNothing DEF Bound, Arrived
  <1>3. CASE Publish \/ CheckEpoch \/ OSRefuses
    BY <1>3, SameObject
  <1>4. CASE \/ StartPlug \/ StartReplug \/ CreateFails \/ (\E o \in Objects : ArrivalFails(o))
             \/ StartUnplug \/ Depart \/ StartPush \/ ReadAdapter \/ Refuse \/ OSAccepts
             \/ Settle \/ DuckNothing \/ DuckDevice \/ DuckDepart \/ Park
    BY <1>4 DEF StartPlug, StartReplug, CreateFails, ArrivalFails, StartUnplug, Depart,
                StartPush, ReadAdapter, Refuse, OSAccepts, Settle, DuckNothing, DuckDevice,
                DuckDepart, Park, monitors
  <1> QED
    BY <1>1, <1>2, <1>3, <1>4 DEF Next, Worker, CreateMonitor, Push, Elsewhere

(* The update that is pending is in the queue, or at work at its head.      *)
PendingIsQueued ==
  mon # None /\ mon.pending # None =>
    \E i \in DOMAIN queue : queue[i].op = "update" /\ queue[i].seq = mon.pending.seq
Numbered ==
  /\ Increasing(queue)
  /\ mon # None => mon.settled <= updateSeq
  /\ mon # None /\ mon.pending # None => mon.pending.seq > mon.settled

LEMMA QueuedKept ==
  ASSUME TypeOK, Numbered, PendingIsQueued, SameTable,
         \/ queue' = queue
         \/ \E e \in EffectType : queue' = Append(queue, e) /\ e.op # "update"
         \/ queue # <<>> /\ queue' = Tail(queue) /\ Task.op # "update"
  PROVE  Numbered' /\ PendingIsQueued'
  <1>1. queue \in Seq(EffectType)
    BY DEF TypeOK, QueueTypes
  <1>2. PICK r : r = queue'
    OBVIOUS
  <1>3. /\ Increasing(r)
        /\ \A i \in DOMAIN queue : queue[i].op = "update" => \E j \in DOMAIN r : r[j] = queue[i]
    <2>1. CASE r = queue
      BY <2>1 DEF Numbered
    <2>2. ASSUME NEW e \in EffectType, r = Append(queue, e), e.op # "update"
          PROVE  /\ Increasing(r)
                 /\ \A i \in DOMAIN queue : \E j \in DOMAIN r : r[j] = queue[i]
      <3>a. r = Append(queue, e)
        BY <2>2
      <3>1. PICK n \in Nat :
              /\ DOMAIN queue = 1 .. n /\ DOMAIN r = 1 .. n + 1
              /\ r[n + 1] = e /\ \A i \in 1 .. n : r[i] = queue[i]
        BY <1>1, <3>a, Pushed
      <3>2. /\ \A i \in DOMAIN r : i = n + 1 \/ (i \in DOMAIN queue /\ r[i] = queue[i])
            /\ \A i \in DOMAIN queue : i \in DOMAIN r /\ r[i] = queue[i]
        BY <3>1
      <3> QED
        BY <2>2, <3>1, <3>2 DEF Numbered, Increasing
    <2>3. ASSUME queue # <<>>, r = Tail(queue), Task.op # "update"
          PROVE  /\ Increasing(r)
                 /\ \A i \in DOMAIN queue :
                      queue[i].op = "update" => \E j \in DOMAIN r : r[j] = queue[i]
      <3>1. PICK n \in Nat :
              /\ DOMAIN queue = 1 .. n + 1 /\ DOMAIN r = 1 .. n
              /\ queue[1] = Head(queue) /\ \A i \in 1 .. n : r[i] = queue[i + 1]
        BY <1>1, <2>3, Popped
      <3>2. ASSUME NEW i \in DOMAIN queue, queue[i].op = "update"
            PROVE  \E j \in DOMAIN r : r[j] = queue[i]
        <4>1. i # 1
          BY <2>3, <3>1, <3>2 DEF Task
        <4>2. i - 1 \in 1 .. n /\ i - 1 + 1 = i
          BY <3>1, <4>1
        <4> QED
          BY <3>1, <4>2
      <3>3. Increasing(r)
        <4>1. Increasing(queue) => Increasing(r)
          BY <1>1, <2>3, HeadDone
        <4> QED
          BY <4>1 DEF Numbered
      <3> QED
        BY <3>2, <3>3
    <2> QED
      BY <1>2, <2>1, <2>2, <2>3
  <1>4. Numbered'
    BY <1>2, <1>3 DEF Numbered, SameTable
  <1>5. PendingIsQueued'
    <2> SUFFICES ASSUME mon' # None, mon'.pending # None
                 PROVE  \E i \in DOMAIN r : r[i].op = "update" /\ r[i].seq = mon'.pending.seq
      BY <1>2 DEF PendingIsQueued
    <2>1. mon # None /\ mon.pending # None /\ mon'.pending = mon.pending
      BY DEF SameTable
    <2>2. PICK i \in DOMAIN queue : queue[i].op = "update" /\ queue[i].seq = mon.pending.seq
      BY <2>1 DEF PendingIsQueued
    <2> QED
      BY <1>3, <2>1, <2>2
  <1> QED
    BY <1>4, <1>5

LEMMA QueuedWorker ==
  ASSUME TypeOK, Serving, Placed, Numbered, PendingIsQueued, Worker, ~ Settle
  PROVE  Numbered' /\ PendingIsQueued'
  <1>1. CASE CreateMonitor
    <2>1. wpc = "create" /\ queue' = Tail(queue)
      BY <1>1 DEF CreateMonitor, CreateFails, Arrive, ArrivalFails, Done
    <2>2. queue # <<>> /\ Task.op # "update"
      BY <2>1 DEF Serving, Placed
    <2>3. UNCHANGED updateSeq /\ (Expire \/ UNCHANGED mon)
      BY <1>1 DEF CreateMonitor, CreateFails, Arrive, ArrivalFails, Forget, table
    <2>4. UNCHANGED mon => SameTable
      BY <2>3 DEF SameTable
    <2> QED
      BY <2>1, <2>2, <2>3, <2>4, ExpireSameTable, QueuedKept
  <1>2. CASE StartPlug \/ StartReplug \/ StartUnplug \/ DuckNothing \/ DuckDevice \/ DuckDepart
    <2>1. queue # <<>> /\ Task.op # "update" /\ (queue' = queue \/ queue' = Tail(queue))
      BY <1>2 DEF StartPlug, StartReplug, StartUnplug, DuckNothing, DuckDevice, DuckDepart,
                  AtHead, Task, Done
    <2>2. UNCHANGED updateSeq /\ (Expire \/ UNCHANGED mon)
      BY <1>2 DEF StartPlug, StartReplug, StartUnplug, DuckNothing, DuckDevice, DuckDepart,
                  Forget, table
    <2>3. UNCHANGED mon => SameTable
      BY <2>2 DEF SameTable
    <2> QED
      BY <2>1, <2>2, <2>3, ExpireSameTable, QueuedKept
  <1>3. CASE Depart \/ Park
    <2>1. wpc \in {"depart", "park"} /\ queue' = Tail(queue)
      BY <1>3 DEF Depart, Park, Done
    <2>2. queue # <<>> /\ Task.op # "update"
      BY <2>1 DEF Serving, Placed
    <2>3. UNCHANGED updateSeq /\ (Expire \/ UNCHANGED mon)
      BY <1>3 DEF Depart, Park, Forget, table
    <2>4. UNCHANGED mon => SameTable
      BY <2>3 DEF SameTable
    <2> QED
      BY <2>1, <2>2, <2>3, <2>4, ExpireSameTable, QueuedKept
  <1>4. CASE StartPush \/ ReadAdapter \/ Refuse \/ Publish \/ CheckEpoch \/ OSAccepts \/ OSRefuses
    <2>1. SameTable /\ queue' = queue
      BY <1>4 DEF StartPush, ReadAdapter, Refuse, Publish, CheckEpoch, OSAccepts, OSRefuses,
                  table, SameTable
    <2> QED
      BY <2>1, QueuedKept
  <1> QED
    BY <1>1, <1>2, <1>3, <1>4 DEF Worker, Push

(* Settling the head: of the later updates the pending one is one, if it is *)
(* not the head itself.                                                     *)
LEMMA QueuedSettle ==
  ASSUME TypeOK, Serving, QueueKnown, Numbered, PendingIsQueued, Settle
  PROVE  Numbered' /\ PendingIsQueued'
  <1>0. /\ queue # <<>> /\ Task.op = "update" /\ queue' = Tail(queue) /\ UNCHANGED updateSeq
    BY DEF Serving, Settle, Done
  <1>1. /\ queue \in Seq(EffectType) /\ Task.seq \in Nat
        /\ mon # None => mon.settled \in Nat /\ mon \in SessionType
    BY <1>0, TaskTypes DEF TypeOK, TableTypes, SessionType
  <1>2. PICK r : r = queue'
    OBVIOUS
  <1>a. r = Tail(queue)
    BY <1>0, <1>2
  <1>3. PICK n \in Nat :
          /\ DOMAIN queue = 1 .. n + 1 /\ DOMAIN r = 1 .. n
          /\ queue[1] = Head(queue) /\ \A i \in 1 .. n : r[i] = queue[i + 1]
    BY <1>0, <1>1, <1>a, Popped
  <1>4. Increasing(r)
    <2>1. Increasing(queue) => Increasing(r)
      BY <1>0, <1>1, <1>a, HeadDone
    <2> QED
      BY <2>1 DEF Numbered
  <1>5. queue[1] = Task /\ 1 \in DOMAIN queue
    BY <1>3 DEF Task
  <1>6. Task.seq <= updateSeq
    BY <1>0, <1>5 DEF QueueKnown, Known
  (* Where the update that stays pending is                                 *)
  <1>7. ASSUME mon # None, mon.pending # None, mon.pending.seq # Task.seq
        PROVE  /\ \E i \in DOMAIN r : r[i].op = "update" /\ r[i].seq = mon.pending.seq
               /\ mon.pending.seq > Task.seq
    <2>1. PICK i \in DOMAIN queue : queue[i].op = "update" /\ queue[i].seq = mon.pending.seq
      BY <1>7 DEF PendingIsQueued
    <2>2. i # 1
      BY <1>5, <1>7, <2>1
    <2>3. i - 1 \in 1 .. n /\ i - 1 + 1 = i /\ 1 < i
      BY <1>3, <2>2
    <2>4. queue[1].seq < queue[i].seq
      BY <1>0, <1>5, <2>1, <2>3 DEF Numbered, Increasing
    <2>5. queue[i].seq \in Nat
      <3>1. queue[i] \in EffectType
        BY <1>1
      <3> QED
        BY <2>1, <3>1 DEF EffectType
    <2>6. mon.pending.seq > Task.seq
      BY <1>1, <1>5, <2>1, <2>4, <2>5
    <2> QED
      BY <1>3, <2>1, <2>3, <2>6
  <1>8. CASE mon' = mon
    <2>1. ASSUME mon # None, mon.pending # None PROVE mon.pending.seq # Task.seq
      <3>1. mon.pending.seq > mon.settled
        BY <2>1 DEF Numbered
      <3>2. ASSUME mon.pending.seq = Task.seq PROVE FALSE
        <4>1. ~ (Task.seq <= mon.settled)
          BY <1>1, <2>1, <3>1, <3>2
        <4>2. mon' = Decided
          BY <2>1, <3>2, <4>1 DEF Settle
        <4>3. Decided.pending = None
          BY <2>1, SettledTable DEF Settled
        <4> QED
          BY <1>8, <2>1, <4>2, <4>3
      <3> QED
        BY <3>2
    <2>2. Numbered'
      BY <1>0, <1>2, <1>4, <1>8 DEF Numbered
    <2>3. PendingIsQueued'
      BY <1>2, <1>7, <1>8, <2>1 DEF PendingIsQueued
    <2> QED
      BY <2>2, <2>3
  <1>9. CASE mon' # mon
    <2>1. mon # None
      BY <1>9 DEF Settle
    <2>2. \/ mon' = Decided /\ mon.pending # None
          \/ mon' = Superseded /\ (mon.pending = None \/ mon.pending.seq # Task.seq)
      BY <1>9, <2>1 DEF Settle
    <2>3. /\ mon'.settled = Task.seq
          /\ \/ mon'.pending = None
             \/ mon'.pending = mon.pending /\ mon.pending.seq # Task.seq
      BY <2>1, <2>2, SettledTable DEF Settled
    <2>4. Numbered'
      BY <1>0, <1>2, <1>4, <1>6, <1>7, <2>1, <2>3 DEF Numbered
    <2>5. PendingIsQueued'
      BY <1>2, <1>7, <2>1, <2>3 DEF PendingIsQueued
    <2> QED
      BY <2>4, <2>5
  <1> QED
    BY <1>8, <1>9

LEMMA QueuedElsewhere ==
  ASSUME TypeOK, QueueKnown, Numbered, PendingIsQueued, Elsewhere
  PROVE  Numbered' /\ PendingIsQueued'
  <1>0. queue \in Seq(EffectType) /\ updateSeq \in Nat /\ epoch \in Nat
    BY DEF TypeOK, QueueTypes, TableTypes, DeviceTypes
  (* An effect is added; the numbers in the queue are those there were.     *)
  <1>a. ASSUME NEW e \in EffectType, queue' = Append(queue, e),
               e.op = "update" => e.seq = updateSeq + 1
        PROVE  /\ Increasing(queue)'
               /\ e.op = "update" =>
                    \E i \in DOMAIN queue' : queue'[i].op = "update" /\ queue'[i].seq = e.seq
    <2>1. PICK r : r = queue'
      OBVIOUS
    <2>2. r = Append(queue, e)
      BY <1>a, <2>1
    <2>3. PICK n \in Nat :
            /\ DOMAIN queue = 1 .. n /\ DOMAIN r = 1 .. n + 1
            /\ r[n + 1] = e /\ \A i \in 1 .. n : r[i] = queue[i]
      BY <1>0, <2>2, Pushed
    <2>4. \A i \in DOMAIN queue :
            queue[i].op = "update" => queue[i].seq \in Nat /\ queue[i].seq <= updateSeq
      <3> SUFFICES ASSUME NEW i \in DOMAIN queue, queue[i].op = "update"
                   PROVE  queue[i].seq \in Nat /\ queue[i].seq <= updateSeq
        OBVIOUS
      <3>1. queue[i] \in EffectType /\ Known(queue[i])
        BY <1>0 DEF QueueKnown
      <3> QED
        BY <3>1 DEF Known, EffectType
    <2>5. Increasing(r)
      <3> SUFFICES ASSUME NEW i \in DOMAIN r, NEW j \in DOMAIN r, i < j,
                          r[i].op = "update", r[j].op = "update"
                   PROVE  r[i].seq < r[j].seq
        BY DEF Increasing
      <3>1. i \in DOMAIN queue /\ r[i] = queue[i] /\ (j \in DOMAIN queue \/ j = n + 1)
        BY <2>3
      <3>2. CASE j \in DOMAIN queue
        BY <2>3, <3>1, <3>2 DEF Numbered, Increasing
      <3>3. CASE j = n + 1
        <4>1. queue[i].seq \in Nat /\ queue[i].seq <= updateSeq
          BY <2>4, <3>1
        <4>2. r[j].seq = updateSeq + 1
          BY <1>a, <2>3, <3>3
        <4> QED
          BY <1>0, <3>1, <4>1, <4>2
      <3> QED
        BY <3>1, <3>2, <3>3
    <2>6. n + 1 \in DOMAIN r /\ r[n + 1] = e
      BY <2>3
    <2> QED
      BY <2>1, <2>5, <2>6
  <1>1. ASSUME NEW l \in Supersets, HostCreate(l) PROVE Numbered' /\ PendingIsQueued'
    <2>1. PICK e \in EffectType : queue' = Append(queue, e) /\ e.op = "plug"
      BY <1>1, SupersetsAssumption, NewEffects DEF HostCreate
    <2>2. mon'.pending = None /\ mon'.settled = updateSeq /\ updateSeq' = updateSeq
      BY <1>1 DEF HostCreate, Created
    <2>3. Increasing(queue)'
      BY <1>a, <2>1
    <2> QED
      BY <1>0, <2>2, <2>3 DEF Numbered, PendingIsQueued
  <1>2. CASE HostDestroy
    <2>1. PICK e \in EffectType : queue' = Append(queue, e) /\ e.op = "unplug"
      BY <1>2, NewEffects DEF HostDestroy
    <2>2. Increasing(queue)' /\ mon' = None
      BY <1>2, <1>a, <2>1 DEF HostDestroy
    <2> QED
      BY <2>2 DEF Numbered, PendingIsQueued
  <1>3. ASSUME NEW l \in Lists, HostUpdate(l) PROVE Numbered' /\ PendingIsQueued'
    <2> DEFINE targets == Select(mon.superset, l)
    <2>1. mon \in SessionType /\ mon # None
      BY <1>3 DEF HostUpdate, TypeOK, TableTypes
    <2>2. CASE Answered(targets)
      <3>1. mon' = [mon EXCEPT !.blocked = Remembered] /\ UNCHANGED <<queue, updateSeq>>
        BY <1>3, <2>2 DEF HostUpdate
      <3>2. mon'.pending = mon.pending /\ mon'.settled = mon.settled
        BY <2>1, <3>1 DEF SessionType
      <3>3. Numbered'
        BY <2>1, <3>1, <3>2 DEF Numbered
      <3>4. PendingIsQueued'
        BY <2>1, <3>1, <3>2 DEF PendingIsQueued
      <3> QED
        BY <3>3, <3>4
    <2>3. CASE ~ Answered(targets)
      <3> DEFINE m == updateSeq + 1
                 p == [seq |-> m, targets |-> targets]
      <3>1. /\ queue' = Append(queue, Update(m, targets)) /\ targets \in Lists
            /\ mon' = [mon EXCEPT !.blocked = None, !.pending = p]
            /\ updateSeq' = m
        BY <1>3, <2>3 DEF HostUpdate, Answered
      <3> HIDE DEF targets
      <3>2. m \in Nat /\ m > updateSeq /\ p.seq = m
        BY <1>0
      <3> HIDE DEF p
      <3>3. mon'.pending = p /\ mon'.settled = mon.settled /\ mon.settled \in Nat
        BY <2>1, <3>1 DEF SessionType
      <3>4. PICK e \in EffectType : queue' = Append(queue, e) /\ e.op = "update" /\ e.seq = m
        BY <3>1, <3>2, NewEffects
      <3>5. /\ Increasing(queue)'
            /\ \E i \in DOMAIN queue' : queue'[i].op = "update" /\ queue'[i].seq = m
        BY <1>a, <3>4
      <3> HIDE DEF m
      <3>6. mon.settled <= updateSeq
        BY <2>1 DEF Numbered
      <3>7. m > mon.settled /\ mon.settled <= m
        BY <1>0, <3>2, <3>3, <3>6
      <3>8. Numbered'
        BY <3>1, <3>2, <3>3, <3>5, <3>7 DEF Numbered
      <3>9. PendingIsQueued'
        BY <3>2, <3>3, <3>5 DEF PendingIsQueued
      <3> QED
        BY <3>8, <3>9
    <2> QED
      BY <2>2, <2>3
  <1>4. CASE ArmDuck \/ PollerReplugs
    <2>1. PICK e \in EffectType : queue' = Append(queue, e) /\ e.op # "update"
      BY <1>0, <1>4, NewEffects DEF ArmDuck, PollerReplugs
    <2>2. SameTable
      BY <1>4 DEF ArmDuck, PollerReplugs, table, SameTable
    <2> QED
      BY <2>1, <2>2, QueuedKept
  <1>5. CASE \/ PollerEnds \/ ClearAdapter \/ DrainPushes \/ DrainTimesOut \/ DrainMonitors
             \/ DrainParked \/ DestroyAdapter \/ BringUp \/ UNCHANGED vars
    <2>1. SameTable /\ queue' = queue
      BY <1>5 DEF PollerEnds, ClearAdapter, DrainPushes, DrainTimesOut, DrainMonitors,
                  DrainParked, DestroyAdapter, BringUp, vars, table, worker, SameTable
    <2> QED
      BY <2>1, QueuedKept
  <1>6. CASE ForgetAll \/ \E m \in Modes \cup {None} : Commit(m)
    <2>1. SameTable /\ queue' = queue
      BY <1>6, ExpireSameTable DEF ForgetAll, Commit
    <2> QED
      BY <2>1, QueuedKept
  <1>7. CASE TeardownReset
    BY <1>7 DEF TeardownReset, worker, Numbered, PendingIsQueued
  <1> QED
    BY <1>1, <1>2, <1>3, <1>4, <1>5, <1>6, <1>7 DEF Elsewhere, Host, Exit

LEMMA QueuedStep ==
  ASSUME TypeOK, Serving, Placed, QueueKnown, Numbered, PendingIsQueued, [Next]_vars
  PROVE  Numbered' /\ PendingIsQueued'
  BY QueuedElsewhere, QueuedWorker, QueuedSettle DEF Next, Elsewhere

LEMMA QueuedInit == Init => Numbered /\ PendingIsQueued
  BY EmptySeq DEF Init, Numbered, PendingIsQueued, Increasing

(* An update the host was told is pending has its effect in the queue, so   *)
(* the reply ends once the worker has come that far: no restart of a        *)
(* session, duck-out, final exit or late effect takes the effect away and   *)
(* leaves the pending update (core/session.rs, update_modes, settle_modes,  *)
(* teardown_reset), given that a handler queues what it has decided.  That  *)
(* the worker does come that far is EveryUpdateSettles.                     *)
THEOREM PendingHasEffect == Spec => []PendingIsQueued
  <1> DEFINE Inv == /\ TypeOK /\ Serving /\ QueueKnown /\ Placed
                    /\ Numbered /\ PendingIsQueued
  <1>1. Init => Inv
    BY TypingInit, KnownInit, PlacedInit, QueuedInit
  <1>2. Inv /\ [Next]_vars => Inv'
    <2> SUFFICES ASSUME Inv, [Next]_vars PROVE Inv'
      OBVIOUS
    <2>1. TypeOK' /\ Serving'
      BY TypingStep
    <2>2. QueueKnown'
      BY KnownStep
    <2>3. Placed'
      BY PlacedStep
    <2>4. Numbered' /\ PendingIsQueued'
      BY QueuedStep
    <2> QED
      BY <2>1, <2>2, <2>3, <2>4
  <1>3. Inv => PendingIsQueued
    OBVIOUS
  <1> QED
    BY <1>1, <1>2, <1>3, PTL DEF Spec

(* plug (shell/monitors.rs) displaces no monitor the OS still has, when no  *)
(* effect of one device is carried out on the next: what its comment says   *)
(* of the entry it finds.  Late effects refute it.                          *)
THEOREM DisplacedAreDead == ASSUME LateEffects = FALSE PROVE Spec => DisplacedIsDead
  <1> DEFINE Inv == /\ TypeOK /\ Serving /\ PushMarked /\ QueueKnown
                    /\ RefusalKnown /\ NotCarriedOver
                    /\ Placed /\ OneDuck /\ Orderly /\ ReplugsAlone
  <1>1. Init => Inv
    <2>1. Init => ReplugsAlone
      BY DEF Init, ReplugsAlone
    <2> QED
      BY <2>1, TypingInit, MarkedInit, KnownInit, RefusalInit, PlacedInit, OneDuckInit,
         OrderlyInit
  <1>2. Inv /\ [Next]_vars => Inv'
    <2> SUFFICES ASSUME Inv, [Next]_vars PROVE Inv'
      OBVIOUS
    <2>1. TypeOK' /\ Serving'
      BY TypingStep
    <2>2. PushMarked' /\ QueueKnown'
      BY MarkedStep, KnownStep
    <2>3. RefusalKnown' /\ NotCarriedOver'
      BY RefusalStep
    <2>4. Placed' /\ OneDuck'
      BY PlacedStep, OneDuckStep
    <2>5. Orderly'
      BY OrderlyStep
    <2>6. ReplugsAlone'
      BY AloneStep
    <2> QED
      BY <2>1, <2>2, <2>3, <2>4, <2>5, <2>6
  <1>3. Inv /\ [Next]_vars =>
          [rt # None /\ rt' # None /\ rt'.obj # rt.obj => rt.obj \notin alive]_vars
    BY DisplacedStep
  <1> QED
    BY <1>1, <1>2, <1>3, PTL DEF Spec, DisplacedIsDead
=============================================================================
