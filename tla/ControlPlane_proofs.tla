------------------------- MODULE ControlPlane_proofs -------------------------
(* Theorems about ControlPlane, for every set of sessions and identities and
   every number of connectors and pool members.  Those about identities hold
   whether or not handlers overlap or adapters are lost; a theorem that needs
   more assumes it. *)
EXTENDS ControlPlane, FiniteSetTheorems, SequenceTheorems, TLAPS

(***************************************************************************)
(* The invariant.  Connectors survive a restart only because no blob on its *)
(* way to the registry names a connector or an identity twice, so the      *)
(* types of the effects are narrowed to such blobs.                        *)
(***************************************************************************)
Distinct(entries) ==
  \A r, q \in entries : r.connector = q.connector \/ r.display = q.display => r = q

KeptBlobs == {b \in Blobs : Distinct(b.reserved)}
KeptEffects == PlugEffects \cup UnplugEffects \cup [kind : {"persist"}, blob : KeptBlobs]
Tasks == KeptEffects \cup ReadyTasks

(* Each live monitor has the reservation of its identity, and identities are
   not shared, so that releasing one takes nothing from another. *)
Reserved ==
  /\ Distinct(reserved)
  /\ \A m \in monitors :
       \E r \in reserved : r.display = m.display /\ r.connector = m.connector
  /\ \A m, n \in monitors : m.display = n.display => m = n

TableInv ==
  /\ monitors \subseteq Monitors /\ reserved \subseteq Reservations
  /\ nextAge \in Nat
  /\ Reserved

GrowthInv ==
  /\ growth \subseteq [by : Callers \cup {"worker"}, desired : Pools, next : Nat,
                       created : Nat, effects : Seq(KeptEffects)]
  /\ pool \in Pools /\ asked \subseteq Pools /\ adapters \in BOOLEAN

(* The worker leaves the task it is in at the head of the queue. *)
WorkerInv ==
  /\ held \in [Callers -> Seq(KeptEffects)]
  /\ queue \in Seq(Tasks)
  /\ wpc \in {"idle", "plug", "startup", "publish"}
  /\ made \in Nat /\ bringUp \in Seq(KeptEffects)
  /\ wpc = "plug" => AtHead("plug")
  /\ wpc \in {"startup", "publish"} => AtHead("ready")
  /\ \A g \in growth : g.by = "worker" => wpc = "startup"

ShellInv ==
  /\ adapter \in BOOLEAN /\ epoch \in Nat /\ device \in BOOLEAN /\ mark \in Nat
  /\ pnp \in {"absent", "starting", "up", "cleared", "drained"}
  /\ plugged \subseteq [session : Sessions, connector : Connectors, epoch : Nat]
  /\ disk \in KeptBlobs /\ unplugged \subseteq Sessions

IInv == TableInv /\ GrowthInv /\ WorkerInv /\ ShellInv

-----------------------------------------------------------------------------
(* Sequences of effects *)

LEMMA KeptAreEffects == Seq(KeptEffects) \subseteq Seq(Effects)
  <1>1. KeptEffects \subseteq Effects
    BY DEF KeptEffects, KeptBlobs, Effects, PersistEffects
  <1> QED
    BY <1>1, SeqMonotonic

LEMMA TasksAreEffects == Seq(Tasks) \subseteq Seq(Effects \cup ReadyTasks)
  <1>1. Tasks \subseteq Effects \cup ReadyTasks
    BY DEF Tasks, KeptEffects, KeptBlobs, Effects, PersistEffects
  <1> QED
    BY <1>1, SeqMonotonic

LEMMA EffectsAreTasks == Seq(KeptEffects) \subseteq Seq(Tasks)
  BY SeqMonotonic DEF Tasks

(* Queueing leaves what is at the head where it is. *)
LEMMA AppendedHead ==
  ASSUME NEW q \in Seq(Tasks), NEW s \in Seq(Tasks), q # << >>
  PROVE  q \o s \in Seq(Tasks) /\ q \o s # << >> /\ Head(q \o s) = Head(q)
  <1>1. Len(q) \in Nat \ {0} /\ Len(s) \in Nat
    BY EmptySeq, LenProperties
  <1>2. q \o s \in Seq(Tasks) /\ Len(q \o s) = Len(q) + Len(s) /\ (q \o s)[1] = q[1]
    BY <1>1, ConcatProperties
  <1>3. q \o s # << >>
    BY <1>1, <1>2, EmptySeq
  <1> QED
    BY <1>2, <1>3

LEMMA NoPoolIsPool == NoPool \in Pools
  BY LimitsAssumption DEF NoPool, Pools

LEMMA SnapshotKept ==
  ASSUME NEW res, res \subseteq Reservations, Distinct(res), NEW p \in Pools
  PROVE  Snapshot(res, p) \in KeptBlobs
  <1> DEFINE entries == {[display |-> r.display, connector |-> r.connector] : r \in res}
             kept == IF p.count > 0 THEN p ELSE NoPool
  <1>1. entries \subseteq [display : Ids, connector : Connectors]
    BY DEF Reservations
  <1>2. kept \in Pools
    BY NoPoolIsPool
  <1>3. Distinct(entries)
    BY DEF Distinct, Reservations
  <1>4. Snapshot(res, p) = [reserved |-> entries, pool |-> kept]
    BY DEF Snapshot
  <1> HIDE DEF entries, kept
  <1> QED
    BY <1>1, <1>2, <1>3, <1>4 DEF KeptBlobs, Blobs

-----------------------------------------------------------------------------
(* The connector table *)

LEMMA IdsBounded == Ids \subseteq 0 .. 400
  <1> USE DEF PermanentBase, EphemeralBase
  <1>1. PoolIndices \subseteq 0 .. 48
    BY LimitsAssumption DEF PoolIndices
  <1>2. PoolSessions \subseteq 150 .. 198 /\ PermanentIds \subseteq 100 .. 148
    BY <1>1 DEF PoolSessions, PermanentIds, PoolSession, PermanentId
  <1>3. Sessions \subseteq 1 .. 198
    BY <1>2, IdsAssumption DEF Sessions
  <1>4. \A s \in Sessions : EphemeralId(s) \in 201 .. 398
    BY <1>3 DEF EphemeralId
  <1>5. Displays \subseteq 1 .. 99
    BY IdsAssumption
  <1> SUFFICES ASSUME NEW d \in Ids PROVE d \in 0 .. 400
    OBVIOUS
  <1>6. CASE d \in Displays
    BY <1>5, <1>6
  <1>7. CASE d \in PermanentIds
    BY <1>2, <1>7
  <1>8. CASE \E s \in Sessions : d = EphemeralId(s)
    BY <1>4, <1>8
  <1> QED
    BY <1>6, <1>7, <1>8 DEF Ids


LEMMA IdsFinite == IsFiniteSet(Ids)
  <1>1. \A d \in Ids : d \in Nat /\ d <= 400
    BY IdsBounded
  <1>2. Ids \in SUBSET Nat /\ \E n \in Nat : \A d \in Ids : d <= n
    BY <1>1
  <1>3. PICK n \in Nat : \A d \in Ids : d <= n
    BY <1>2
  <1> QED
    BY <1>2, <1>3, FS_BoundedSetOfNaturals

LEMMA CreateKeeps ==
  ASSUME TableInv, NEW s \in Sessions, NEW d \in Ids, NEW leased \in BOOLEAN,
         NEW c \in Connectors, CanCreate(s, d), Create(s, d, leased, c)
  PROVE  TableInv'
  <1> DEFINE new == [session |-> s, display |-> d, ephemeral |-> d >= EphemeralBase,
                     connector |-> c, leased |-> leased, stale |-> FALSE]
  <1> USE DEF TableInv, Reserved, Create, Acquire, Entry
  <1>1. monitors' = monitors \cup {new} /\ new \in Monitors
    <2>1. (d >= EphemeralBase) \in BOOLEAN
      <3>1. d \in Int
        BY IdsBounded
      <3> QED
        BY <3>1 DEF EphemeralBase
    <2> QED
      BY <2>1 DEF Monitors
  <1>2. Entry(d, c) \in Reservations /\ nextAge' \in Nat
    BY DEF Reservations
  <1>3. reserved' \subseteq Reservations
    BY <1>2
  <1>4. \A m \in monitors : m.display # d
    BY DEF CanCreate
  <1>5. Entry(d, c) \in reserved'
    OBVIOUS
  <1>6. \A m, n \in monitors' : m.display = n.display => m = n
    <2>1. new.display = d
      OBVIOUS
    <2> HIDE DEF new
    <2> QED
      BY <1>1, <1>4, <2>1
  <1> HIDE DEF Entry
  <1>7. /\ Distinct(reserved')
        /\ \A m \in monitors :
             \E r \in reserved' : r.display = m.display /\ r.connector = m.connector
    <2>e. Entry(d, c).display = d /\ Entry(d, c).connector = c
      BY DEF Entry
    <2>1. CASE \E r \in reserved :
                 /\ r.display = d /\ c = r.connector
                 /\ reserved' = (reserved \ {r}) \cup {Entry(d, c)}
      BY <2>1, <2>e, <1>4 DEF Distinct
    <2>2. CASE /\ \A r \in reserved : r.display # d
               /\ IsLowest(c, Free)
               /\ reserved' = reserved \cup {Entry(d, c)}
      <3>1. \A r \in reserved : r.connector # c
        BY <2>2 DEF IsLowest, Free
      <3> QED
        BY <2>2, <2>e, <3>1 DEF Distinct
    <2>3. CASE /\ \A r \in reserved : r.display # d
               /\ \E v \in Evictable :
                    /\ c = v.connector
                    /\ reserved' = (reserved \ {v}) \cup {Entry(d, c)}
      BY <2>3, <2>e DEF Distinct, Evictable
    <2> QED
      BY <2>1, <2>2, <2>3
  <1>8. \E r \in reserved' : r.display = new.display /\ r.connector = new.connector
    BY <1>5 DEF Entry
  <1> QED
    BY <1>1, <1>2, <1>3, <1>6, <1>7, <1>8

LEMMA RemoveKeeps ==
  ASSUME TableInv, NEW gone \in SUBSET monitors, Remove(gone), nextAge' = nextAge
  PROVE  TableInv'
  <1> USE DEF TableInv, Reserved, Remove, Released
  <1>1. \A m \in monitors \ gone : \A n \in gone : m.display # n.display
    OBVIOUS
  <1>2. \A m \in monitors' :
          \E r \in reserved' : r.display = m.display /\ r.connector = m.connector
    BY <1>1
  <1>3. Distinct(reserved')
    BY DEF Distinct
  <1> QED
    BY <1>2, <1>3

(* A restart finds every entry of the blob valid and restores them all. *)
LEMMA RestoreKeeps ==
  ASSUME NEW entries \in SUBSET [display : Ids, connector : Connectors],
         Distinct(entries)
  PROVE  /\ Valid(entries) = entries
         /\ Cardinality(Valid(entries)) \in Nat
         /\ Restored(entries) \subseteq Reservations
         /\ Distinct(Restored(entries))
         /\ {[display |-> r.display, connector |-> r.connector] : r \in Restored(entries)}
              = entries
  <1>1. Valid(entries) = entries
    <2>0. \A e \in entries : e.display \in Ids /\ e.connector \in Connectors
      OBVIOUS
    <2>1. \A e \in entries : e.display \in Int /\ e.connector \in Connectors
      <3>1. \A d \in Ids : d \in Int
        BY IdsBounded
      <3> QED
        BY <2>0, <3>1
    <2>2. \A e \in entries : \A f \in entries :
            f.connector = e.connector => e.display <= f.display
      BY <2>1 DEF Distinct
    <2> QED
      BY <2>1, <2>2 DEF Valid
  <1>2. IsFiniteSet(entries)
    <2> DEFINE displayOf == [e \in entries |-> e.display]
    <2>2. displayOf \in Injection(entries, Ids)
      BY DEF Injection, IsInjective, Distinct
    <2> QED
      BY IdsFinite, <2>2, FS_Injection
  <1>3. \A e \in entries :
          Cardinality({f \in entries : f.display < e.display}) \in Nat
    BY <1>2, FS_Subset, FS_CardinalityType
  <1>4. Restored(entries) =
          {[display |-> e.display, connector |-> e.connector,
            age |-> Cardinality({f \in entries : f.display < e.display})] : e \in entries}
    BY <1>1 DEF Restored
  <1> DEFINE age(e) == Cardinality({f \in entries : f.display < e.display})
             restored(e) == [display |-> e.display, connector |-> e.connector,
                             age |-> age(e)]
  <1>r. Restored(entries) = {restored(e) : e \in entries}
    BY <1>4
  <1>a. \A e \in entries : age(e) \in Nat
    BY <1>3
  <1> HIDE DEF age
  <1>f. \A e \in entries : /\ e.display \in Ids /\ e.connector \in Connectors
                           /\ e = [display |-> e.display, connector |-> e.connector]
    OBVIOUS
  <1>5. Restored(entries) \subseteq Reservations
    BY <1>r, <1>a, <1>f DEF Reservations
  <1>6. Distinct(Restored(entries))
    <2> SUFFICES ASSUME NEW r \in Restored(entries), NEW q \in Restored(entries),
                        r.connector = q.connector \/ r.display = q.display
                 PROVE  r = q
      BY DEF Distinct
    <2>1. PICK e \in entries, f \in entries : r = restored(e) /\ q = restored(f)
      BY <1>r
    <2>2. e.connector = f.connector \/ e.display = f.display
      BY <2>1
    <2> QED
      BY <2>1, <2>2 DEF Distinct
  <1>7. {[display |-> r.display, connector |-> r.connector] : r \in Restored(entries)}
          = entries
    <2>1. \A e \in entries :
            [display |-> restored(e).display, connector |-> restored(e).connector] = e
      BY <1>f
    <2>2. {[display |-> r.display, connector |-> r.connector] : r \in Restored(entries)}
            = {[display |-> restored(e).display,
                connector |-> restored(e).connector] : e \in entries}
      BY ZenonT(30), <1>r
    <2> HIDE DEF restored
    <2> QED
      BY <2>1, <2>2
  <1> QED
    BY <1>1, <1>2, <1>5, <1>6, <1>7, FS_CardinalityType

-----------------------------------------------------------------------------
(* What handlers queue *)

LEMMA PlugKept ==
  ASSUME NEW s \in Sessions, NEW c \in Connectors
  PROVE  Plug(s, c) \in KeptEffects
  BY DEF Plug, KeptEffects, PlugEffects

LEMMA UnplugKept ==
  ASSUME NEW set \in SUBSET Sessions
  PROVE  Unplug(set) \in KeptEffects
  BY DEF Unplug, KeptEffects, UnplugEffects

LEMMA PersistKept ==
  ASSUME NEW res, res \subseteq Reservations, Distinct(res), NEW p \in Pools
  PROVE  Persist(res, p) \in KeptEffects
  BY SnapshotKept DEF Persist, KeptEffects

LEMMA DecideKeeps ==
  ASSUME WorkerInv, NEW c \in Callers, NEW effects \in Seq(KeptEffects),
         Decide(c, effects)
  PROVE  held' \in [Callers -> Seq(KeptEffects)]
  BY DEF WorkerInv, Decide

(* The head of the queue is of the kind it says. *)
LEMMA HeadKinds ==
  ASSUME queue \in Seq(Tasks), queue # << >>
  PROVE  /\ Tail(queue) \in Seq(Tasks)
         /\ AtHead("plug") => Head(queue) \in PlugEffects
         /\ AtHead("unplug") => Head(queue) \in UnplugEffects
         /\ AtHead("persist") => Head(queue).blob \in KeptBlobs
  <1>1. Head(queue) \in Tasks /\ Tail(queue) \in Seq(Tasks)
    BY HeadTailProperties
  <1> QED
    BY <1>1 DEF AtHead, Tasks, KeptEffects, PlugEffects, UnplugEffects, ReadyTasks

LEMMA InvInit == Init => IInv
  <1> SUFFICES ASSUME Init PROVE IInv
    OBVIOUS
  <1> USE NoPoolIsPool DEF Init
  <1>1. TableInv
    BY DEF TableInv, Reserved, Distinct
  <1>2. GrowthInv
    BY DEF GrowthInv
  <1>3. WorkerInv
    <2>1. << >> \in Seq(KeptEffects) /\ << >> \in Seq(Tasks)
      BY EmptySeq
    <2>2. held \in [Callers -> Seq(KeptEffects)]
      BY <2>1
    <2> QED
      BY <2>1, <2>2 DEF WorkerInv
  <1>4. ShellInv
    BY DEF ShellInv, KeptBlobs, Blobs, Distinct
  <1> QED
    BY <1>1, <1>2, <1>3, <1>4 DEF IInv

-----------------------------------------------------------------------------
(* The handlers *)

LEMMA HostCreateStep ==
  ASSUME IInv, NEW c \in Callers, NEW s \in HostSessions,
         NEW d \in Displays \cup {EphemeralId(s)}, NEW leased \in BOOLEAN,
         HostCreate(c, s, d, leased)
  PROVE  IInv'
  <1> USE DEF IInv
  <1>1. s \in Sessions /\ d \in Ids
    BY DEF Sessions, Ids
  <1>2. PICK conn \in Connectors :
          /\ Create(s, d, leased, conn)
          /\ Decide(c, << Plug(s, conn), Persist(reserved', pool) >>)
    BY DEF HostCreate
  <1>3. CanCreate(s, d) /\ UNCHANGED <<pool, adapters, growth, queue, workerVars,
                                      shellVars, plugged, disk, unplugged, asked>>
    BY DEF HostCreate
  <1>4. TableInv'
    BY <1>1, <1>2, <1>3, CreateKeeps
  <1>5. held' \in [Callers -> Seq(KeptEffects)]
    <2>1. Plug(s, conn) \in KeptEffects
      BY <1>1, PlugKept
    <2>2. Persist(reserved', pool) \in KeptEffects
      BY <1>4, PersistKept DEF TableInv, Reserved, GrowthInv
    <2>3. << Plug(s, conn), Persist(reserved', pool) >> \in Seq(KeptEffects)
      BY <2>1, <2>2
    <2> QED
      BY <1>2, <2>3, DecideKeeps
  <1>6. GrowthInv' /\ WorkerInv' /\ ShellInv'
    BY <1>3, <1>5 DEF GrowthInv, WorkerInv, ShellInv, AtHead, workerVars, shellVars
  <1> QED
    BY <1>4, <1>6

(* DESTROY_MONITOR and the watchdog's sweep: sessions leave, their unplug and
   the new blob are decided. *)
LEMMA LeaveStep ==
  ASSUME IInv, NEW c \in Callers, NEW gone \in SUBSET monitors, Remove(gone),
         NEW left \in SUBSET Sessions,
         Decide(c, << Unplug(left), Persist(reserved', pool) >>),
         UNCHANGED <<nextAge, pool, adapters, growth, queue, workerVars, shellVars,
                     plugged, disk, unplugged, asked>>
  PROVE  IInv'
  <1> USE DEF IInv
  <1>1. TableInv'
    BY RemoveKeeps
  <1>2. held' \in [Callers -> Seq(KeptEffects)]
    <2>1. Unplug(left) \in KeptEffects
      BY UnplugKept
    <2>2. Persist(reserved', pool) \in KeptEffects
      BY <1>1, PersistKept DEF TableInv, Reserved, GrowthInv
    <2>3. << Unplug(left), Persist(reserved', pool) >> \in Seq(KeptEffects)
      BY <2>1, <2>2
    <2> QED
      BY <2>3, DecideKeeps
  <1>3. GrowthInv' /\ WorkerInv' /\ ShellInv'
    BY <1>2 DEF GrowthInv, WorkerInv, ShellInv, AtHead, workerVars, shellVars
  <1> QED
    BY <1>1, <1>3

LEMMA HostDestroyStep ==
  ASSUME IInv, NEW c \in Callers, NEW s \in HostSessions, HostDestroy(c, s)
  PROVE  IInv'
  <1> DEFINE gone == {m \in monitors : m.session = s}
  <1>1. gone \in SUBSET monitors /\ {s} \in SUBSET Sessions
    BY DEF Sessions
  <1> QED
    BY <1>1, LeaveStep DEF HostDestroy

LEMMA WatchdogStep ==
  ASSUME IInv, WatchdogTick
  PROVE  IInv'
  <1> DEFINE left == {m.session : m \in Expired}
  <1>1. Expired \in SUBSET monitors /\ left \in SUBSET Sessions
    BY DEF Expired, IInv, TableInv, Monitors
  <1>2. "watchdog" \in Callers
    BY DEF Callers
  <1> QED
    BY <1>1, <1>2, LeaveStep DEF WatchdogTick

(* PING and a lease that runs out change nothing but how stale a monitor is. *)
LEMMA PingStep ==
  ASSUME IInv, NEW s \in HostSessions, Ping(s)
  PROVE  IInv'
  <1> USE DEF IInv
  <1> DEFINE pinged(m) == IF m.session = s THEN [m EXCEPT !.stale = FALSE] ELSE m
  <1>1. monitors' = {pinged(m) : m \in monitors}
    BY DEF Ping
  <1>2. \A m \in monitors : /\ pinged(m) \in Monitors
                            /\ pinged(m).display = m.display
                            /\ pinged(m).connector = m.connector
    BY DEF TableInv, Monitors
  <1>3. UNCHANGED <<reserved, nextAge, pool, adapters, growth, held, queue,
                    workerVars, shellVars, plugged, disk, unplugged, asked>>
    BY DEF Ping
  <1> HIDE DEF pinged
  <1>4. TableInv'
    BY <1>1, <1>2, <1>3 DEF TableInv, Reserved
  <1>5. GrowthInv' /\ WorkerInv' /\ ShellInv'
    BY <1>3 DEF GrowthInv, WorkerInv, ShellInv, AtHead, workerVars, shellVars
  <1> QED
    BY <1>4, <1>5

LEMMA LeaseStep ==
  ASSUME IInv, NEW m \in monitors, LeaseRunsOut(m)
  PROVE  IInv'
  <1> USE DEF IInv
  <1> DEFINE late == [m EXCEPT !.stale = TRUE]
  <1>1. monitors' = (monitors \ {m}) \cup {late}
    BY DEF LeaseRunsOut
  <1>2. late \in Monitors /\ late.display = m.display /\ late.connector = m.connector
    BY DEF TableInv, Monitors
  <1>3. UNCHANGED <<reserved, nextAge, pool, adapters, growth, held, queue,
                    workerVars, shellVars, plugged, disk, unplugged, asked>>
    BY DEF LeaseRunsOut
  <1> HIDE DEF late
  <1>4. TableInv'
    BY <1>1, <1>2, <1>3 DEF TableInv, Reserved
  <1>5. GrowthInv' /\ WorkerInv' /\ ShellInv'
    BY <1>3 DEF GrowthInv, WorkerInv, ShellInv, AtHead, workerVars, shellVars
  <1> QED
    BY <1>4, <1>5

LEMMA QueueStep ==
  ASSUME IInv, NEW c \in Callers, QueueEffects(c)
  PROVE  IInv'
  <1> USE DEF IInv
  <1>1. UNCHANGED <<deviceVars, workerVars, shellVars, plugged, disk, unplugged, asked>>
    BY DEF QueueEffects
  <1>2. held[c] \in Seq(KeptEffects) /\ queue \in Seq(Tasks)
    BY DEF WorkerInv
  <1>3. held[c] \in Seq(Tasks)
    BY <1>2, EffectsAreTasks
  <1>4. queue' \in Seq(Tasks)
    BY <1>2, <1>3, ConcatProperties DEF QueueEffects
  <1>5. held' \in [Callers -> Seq(KeptEffects)]
    BY EmptySeq DEF QueueEffects, WorkerInv
  <1>6. \A kind : AtHead(kind) => AtHead(kind)'
    BY <1>2, <1>3, AppendedHead DEF QueueEffects, AtHead
  <1>7. WorkerInv'
    BY <1>1, <1>4, <1>5, <1>6 DEF WorkerInv, deviceVars, workerVars
  <1>8. TableInv' /\ GrowthInv' /\ ShellInv'
    BY <1>1 DEF TableInv, Reserved, GrowthInv, ShellInv, deviceVars, tableVars, shellVars
  <1> QED
    BY <1>7, <1>8

-----------------------------------------------------------------------------
(* The permanent pool *)

LEMMA SetPoolStep ==
  ASSUME IInv, NEW c \in Callers,
         NEW desired \in [count : 0 .. MaxPool, settings : Settings],
         SetPool(c, desired)
  PROVE  IInv'
  <1> USE DEF IInv
  <1> DEFINE gone == {m \in monitors :
                       \E i \in ToDestroy(desired) : m.session = PoolSession(i)}
             g == [by |-> c, desired |-> desired, next |-> FirstNew(desired),
                   created |-> IF FirstNew(desired) >= desired.count
                               THEN desired.count ELSE 0,
                   effects |-> IF gone = {} THEN << >>
                               ELSE << Unplug({m.session : m \in gone}) >>]
  <1>1. /\ Remove(gone) /\ growth' = {g}
        /\ UNCHANGED <<nextAge, pool, adapters, held, queue, workerVars, shellVars,
                       plugged, disk, unplugged, asked>>
    BY DEF SetPool
  <1>2. TableInv'
    BY <1>1, RemoveKeeps
  <1>3. desired \in Pools /\ desired.count \in Nat /\ FirstNew(desired) \in Nat
    BY LimitsAssumption DEF Pools, FirstNew, GrowthInv
  <1>4. g.effects \in Seq(KeptEffects)
    <2>1. {m.session : m \in gone} \in SUBSET Sessions
      BY DEF TableInv, Monitors
    <2>2. << Unplug({m.session : m \in gone}) >> \in Seq(KeptEffects)
      BY <2>1, UnplugKept
    <2> HIDE DEF gone
    <2> QED
      BY <2>2, EmptySeq
  <1>5. g.by \in Callers /\ g.desired = desired /\ g.next \in Nat /\ g.created \in Nat
    BY <1>3
  <1>6. g \in [by : Callers \cup {"worker"}, desired : Pools, next : Nat,
               created : Nat, effects : Seq(KeptEffects)]
    BY <1>3, <1>4, <1>5
  <1> HIDE DEF g
  <1>7. GrowthInv'
    BY <1>1, <1>6 DEF GrowthInv
  <1>8. WorkerInv'
    BY <1>1, <1>5 DEF WorkerInv, AtHead, workerVars, Callers
  <1>9. ShellInv'
    BY <1>1 DEF ShellInv, shellVars
  <1> QED
    BY <1>2, <1>7, <1>8, <1>9

LEMMA GrowStep ==
  ASSUME IInv, GrowPool
  PROVE  IInv'
  <1> USE DEF IInv
  <1>1. PICK g \in growth :
          /\ g.next < g.desired.count
          /\ \/ /\ CanCreate(PoolSession(g.next), PermanentId(g.next))
                /\ \E conn \in Connectors :
                     /\ Create(PoolSession(g.next), PermanentId(g.next), FALSE, conn)
                     /\ growth' = {[g EXCEPT !.next = @ + 1, !.created = g.next + 1,
                                  !.effects = Append(@, Plug(PoolSession(g.next), conn))]}
             \/ /\ growth' = {[g EXCEPT !.next = g.desired.count]}
                /\ UNCHANGED tableVars
    BY DEF GrowPool
  <1>2. UNCHANGED <<pool, adapters, held, queue, workerVars, shellVars, plugged,
                    disk, unplugged, asked>>
    BY DEF GrowPool
  <1> DEFINE Growing == [by : Callers \cup {"worker"}, desired : Pools, next : Nat,
                         created : Nat, effects : Seq(KeptEffects)]
  <1>3. g \in Growing /\ g.desired.count \in 0 .. MaxPool
    BY DEF GrowthInv, Pools
  <1>4. PoolSession(g.next) \in Sessions /\ PermanentId(g.next) \in Ids
    <2>0. g.next \in Nat /\ MaxPool \in Nat
      BY <1>3, LimitsAssumption
    <2>1. g.next \in PoolIndices
      <3>1. g.next < g.desired.count
        BY <1>1
      <3> QED
        BY <1>3, <2>0, <3>1 DEF PoolIndices
    <2>2. PoolSession(g.next) \in PoolSessions /\ PermanentId(g.next) \in PermanentIds
      BY <2>1, Zenon DEF PoolSessions, PermanentIds
    <2> QED
      BY <2>2 DEF Sessions, Ids
  <1>5. TableInv' /\ growth' \subseteq Growing /\ \A h \in growth' : h.by = g.by
    <2>1. CASE /\ growth' = {[g EXCEPT !.next = g.desired.count]}
               /\ UNCHANGED tableVars
      BY <2>1, <1>3, LimitsAssumption DEF TableInv, Reserved, tableVars
    <2>2. ASSUME CanCreate(PoolSession(g.next), PermanentId(g.next)),
                 NEW conn \in Connectors,
                 Create(PoolSession(g.next), PermanentId(g.next), FALSE, conn),
                 growth' = {[g EXCEPT !.next = @ + 1, !.created = g.next + 1,
                              !.effects = Append(@, Plug(PoolSession(g.next), conn))]}
          PROVE  TableInv' /\ growth' \subseteq Growing /\ \A h \in growth' : h.by = g.by
      <3>1. TableInv'
        BY <1>4, <2>2, CreateKeeps
      <3>2. Plug(PoolSession(g.next), conn) \in KeptEffects
        BY <1>4, PlugKept
      <3>3. Append(g.effects, Plug(PoolSession(g.next), conn)) \in Seq(KeptEffects)
        BY <1>3, <3>2
      <3> DEFINE longer == Append(g.effects, Plug(PoolSession(g.next), conn))
                 h == [g EXCEPT !.next = g.next + 1, !.created = g.next + 1,
                                !.effects = longer]
      <3>4. growth' = {h}
        BY <2>2
      <3>5. longer \in Seq(KeptEffects)
        BY <3>3
      <3> HIDE DEF longer
      <3>6. h.by = g.by /\ g.next + 1 \in Nat
        BY <1>3
      <3>7. h \in Growing
        BY <1>3, <3>5, <3>6
      <3> QED
        BY <3>1, <3>4, <3>6, <3>7
    <2> QED
      BY <1>1, <2>1, <2>2
  <1>6. GrowthInv' /\ WorkerInv' /\ ShellInv'
    BY <1>2, <1>5 DEF GrowthInv, WorkerInv, ShellInv, AtHead, workerVars, shellVars
  <1> QED
    BY <1>5, <1>6

LEMMA FinishStep ==
  ASSUME IInv, FinishPool
  PROVE  IInv'
  <1> USE DEF IInv
  <1>1. PICK g \in growth :
          /\ pool' = GrownPool(g) /\ growth' = {}
          /\ \/ /\ g.by # "worker"
                /\ Decide(g.by, Append(g.effects, Persist(reserved, pool')))
                /\ asked' = asked \cup {Snapshot({}, pool').pool}
                /\ UNCHANGED <<wpc, bringUp>>
             \/ /\ g.by = "worker"
                /\ bringUp' = g.effects /\ wpc' = "publish"
                /\ UNCHANGED <<held, asked>>
          /\ UNCHANGED <<tableVars, adapters, queue, made, shellVars, plugged, disk,
                         unplugged>>
    BY DEF FinishPool
  <1>2. g \in [by : Callers \cup {"worker"}, desired : Pools, next : Nat,
               created : Nat, effects : Seq(KeptEffects)]
    BY DEF GrowthInv
  <1>3. pool' \in Pools
    <2>1. g.desired \in Pools /\ g.created \in Nat
      BY <1>2
    <2>2. g.desired.count \in 0 .. MaxPool
      BY <2>1 DEF Pools
    <2>3. (IF g.created < g.desired.count THEN g.created ELSE g.desired.count)
            \in 0 .. MaxPool
      BY <2>1, <2>2, LimitsAssumption
    <2> QED
      BY <1>1, <2>1, <2>3 DEF GrownPool, Pools
  <1>4. TableInv' /\ ShellInv'
    BY <1>1 DEF TableInv, Reserved, ShellInv, tableVars, shellVars
  <1>5. CASE g.by # "worker"
    <2>1. Persist(reserved, pool') \in KeptEffects
      BY <1>3, PersistKept DEF TableInv, Reserved
    <2>2. held' \in [Callers -> Seq(KeptEffects)]
      <3>1. Append(g.effects, Persist(reserved, pool')) \in Seq(KeptEffects)
        BY <1>2, <2>1
      <3> QED
        BY <1>1, <1>2, <1>5, <3>1, DecideKeeps
    <2>3. asked' \subseteq Pools
      <3>1. Snapshot({}, pool').pool \in Pools
        BY <1>3, NoPoolIsPool DEF Snapshot
      <3> QED
        BY <1>1, <1>5, <3>1 DEF GrowthInv
    <2> QED
      BY <1>1, <1>3, <1>4, <1>5, <2>2, <2>3 DEF GrowthInv, WorkerInv, AtHead
  <1>6. CASE g.by = "worker"
    <2>1. AtHead("ready")
      BY <1>6 DEF WorkerInv
    <2> QED
      BY <1>1, <1>2, <1>3, <1>4, <1>6, <2>1 DEF GrowthInv, WorkerInv, AtHead
  <1> QED
    BY <1>5, <1>6

-----------------------------------------------------------------------------
(* The worker *)

(* A task that ends with the worker idle: the table and the pool are untouched. *)
LEMMA TaskDone ==
  ASSUME IInv, AtHead("plug") \/ AtHead("unplug") \/ AtHead("persist") \/ AtHead("ready"),
         wpc \in {"idle", "plug"}, wpc' = "idle", queue' = Tail(queue),
         made' \in Nat, UNCHANGED <<deviceVars, held, bringUp, asked>>
  PROVE  TableInv' /\ GrowthInv' /\ WorkerInv'
  <1> USE DEF IInv
  <1>1. queue # << >> /\ queue \in Seq(Tasks)
    BY DEF AtHead, WorkerInv
  <1>2. queue' \in Seq(Tasks)
    BY <1>1, HeadTailProperties
  <1>3. WorkerInv'
    BY <1>2 DEF WorkerInv, deviceVars
  <1>4. /\ UNCHANGED <<monitors, reserved, nextAge>>
        /\ UNCHANGED <<pool, adapters, growth, asked>>
    BY DEF deviceVars, tableVars
  <1>5. TableInv'
    BY <1>4 DEF TableInv, Reserved
  <1>6. GrowthInv'
    BY <1>4 DEF GrowthInv
  <1> QED
    BY <1>3, <1>5, <1>6

LEMMA PlugStep ==
  ASSUME IInv, DropPlug \/ StartPlug \/ EndPlug
  PROVE  IInv'
  <1> USE DEF IInv
  <1>1. AtHead("plug") /\ queue \in Seq(Tasks) /\ queue # << >>
    BY DEF DropPlug, StartPlug, EndPlug, WorkerInv, AtHead
  <1>2. Head(queue).session \in Sessions /\ Head(queue).connector \in Connectors
    BY <1>1, HeadKinds DEF PlugEffects
  <1>3. CASE DropPlug
    <2>1. made' \in Nat /\ wpc = "idle" /\ wpc' = "idle" /\ queue' = Tail(queue)
          /\ UNCHANGED <<deviceVars, held, bringUp, asked>>
      BY <1>3 DEF DropPlug, workerVars, WorkerInv
    <2>0. TableInv' /\ GrowthInv' /\ WorkerInv'
      BY <1>1, <2>1, TaskDone
    <2> QED
      BY <1>2, <1>3, <2>0 DEF DropPlug, ShellInv, shellVars
  <1>4. CASE StartPlug
    <2>1. TableInv' /\ GrowthInv' /\ ShellInv'
      BY <1>4 DEF StartPlug, TableInv, Reserved, GrowthInv, ShellInv, deviceVars,
                  tableVars, shellVars
    <2> QED
      BY <1>4, <2>1 DEF StartPlug, WorkerInv, ShellInv, AtHead, deviceVars
  <1>5. CASE EndPlug
    <2>1. TableInv' /\ GrowthInv' /\ WorkerInv'
      BY <1>1, <1>5, TaskDone DEF EndPlug
    <2> DEFINE e == Head(queue)
               new == [session |-> e.session, connector |-> e.connector, epoch |-> made]
    <2>2. Others(e.session) \subseteq plugged
      BY DEF Others
    <2>3. new \in [session : Sessions, connector : Connectors, epoch : Nat]
      BY <1>2 DEF WorkerInv
    <2>4. /\ \/ plugged' = Others(e.session) \cup {new}
             \/ plugged' \in {plugged, Others(e.session)}
          /\ unplugged' \in {unplugged \ {e.session}, unplugged \cup {e.session}}
          /\ UNCHANGED <<shellVars, disk>>
      BY <1>5 DEF EndPlug
    <2> HIDE DEF e, new
    <2>5. e.session \in Sessions
      BY <1>2 DEF e
    <2>6. ShellInv'
      BY <2>2, <2>3, <2>4, <2>5 DEF ShellInv, shellVars
    <2> QED
      BY <2>1, <2>6
  <1> QED
    BY <1>3, <1>4, <1>5

LEMMA ApplyStep ==
  ASSUME IInv, ApplyUnplug \/ ApplyPersist \/ StaleReady
  PROVE  IInv'
  <1> USE DEF IInv
  <1>1. TableInv' /\ GrowthInv' /\ WorkerInv'
    BY TaskDone DEF ApplyUnplug, ApplyPersist, StaleReady, workerVars, WorkerInv
  <1>2. disk' \in KeptBlobs
    <2>1. CASE ApplyPersist
      <3>1. Head(queue).blob \in KeptBlobs
        BY <2>1, HeadKinds DEF ApplyPersist, AtHead, WorkerInv
      <3> QED
        BY <2>1, <3>1 DEF ApplyPersist, ShellInv
    <2> QED
      BY <2>1 DEF ApplyUnplug, StaleReady, ShellInv
  <1>3. plugged' \subseteq plugged /\ UNCHANGED <<shellVars, unplugged>>
    BY DEF ApplyUnplug, ApplyPersist, StaleReady
  <1>4. ShellInv'
    BY <1>2, <1>3 DEF ShellInv, shellVars
  <1> QED
    BY <1>1, <1>4

LEMMA StartupStep ==
  ASSUME IInv, Startup
  PROVE  IInv'
  <1> USE DEF IInv
  <1>1. UNCHANGED <<tableVars, held, queue, made, bringUp, shellVars, plugged, disk,
                    unplugged, asked>>
    BY DEF Startup
  <1>2. TableInv' /\ ShellInv'
    BY <1>1 DEF TableInv, Reserved, ShellInv, tableVars, shellVars
  <1>3. AtHead("ready")' /\ Unlocked /\ adapters' \in BOOLEAN
    BY <1>1 DEF Startup, AtHead
  <1>4. CASE pool.count > 0
    <2> DEFINE g == [by |-> "worker", desired |-> pool, next |-> 0, created |-> 0,
                     effects |-> << >>]
    <2>1. growth' = {g} /\ pool' = [pool EXCEPT !.count = 0] /\ wpc' = "startup"
      BY <1>4 DEF Startup, GrowthInv, Pools
    <2>2. pool' \in Pools
      <3>1. 0 \in 0 .. MaxPool
        BY LimitsAssumption
      <3> QED
        BY <2>1, <3>1 DEF GrowthInv, Pools
    <2>3. << >> \in Seq(KeptEffects)
      BY EmptySeq
    <2>4. g \in [by : Callers \cup {"worker"}, desired : Pools, next : Nat,
                 created : Nat, effects : Seq(KeptEffects)]
      BY <2>3 DEF GrowthInv
    <2>5. GrowthInv'
      BY <1>1, <1>3, <2>1, <2>2, <2>4 DEF GrowthInv
    <2> QED
      BY <1>1, <1>2, <1>3, <2>1, <2>5 DEF WorkerInv, AtHead
  <1>5. CASE ~(pool.count > 0)
    BY <1>1, <1>2, <1>3, <1>5 DEF Startup, GrowthInv, WorkerInv, AtHead
  <1> QED
    BY <1>4, <1>5

LEMMA PublishStep ==
  ASSUME IInv, Publish
  PROVE  IInv'
  <1> USE DEF IInv
  <1>1. queue # << >> /\ queue \in Seq(Tasks)
    BY DEF Publish, WorkerInv, AtHead
  <1>2. Tail(queue) \in Seq(Tasks)
    BY <1>1, HeadTailProperties
  <1>3. bringUp \in Seq(Tasks) /\ bringUp \o Tail(queue) \in Seq(Tasks)
    BY <1>2, EffectsAreTasks, ConcatProperties DEF WorkerInv
  <1>4. \A g \in growth : g.by # "worker"
    BY DEF Publish, WorkerInv
  <1>5. /\ wpc' = "idle" /\ bringUp' = << >> /\ adapter' \in BOOLEAN
        /\ UNCHANGED <<pool, adapters, growth, held, made, epoch, device, pnp, mark,
                       plugged, disk, unplugged, asked>>
    BY DEF Publish, ShellInv
  <1>6. TableInv'
    <2>1. CASE UNCHANGED tableVars
      BY <2>1 DEF TableInv, Reserved, tableVars
    <2>2. CASE Remove(monitors) /\ UNCHANGED nextAge
      BY <2>2, RemoveKeeps
    <2> QED
      BY <2>1, <2>2 DEF Publish
  <1>7. WorkerInv'
    BY <1>2, <1>3, <1>4, <1>5, EmptySeq DEF Publish, WorkerInv
  <1> QED
    BY <1>5, <1>6, <1>7 DEF GrowthInv, ShellInv

-----------------------------------------------------------------------------
(* The device and the process *)

LEMMA DeviceStep ==
  ASSUME IInv, Device
  PROVE  IInv'
  <1> USE DEF IInv
  <1>1. CASE DeviceAdd \/ FinalExit \/ DrainMonitors
    <2>1. UNCHANGED <<deviceVars, held, queue, workerVars, disk, unplugged, asked>>
      BY <1>1 DEF DeviceAdd, FinalExit, DrainMonitors
    <2>2. ASSUME DeviceAdd PROVE ShellInv'
      BY <2>1, <2>2 DEF DeviceAdd, ShellInv
    <2>3. ASSUME FinalExit PROVE ShellInv'
      <3>1. /\ pnp' = "cleared" /\ adapter' = FALSE /\ epoch' = epoch + 1
            /\ device' = FALSE /\ UNCHANGED <<mark, plugged, disk, unplugged>>
        BY <2>3, Zenon DEF FinalExit
      <3>2. adapter' \in BOOLEAN /\ device' \in BOOLEAN
        BY <3>1, Zenon
      <3>4. epoch' \in Nat /\ mark' \in Nat
        BY <3>1 DEF ShellInv
      <3>5. pnp' \in {"absent", "starting", "up", "cleared", "drained"}
        BY <3>1
      <3>3. /\ plugged' \subseteq [session : Sessions, connector : Connectors, epoch : Nat]
            /\ disk' \in KeptBlobs /\ unplugged' \subseteq Sessions
        BY <3>1 DEF ShellInv
      <3> QED
        BY <3>2, <3>3, <3>4, <3>5 DEF ShellInv
    <2>4. ASSUME DrainMonitors PROVE ShellInv'
      BY <2>1, <2>4 DEF DrainMonitors, ShellInv
    <2>5. ShellInv'
      BY <1>1, <2>2, <2>3, <2>4
    <2> QED
      BY <2>1, <2>5 DEF TableInv, Reserved, GrowthInv, WorkerInv, AtHead, deviceVars,
                        tableVars, workerVars
  <1>2. CASE AdapterInitFinished
    <2> DEFINE task == [kind |-> "ready", epoch |-> mark]
    <2>1. queue \in Seq(Tasks) /\ task \in Tasks
      BY DEF WorkerInv, ShellInv, Tasks, ReadyTasks
    <2>2. queue' = Append(queue, task) /\ queue' \in Seq(Tasks)
      BY <1>2, <2>1 DEF AdapterInitFinished
    <2>3. \A kind : AtHead(kind) => AtHead(kind)'
      <3>1. queue # << >> => queue' # << >> /\ Head(queue') = Head(queue)
        BY <2>1, <2>2
      <3> QED
        BY <3>1 DEF AtHead
    <2>4. UNCHANGED <<deviceVars, held, workerVars, adapter, epoch, device, mark,
                      plugged, disk, unplugged, asked>> /\ pnp' = "up"
      BY <1>2 DEF AdapterInitFinished
    <2>5. WorkerInv'
      BY <2>2, <2>3, <2>4 DEF WorkerInv, deviceVars, workerVars
    <2> QED
      BY <2>4, <2>5 DEF TableInv, Reserved, GrowthInv, ShellInv, deviceVars, tableVars
  <1>3. CASE TeardownReset
    <2>1. TableInv'
      BY <1>3, RemoveKeeps DEF TeardownReset
    <2> QED
      BY <1>3, <2>1 DEF TeardownReset, PoolLeft, GrowthInv, WorkerInv, ShellInv, AtHead,
                        workerVars
  <1> QED
    BY <1>1, <1>2, <1>3 DEF Device

LEMMA RestartStep ==
  ASSUME IInv, Restart
  PROVE  IInv'
  <1> USE DEF IInv
  <1>1. /\ disk.reserved \in SUBSET [display : Ids, connector : Connectors]
        /\ Distinct(disk.reserved) /\ disk.pool \in Pools
    BY DEF ShellInv, KeptBlobs, Blobs
  <1>2. /\ Restored(disk.reserved) \subseteq Reservations
        /\ Distinct(Restored(disk.reserved))
        /\ Cardinality(Valid(disk.reserved)) \in Nat
    BY <1>1, RestoreKeeps
  <1>3. TableInv'
    BY <1>2 DEF Restart, TableInv, Reserved
  <1>4. GrowthInv'
    BY <1>1 DEF Restart, GrowthInv
  <1>5. WorkerInv'
    <2>1. << >> \in Seq(KeptEffects) /\ << >> \in Seq(Tasks)
      BY EmptySeq
    <2>2. held' \in [Callers -> Seq(KeptEffects)]
      BY <2>1 DEF Restart
    <2> QED
      BY <2>1, <2>2 DEF Restart, WorkerInv
  <1>6. ShellInv'
    BY DEF Restart, ShellInv
  <1> QED
    BY <1>3, <1>4, <1>5, <1>6

-----------------------------------------------------------------------------
LEMMA InvStep == IInv /\ [Next]_vars => IInv'
  <1> SUFFICES ASSUME IInv, [Next]_vars PROVE IInv'
    OBVIOUS
  <1>1. ASSUME HostRequest("ioctl") PROVE IInv'
    <2>1. "ioctl" \in Callers
      BY DEF Callers
    <2> QED
      BY <1>1, <2>1, HostCreateStep, HostDestroyStep, SetPoolStep DEF HostRequest
  <1>2. ASSUME NEW s \in HostSessions, Ping(s) PROVE IInv'
    BY <1>2, PingStep
  <1>3. ASSUME NEW m \in monitors, LeaseRunsOut(m) PROVE IInv'
    BY <1>3, LeaseStep
  <1>4. CASE WatchdogTick
    BY <1>4, WatchdogStep
  <1>5. ASSUME NEW c \in Callers, QueueEffects(c) PROVE IInv'
    BY <1>5, QueueStep
  <1>6. CASE GrowPool
    BY <1>6, GrowStep
  <1>7. CASE FinishPool
    BY <1>7, FinishStep
  <1>8. CASE Worker
    BY <1>8, PlugStep, ApplyStep, StartupStep, PublishStep DEF Worker
  <1>9. CASE Device
    BY <1>9, DeviceStep
  <1>10. CASE Restart
    BY <1>10, RestartStep
  <1>11. CASE UNCHANGED vars
    BY <1>11 DEF IInv, TableInv, Reserved, GrowthInv, WorkerInv, ShellInv, AtHead,
                 vars, deviceVars, tableVars, workerVars, shellVars
  <1> QED
    BY <1>1, <1>2, <1>3, <1>4, <1>5, <1>6, <1>7, <1>8, <1>9, <1>10, <1>11 DEF Next

LEMMA Invariance == Spec => []IInv
  <1>1. Init => IInv
    BY InvInit
  <1>2. IInv /\ [Next]_vars => IInv'
    BY InvStep
  <1> QED
    BY <1>1, <1>2, PTL DEF Spec

(* The types of the specification, from the narrower ones of the invariant. *)
LEMMA Typed == IInv => TypeOK
  <1> SUFFICES ASSUME IInv PROVE TypeOK
    OBVIOUS
  <1> USE DEF IInv
  <1>1. DeviceTypes
    <2>1. growth \subseteq Growths
      <3> SUFFICES ASSUME NEW g \in growth PROVE g \in Growths
        OBVIOUS
      <3>1. g \in [by : Callers \cup {"worker"}, desired : Pools, next : Nat,
                   created : Nat, effects : Seq(KeptEffects)]
        BY DEF GrowthInv
      <3>2. g.effects \in Seq(Effects)
        BY <3>1, KeptAreEffects
      <3> QED
        BY <3>1, <3>2 DEF Growths
    <2> QED
      BY <2>1 DEF DeviceTypes, TableInv, GrowthInv
  <1>2. EffectTypes
    <2>1. held \in [Callers -> Seq(Effects)]
      BY KeptAreEffects DEF WorkerInv
    <2> QED
      BY <2>1, KeptAreEffects, TasksAreEffects DEF EffectTypes, WorkerInv
  <1>3. ShellTypes
    BY DEF ShellTypes, ShellInv, KeptBlobs
  <1> QED
    BY <1>1, <1>2, <1>3 DEF TypeOK

(* With fewer live monitors than connectors, either a connector is free or the
   reservations that fill the table cannot all belong to live monitors. *)
LEMMA Room == IInv => RoomBelowCap
  <1> SUFFICES ASSUME IInv, Free = {}, Evictable = {}
               PROVE  ~(Cardinality(monitors) < MaxMonitors)
    BY DEF RoomBelowCap
  <1> USE DEF IInv, TableInv, Reserved
  <1> DEFINE displayOf == [m \in monitors |-> m.display]
             holder == [c \in Connectors |->
               CHOOSE m \in monitors : \E r \in reserved :
                 r.connector = c /\ r.display = m.display]
  <1>1. IsFiniteSet(monitors) /\ Cardinality(monitors) \in Nat
    <2>1. displayOf \in Injection(monitors, Ids)
      BY DEF Injection, IsInjective, Monitors
    <2> QED
      BY <2>1, IdsFinite, FS_Injection, FS_CardinalityType
  <1>2. \A c \in Connectors : \E m \in monitors : \E r \in reserved :
          r.connector = c /\ r.display = m.display
    <2> SUFFICES ASSUME NEW c \in Connectors
                 PROVE  \E m \in monitors : \E r \in reserved :
                          r.connector = c /\ r.display = m.display
      OBVIOUS
    <2>1. PICK r \in reserved : r.connector = c
      BY DEF Free
    <2>2. PICK m \in monitors : m.display = r.display
      BY DEF Evictable
    <2> QED
      BY <2>1, <2>2
  <1>3. \A c \in Connectors : /\ holder[c] \in monitors
                              /\ \E r \in reserved :
                                   r.connector = c /\ r.display = holder[c].display
    BY <1>2
  <1>4. holder \in Injection(Connectors, monitors)
    <2> HIDE DEF holder
    <2>1. holder \in [Connectors -> monitors]
      BY <1>3 DEF holder
    <2>2. \A c, e \in Connectors : holder[c] = holder[e] => c = e
      BY <1>3 DEF Distinct
    <2> QED
      BY <2>1, <2>2 DEF Injection, IsInjective
  <1>5. Cardinality(Connectors) <= Cardinality(monitors)
    BY <1>1, <1>4, FS_Injection
  <1>6. Cardinality(Connectors) = MaxMonitors
    <2>1. \A a, b \in Int : Cardinality(a .. b) = IF a > b THEN 0 ELSE b - a + 1
      BY FS_Interval
    <2> DEFINE last == MaxMonitors - 1
    <2>3. last \in Int /\ ~(0 > last) /\ last - 0 + 1 = MaxMonitors
      BY LimitsAssumption
    <2> HIDE DEF last
    <2>4. Cardinality(0 .. last) = last - 0 + 1
      BY <2>1, <2>3
    <2>2. Cardinality(0 .. MaxMonitors - 1) = MaxMonitors
      BY <2>3, <2>4 DEF last
    <2> QED
      BY <2>2 DEF Connectors
  <1> QED
    BY <1>1, <1>5, <1>6, LimitsAssumption

(* Whatever the sizes, every variable stays within its type. *)
THEOREM TypeCorrect == Spec => []TypeOK
  <1>1. IInv => TypeOK
    BY Typed
  <1> QED
    BY <1>1, Invariance, PTL

(* A live monitor never loses the connector it was plugged with, and no two
   identities share one (core/identity.rs and core/session.rs): through
   eviction, release, the pool, a stale bring-up, the final exit and restarts. *)
THEOREM ConnectorsKept == Spec => []LiveKeepsConnector
  <1>1. IInv => LiveKeepsConnector
    BY DEF IInv, TableInv, Reserved, Distinct, LiveKeepsConnector
  <1> QED
    BY <1>1, Invariance, PTL

(* acquire (core/identity.rs) cannot fail for a session the monitor cap
   admits. *)
THEOREM RoomForAll == Spec => []RoomBelowCap
  <1>1. IInv => RoomBelowCap
    BY Room
  <1> QED
    BY <1>1, Invariance, PTL

(* restore (core/identity.rs) drops no reservation of a blob this driver
   wrote. *)
THEOREM IdentitiesReturn == Spec => RestartKeepsIdentities
  <1>1. IInv /\ [Next]_vars =>
          [Restart => Snapshot(reserved', NoPool).reserved = disk.reserved]_vars
    <2> SUFFICES ASSUME IInv, Restart
                 PROVE  Snapshot(reserved', NoPool).reserved = disk.reserved
      OBVIOUS
    <2>1. disk.reserved \in SUBSET [display : Ids, connector : Connectors]
          /\ Distinct(disk.reserved)
      BY DEF IInv, ShellInv, KeptBlobs, Blobs
    <2>2. {[display |-> r.display, connector |-> r.connector] :
             r \in Restored(disk.reserved)} = disk.reserved
      BY <2>1, RestoreKeeps
    <2>3. reserved' = Restored(disk.reserved)
      BY DEF Restart
    <2> QED
      BY <2>2, <2>3 DEF Snapshot
  <1> QED
    BY <1>1, Invariance, PTL DEF Spec, RestartKeepsIdentities

-----------------------------------------------------------------------------
(***************************************************************************)
(* The bring-up.  Each device queues one ready task, of an epoch above      *)
(* those of the tasks before it, and while the task of the epoch in force  *)
(* is queued or being carried out no adapter is published.                 *)
(***************************************************************************)
ReadiesOf(q) == {i \in 1 .. Len(q) : q[i].kind = "ready"}

OneBringUp ==
  \A i \in ReadiesOf(queue) :
    /\ queue[i].epoch <= epoch
    /\ queue[i].epoch = epoch => pnp = "up" /\ ~adapter
    /\ \A j \in ReadiesOf(queue) : i < j => queue[i].epoch < queue[j].epoch

BringUpInv ==
  /\ adapter => pnp = "up"
  /\ pnp = "starting" => mark = epoch
  /\ OneBringUp
  /\ wpc \in {"startup", "publish"} => ~adapter

LEMMA PoppedReadies ==
  ASSUME NEW q \in Seq(Tasks), q # << >>, NEW i \in ReadiesOf(Tail(q))
  PROVE  i + 1 \in ReadiesOf(q) /\ Tail(q)[i] = q[i + 1] /\ i \in Nat
  <1>1. Len(Tail(q)) = Len(q) - 1 /\ Len(q) \in Nat
        /\ \A j \in 1 .. Len(Tail(q)) : Tail(q)[j] = q[j + 1]
    BY HeadTailProperties, LenProperties
  <1> QED
    BY <1>1 DEF ReadiesOf

LEMMA QueuedReadies ==
  ASSUME NEW q \in Seq(Tasks), NEW s \in Seq(KeptEffects), NEW i \in ReadiesOf(q \o s)
  PROVE  i \in ReadiesOf(q) /\ (q \o s)[i] = q[i]
  <1>1. s \in Seq(Tasks) /\ Len(q) \in Nat /\ Len(s) \in Nat
    BY EffectsAreTasks, LenProperties
  <1>2. /\ Len(q \o s) = Len(q) + Len(s)
        /\ (q \o s)[i] = IF i <= Len(q) THEN q[i] ELSE s[i - Len(q)]
    BY <1>1, ConcatProperties DEF ReadiesOf
  <1>3. ASSUME ~(i <= Len(q)) PROVE FALSE
    <2>1. i - Len(q) \in 1 .. Len(s)
      BY <1>1, <1>2, <1>3 DEF ReadiesOf
    <2>2. s[i - Len(q)] \in KeptEffects
      BY <2>1, ElementOfSeq
    <2> QED
      BY <1>2, <1>3, <2>2 DEF ReadiesOf, KeptEffects, PlugEffects, UnplugEffects
  <1> QED
    BY <1>1, <1>2, <1>3 DEF ReadiesOf

(* The effects of a startup take the place of its task. *)
LEMMA PublishedReadies ==
  ASSUME NEW q \in Seq(Tasks), q # << >>, NEW s \in Seq(KeptEffects),
         NEW i \in ReadiesOf(s \o Tail(q))
  PROVE  \E j \in ReadiesOf(q) : j > 1 /\ (s \o Tail(q))[i] = q[j]
  <1>1. s \in Seq(Tasks) /\ Len(q) \in Nat /\ Len(s) \in Nat
        /\ Tail(q) \in Seq(Tasks) /\ Len(Tail(q)) = Len(q) - 1
    BY EffectsAreTasks, LenProperties, HeadTailProperties
  <1>2. /\ Len(s \o Tail(q)) = Len(s) + Len(Tail(q))
        /\ (s \o Tail(q))[i] = IF i <= Len(s) THEN s[i] ELSE Tail(q)[i - Len(s)]
    BY <1>1, ConcatProperties DEF ReadiesOf
  <1>3. ASSUME i <= Len(s) PROVE FALSE
    <2>1. i \in 1 .. Len(s)
      BY <1>1, <1>2, <1>3 DEF ReadiesOf
    <2>2. s[i] \in KeptEffects
      BY <2>1, ElementOfSeq
    <2> QED
      BY <1>2, <1>3, <2>2 DEF ReadiesOf, KeptEffects, PlugEffects, UnplugEffects
  <1>4. i - Len(s) \in ReadiesOf(Tail(q))
    BY <1>1, <1>2, <1>3 DEF ReadiesOf
  <1>5. /\ i - Len(s) + 1 \in ReadiesOf(q) /\ i - Len(s) \in Nat
        /\ Tail(q)[i - Len(s)] = q[i - Len(s) + 1]
    BY <1>4, PoppedReadies
  <1>6. i - Len(s) # 0
    BY <1>4 DEF ReadiesOf
  <1>7. i - Len(s) + 1 > 1
    BY <1>5, <1>6
  <1> QED
    BY <1>2, <1>3, <1>5, <1>7

(* A queue whose ready tasks were there before, in the same order. *)
LEMMA PoppedKeeps ==
  ASSUME OneBringUp, queue \in Seq(Tasks), queue # << >>, queue' = Tail(queue),
         UNCHANGED <<epoch, adapter, pnp>>
  PROVE  OneBringUp'
  <1>1. \A i \in ReadiesOf(queue') : /\ i + 1 \in ReadiesOf(queue) /\ i \in Nat
                                     /\ queue'[i] = queue[i + 1]
    BY PoppedReadies
  <1>2. \A i, j \in ReadiesOf(queue') : i < j => i + 1 < j + 1
    BY <1>1
  <1> QED
    BY <1>1, <1>2 DEF OneBringUp

LEMMA BringUpInit == Init => BringUpInv
  <1> SUFFICES ASSUME Init PROVE BringUpInv
    OBVIOUS
  <1>1. ReadiesOf(queue) = {}
    BY DEF Init, ReadiesOf
  <1> QED
    BY <1>1 DEF Init, BringUpInv, OneBringUp

(* What a worker's step and the device do to it *)
LEMMA BringUpWorker ==
  ASSUME IInv, BringUpInv, Worker
  PROVE  BringUpInv'
  <1> USE DEF BringUpInv
  <1>0. queue \in Seq(Tasks)
    BY DEF IInv, WorkerInv
  <1>1. CASE DropPlug \/ EndPlug \/ ApplyUnplug \/ ApplyPersist \/ StaleReady
    <2>1. queue # << >> /\ queue' = Tail(queue) /\ wpc' = "idle" /\ UNCHANGED shellVars
      BY <1>1 DEF DropPlug, EndPlug, ApplyUnplug, ApplyPersist, StaleReady, AtHead,
                  workerVars, IInv, WorkerInv
    <2>2. UNCHANGED <<epoch, adapter, pnp, mark>>
      BY <2>1 DEF shellVars
    <2>3. OneBringUp'
      BY <1>0, <2>1, <2>2, PoppedKeeps
    <2> QED
      BY <2>1, <2>2, <2>3
  <1>2. CASE StartPlug
    BY <1>2 DEF StartPlug, OneBringUp, shellVars
  <1>3. CASE Startup
    <2>1. 1 \in ReadiesOf(queue) /\ queue[1] = Head(queue)
      <3>1. queue # << >> /\ Head(queue).kind = "ready"
        BY <1>3 DEF Startup, AtHead
      <3>2. Len(queue) \in Nat \ {0}
        BY <1>0, <3>1, EmptySeq, LenProperties
      <3> QED
        BY <1>0, <3>1, <3>2 DEF ReadiesOf
    <2>2. ~adapter
      BY <1>3, <2>1 DEF Startup, OneBringUp
    <2> QED
      BY <1>3, <2>2 DEF Startup, OneBringUp, shellVars
  <1>4. CASE Publish
    <2>1. queue # << >> /\ Head(queue).kind = "ready" /\ ~adapter
      BY <1>4 DEF Publish, IInv, WorkerInv, AtHead
    <2>2. 1 \in ReadiesOf(queue) /\ queue[1] = Head(queue)
      <3>1. Len(queue) \in Nat \ {0}
        BY <1>0, <2>1, EmptySeq, LenProperties
      <3> QED
        BY <1>0, <2>1, <3>1 DEF ReadiesOf
    <2>3. wpc' = "idle" /\ UNCHANGED <<epoch, pnp, mark>>
      BY <1>4 DEF Publish
    <2>4. ASSUME Head(queue).epoch = epoch, adapter' = TRUE,
                 queue' = bringUp \o Tail(queue)
          PROVE  BringUpInv'
      <3>1. \A i \in ReadiesOf(queue') :
              \E j \in ReadiesOf(queue) : j > 1 /\ queue'[i] = queue[j]
        BY <1>0, <2>1, <2>4, PublishedReadies DEF IInv, WorkerInv
      <3>2. \A j \in ReadiesOf(queue) : ~(j > 1)
        <4> SUFFICES ASSUME NEW j \in ReadiesOf(queue), j > 1 PROVE FALSE
          OBVIOUS
        <4>1. queue[1].epoch < queue[j].epoch /\ queue[j].epoch <= epoch
          BY <2>2 DEF OneBringUp
        <4>2. queue[j] \in ReadyTasks
          <5>1. queue[j] \in Tasks /\ queue[j].kind = "ready"
            BY <1>0, ElementOfSeq DEF ReadiesOf
          <5> QED
            BY <5>1 DEF Tasks, KeptEffects, PlugEffects, UnplugEffects
        <4> QED
          BY <2>2, <2>4, <4>1, <4>2 DEF ReadyTasks, IInv, ShellInv
      <3>3. pnp = "up"
        BY <2>2, <2>4 DEF OneBringUp
      <3> QED
        BY <2>3, <2>4, <3>1, <3>2, <3>3 DEF OneBringUp
    <2>5. ASSUME queue' = Tail(queue), UNCHANGED adapter
          PROVE  BringUpInv'
      <3>1. OneBringUp'
        BY <1>0, <2>1, <2>3, <2>5, PoppedKeeps
      <3> QED
        BY <2>3, <2>5, <3>1
    <2> QED
      BY <1>4, <2>4, <2>5 DEF Publish
  <1> QED
    BY <1>1, <1>2, <1>3, <1>4 DEF Worker

LEMMA BringUpDevice ==
  ASSUME IInv, BringUpInv, Device
  PROVE  BringUpInv'
  <1> USE DEF BringUpInv
  <1>0. queue \in Seq(Tasks) /\ epoch \in Nat
    BY DEF IInv, WorkerInv, ShellInv
  <1>e. \A i \in ReadiesOf(queue) : queue[i].epoch \in Nat
    <2> SUFFICES ASSUME NEW i \in ReadiesOf(queue) PROVE queue[i].epoch \in Nat
      OBVIOUS
    <2>1. queue[i] \in Tasks /\ queue[i].kind = "ready"
      BY <1>0, ElementOfSeq DEF ReadiesOf
    <2> QED
      BY <2>1 DEF Tasks, KeptEffects, PlugEffects, UnplugEffects, ReadyTasks
  <1>1. CASE DeviceAdd
    <2>1. pnp = "absent" /\ pnp' = "starting" /\ mark' = epoch
          /\ UNCHANGED <<adapter, epoch, queue, workerVars>>
      BY <1>1 DEF DeviceAdd
    <2>2. ~adapter
      BY <2>1
    <2> QED
      BY <2>1, <2>2 DEF OneBringUp, workerVars
  <1>2. CASE AdapterInitFinished
    <2> DEFINE task == [kind |-> "ready", epoch |-> mark]
    <2>1. pnp = "starting" /\ pnp' = "up" /\ queue' = Append(queue, task)
          /\ mark = epoch /\ ~adapter
          /\ UNCHANGED <<workerVars, adapter, epoch, mark>>
      BY <1>2 DEF AdapterInitFinished
    <2>2. task \in Tasks /\ Len(queue) \in Nat
      BY <1>0, LenProperties DEF Tasks, ReadyTasks, IInv, ShellInv
    <2>3. \A i \in ReadiesOf(queue') :
            \/ i \in ReadiesOf(queue) /\ queue'[i] = queue[i] /\ i <= Len(queue)
            \/ i = Len(queue) + 1 /\ queue'[i] = task
      BY <1>0, <2>1, <2>2 DEF ReadiesOf
    <2>4. \A i \in ReadiesOf(queue) : queue[i].epoch < epoch
      BY <1>0, <1>e, <2>1 DEF OneBringUp
    <2>5. task.epoch = epoch
      BY <2>1
    <2> HIDE DEF task
    <2>6. \A i, j \in ReadiesOf(queue') : i < j => queue'[i].epoch < queue'[j].epoch
      BY <2>2, <2>3, <2>4, <2>5 DEF OneBringUp, ReadiesOf
    <2>7. \A i \in ReadiesOf(queue') : queue'[i].epoch <= epoch
      BY <1>0, <2>3, <2>5 DEF OneBringUp
    <2> QED
      BY <2>1, <2>6, <2>7 DEF OneBringUp, workerVars
  <1>3. CASE FinalExit
    <2>1. pnp' = "cleared" /\ ~adapter' /\ epoch' = epoch + 1
          /\ UNCHANGED <<queue, mark>>
      BY <1>3, Zenon DEF FinalExit
    <2>2. \A i \in ReadiesOf(queue) : queue[i].epoch <= epoch + 1 /\ queue[i].epoch # epoch + 1
      BY <1>0, <1>e DEF OneBringUp
    <2> QED
      BY <2>1, <2>2 DEF OneBringUp
  <1>4. CASE DrainMonitors
    BY <1>4 DEF DrainMonitors, OneBringUp, workerVars
  <1>5. CASE TeardownReset
    BY <1>5 DEF TeardownReset, OneBringUp, workerVars
  <1> QED
    BY <1>1, <1>2, <1>3, <1>4, <1>5 DEF Device

LEMMA BringUpStep ==
  ASSUME IInv, BringUpInv, [Next]_vars
  PROVE  BringUpInv'
  <1> USE DEF BringUpInv
  <1>1. ASSUME UNCHANGED <<queue, wpc, shellVars>> PROVE BringUpInv'
    BY <1>1 DEF OneBringUp, shellVars
  <1>2. ASSUME HostRequest("ioctl") \/ (\E s \in HostSessions : Ping(s))
                 \/ (\E m \in monitors : LeaseRunsOut(m)) \/ WatchdogTick
        PROVE  UNCHANGED <<queue, wpc, shellVars>>
    BY <1>2 DEF HostRequest, HostCreate, HostDestroy, SetPool, Ping, LeaseRunsOut,
                WatchdogTick, workerVars
  <1>3. ASSUME NEW c \in Callers, QueueEffects(c) PROVE BringUpInv'
    <2>1. queue' = queue \o held[c] /\ UNCHANGED <<wpc, adapter, epoch, pnp, mark>>
      BY <1>3 DEF QueueEffects, workerVars, shellVars
    <2>2. queue \in Seq(Tasks) /\ held[c] \in Seq(KeptEffects)
      BY DEF IInv, WorkerInv
    <2>3. \A i \in ReadiesOf(queue') : i \in ReadiesOf(queue) /\ queue'[i] = queue[i]
      BY <2>1, <2>2, QueuedReadies
    <2> QED
      BY <2>1, <2>3 DEF OneBringUp
  <1>4. CASE GrowPool
    BY <1>1, <1>4 DEF GrowPool, workerVars
  <1>5. CASE FinishPool
    <2>1. UNCHANGED <<queue, adapter, epoch, pnp, mark>>
      BY <1>5 DEF FinishPool, shellVars
    <2>2. wpc' = wpc \/ wpc = "startup"
      BY <1>5 DEF FinishPool, IInv, WorkerInv
    <2>3. wpc' \in {"startup", "publish"} => ~adapter
      BY <2>2
    <2> QED
      BY <2>1, <2>3 DEF OneBringUp
  <1>6. CASE Restart
    <2>1. ReadiesOf(queue') = {}
      BY <1>6 DEF Restart, ReadiesOf
    <2> QED
      BY <1>6, <2>1 DEF Restart, OneBringUp
  <1>7. CASE UNCHANGED vars
    BY <1>1, <1>7 DEF vars, workerVars
  <1> QED
    BY <1>1, <1>2, <1>3, <1>4, <1>5, <1>6, <1>7, BringUpWorker, BringUpDevice DEF Next

-----------------------------------------------------------------------------
(***************************************************************************)
(* The pool the driver reports exists.  Members are created and counted in  *)
(* order, and between a startup and the publication of its adapter nothing  *)
(* but the exit of its device takes them away.                              *)
(***************************************************************************)
Launching == wpc \in {"startup", "publish"} /\ Head(queue).epoch = epoch
Exist(n) == \A i \in 0 .. n - 1 : PoolSession(i) \in Live

MembersInv ==
  /\ \A m \in monitors : m.session \in PoolSessions => ~m.leased /\ ~m.stale
  /\ \A g \in growth : /\ Exist(g.created)
                       /\ g.next < g.desired.count => Exist(g.next)
  /\ growth = {} /\ (adapter \/ Launching) => Exist(pool.count)

LEMMA ExistsStill ==
  ASSUME NEW n, Exist(n), Live \subseteq Live'
  PROVE  Exist(n)'
  BY DEF Exist

(* Creating a monitor adds a session to those that live. *)
LEMMA Joined ==
  ASSUME NEW s, NEW d, NEW leased, NEW c, Create(s, d, leased, c)
  PROVE  /\ Live' = Live \cup {s}
         /\ \A m \in monitors' \ monitors : m.session = s /\ m.leased = leased /\ ~m.stale
  <1> DEFINE new == [session |-> s, display |-> d, ephemeral |-> d >= EphemeralBase,
                     connector |-> c, leased |-> leased, stale |-> FALSE]
  <1>1. monitors' = monitors \cup {new}
    BY DEF Create
  <1>2. new.session = s /\ new.leased = leased /\ new.stale = FALSE
    OBVIOUS
  <1> HIDE DEF new
  <1> QED
    BY <1>1, <1>2 DEF Live

(* A member index below the count of a pool is one of PoolIndices. *)
LEMMA MemberSession ==
  ASSUME NEW p \in Pools, NEW i \in Nat, i < p.count
  PROVE  PoolSession(i) \in PoolSessions
  <1>1. p.count \in 0 .. MaxPool
    BY DEF Pools
  <1>2. i \in PoolIndices
    BY <1>1, LimitsAssumption DEF PoolIndices
  <1> QED
    BY <1>2 DEF PoolSessions

LEMMA MemberSessions ==
  ASSUME NEW p \in Pools
  PROVE  \A i \in 0 .. p.count - 1 : PoolSession(i) \in PoolSessions
  <1>1. p.count \in Nat
    BY LimitsAssumption DEF Pools
  <1>2. \A i \in 0 .. p.count - 1 : i \in Nat /\ i < p.count
    BY <1>1
  <1> QED
    BY <1>2, MemberSession

LEMMA MembersInit == Init => MembersInv
  <1> SUFFICES ASSUME Init PROVE MembersInv
    OBVIOUS
  <1>1. monitors = {} /\ growth = {} /\ ~adapter /\ wpc = "idle"
    BY DEF Init
  <1> QED
    BY <1>1 DEF MembersInv, Launching

(* Monitors that are none of the pool's leave. *)
LEMMA MembersLeave ==
  ASSUME IInv, MembersInv, growth = {}, NEW gone, monitors' = monitors \ gone,
         \A m \in gone : m.session \notin PoolSessions,
         UNCHANGED <<growth, pool, adapter, epoch, wpc, queue>>
  PROVE  MembersInv'
  <1> USE DEF MembersInv
  <1>1. growth' = {} /\ (adapter' \/ Launching' => adapter \/ Launching)
    BY DEF Launching
  <1>2. Exist(pool.count) => Exist(pool.count)'
    <2> SUFFICES ASSUME Exist(pool.count), NEW i \in 0 .. pool.count - 1
                 PROVE  PoolSession(i) \in Live'
      BY DEF Exist
    <2>1. PoolSession(i) \in PoolSessions
      BY MemberSessions DEF IInv, GrowthInv
    <2>2. PICK m \in monitors : m.session = PoolSession(i)
      BY DEF Exist, Live
    <2>3. m \in monitors'
      BY <2>1, <2>2
    <2> QED
      BY <2>2, <2>3 DEF Live
  <1> QED
    BY <1>1, <1>2

(* A step that keeps the live sessions, the pool and the bring-up *)
LEMMA MembersStay ==
  ASSUME MembersInv, Live \subseteq Live',
         \A m \in monitors' : m.session \in PoolSessions => ~m.leased /\ ~m.stale,
         UNCHANGED <<growth, pool>>, adapter' \/ Launching' => adapter \/ Launching
  PROVE  MembersInv'
  <1> USE DEF MembersInv
  <1>1. \A n : Exist(n) => Exist(n)'
    BY ExistsStill
  <1>2. \A g \in growth' : /\ Exist(g.created)'
                           /\ g.next < g.desired.count => Exist(g.next)'
    BY <1>1
  <1>3. growth' = {} /\ (adapter' \/ Launching') => Exist(pool.count)'
    BY <1>1
  <1> QED
    BY <1>2, <1>3

LEMMA MembersHost ==
  ASSUME HostSessions \cap PoolSessions = {}, IInv, MembersInv, NEW c \in Callers,
         NEW s \in HostSessions
  PROVE  /\ \A d \in Displays \cup {EphemeralId(s)}, leased \in BOOLEAN :
              HostCreate(c, s, d, leased) => MembersInv'
         /\ HostDestroy(c, s) => MembersInv'
         /\ Ping(s) => MembersInv'
  <1>0. s \notin PoolSessions
    OBVIOUS
  <1>1. ASSUME NEW d \in Displays \cup {EphemeralId(s)}, NEW leased \in BOOLEAN,
               HostCreate(c, s, d, leased)
        PROVE  MembersInv'
    <2>1. PICK conn \in Connectors : Create(s, d, leased, conn)
      BY <1>1 DEF HostCreate
    <2>2. Live \subseteq Live' /\ \A m \in monitors' \ monitors : m.session = s
      BY <2>1, Joined
    <2>3. UNCHANGED <<growth, pool, adapter, epoch, wpc, queue>>
      BY <1>1 DEF HostCreate, workerVars, shellVars
    <2> QED
      BY <1>0, <2>2, <2>3, MembersStay DEF MembersInv, Launching
  <1>2. ASSUME HostDestroy(c, s) PROVE MembersInv'
    <2>1. /\ growth = {} /\ monitors' = monitors \ {m \in monitors : m.session = s}
          /\ UNCHANGED <<growth, pool, adapter, epoch, wpc, queue>>
      BY <1>2 DEF HostDestroy, Remove, MayDispatch, Unlocked, workerVars, shellVars
    <2> QED
      BY <1>0, <2>1, MembersLeave
  <1>3. ASSUME Ping(s) PROVE MembersInv'
    <2> DEFINE pinged(m) == IF m.session = s THEN [m EXCEPT !.stale = FALSE] ELSE m
    <2>1. monitors' = {pinged(m) : m \in monitors}
      BY <1>3 DEF Ping
    <2>2. \A m \in monitors : pinged(m).session = m.session /\ (m.session # s => pinged(m) = m)
      BY DEF IInv, TableInv, Monitors
    <2>3. UNCHANGED <<growth, pool, adapter, epoch, wpc, queue>>
      BY <1>3 DEF Ping, workerVars, shellVars
    <2> HIDE DEF pinged
    <2>4. Live \subseteq Live'
      BY <2>1, <2>2 DEF Live
    <2>5. \A m \in monitors' : m.session \in PoolSessions => ~m.leased /\ ~m.stale
      BY <1>0, <2>1, <2>2 DEF MembersInv
    <2> QED
      BY <2>3, <2>4, <2>5, MembersStay DEF Launching
  <1> QED
    BY <1>1, <1>2, <1>3

(* Only leased monitors go stale, and only stale ones expire. *)
LEMMA MembersLease ==
  ASSUME IInv, MembersInv,
         (\E m \in monitors : LeaseRunsOut(m)) \/ WatchdogTick
  PROVE  MembersInv'
  <1>1. ASSUME NEW m \in monitors, LeaseRunsOut(m) PROVE MembersInv'
    <2> DEFINE late == [m EXCEPT !.stale = TRUE]
    <2>1. m.leased /\ monitors' = (monitors \ {m}) \cup {late}
      BY <1>1 DEF LeaseRunsOut
    <2>2. late.session = m.session
      BY DEF IInv, TableInv, Monitors
    <2>3. UNCHANGED <<growth, pool, adapter, epoch, wpc, queue>>
      BY <1>1 DEF LeaseRunsOut, workerVars, shellVars
    <2> HIDE DEF late
    <2>4. Live \subseteq Live'
      BY <2>1, <2>2 DEF Live
    <2>5. \A n \in monitors' : n.session \in PoolSessions => ~n.leased /\ ~n.stale
      BY <2>1, <2>2 DEF MembersInv
    <2> QED
      BY <2>3, <2>4, <2>5, MembersStay DEF Launching
  <1>2. ASSUME WatchdogTick PROVE MembersInv'
    <2>1. /\ growth = {} /\ monitors' = monitors \ Expired
          /\ UNCHANGED <<growth, pool, adapter, epoch, wpc, queue>>
      BY <1>2 DEF WatchdogTick, Remove, MayDispatch, Unlocked, workerVars, shellVars
    <2>2. \A m \in Expired : m.session \notin PoolSessions
      BY DEF Expired, MembersInv
    <2> QED
      BY <2>1, <2>2, MembersLeave
  <1> QED
    BY <1>1, <1>2

(* SET_PERMANENT_POOL keeps the members below the new count, and counts on from
   them, unless the settings changed. *)
LEMMA MembersSetPool ==
  ASSUME IInv, MembersInv, NEW c \in Callers,
         NEW desired \in [count : 0 .. MaxPool, settings : Settings],
         SetPool(c, desired)
  PROVE  MembersInv'
  <1> DEFINE gone == {m \in monitors :
                       \E i \in ToDestroy(desired) : m.session = PoolSession(i)}
  <1>0. PICK kept : kept = FirstNew(desired)
    OBVIOUS
  <1>1. PICK g :
          /\ adapter /\ growth = {} /\ monitors' = monitors \ gone /\ growth' = {g}
          /\ g.desired = desired /\ g.next = kept
          /\ g.created = IF kept >= desired.count THEN desired.count ELSE 0
    <2> DEFINE h == [by |-> c, desired |-> desired, next |-> FirstNew(desired),
                     created |-> IF FirstNew(desired) >= desired.count
                                 THEN desired.count ELSE 0,
                     effects |-> IF gone = {} THEN << >>
                                 ELSE << Unplug({m.session : m \in gone}) >>]
    <2>1. adapter /\ growth = {} /\ monitors' = monitors \ gone /\ growth' = {h}
      BY DEF SetPool, MayDispatch, Unlocked, Remove
    <2>2. /\ h.desired = desired /\ h.next = kept
          /\ h.created = IF kept >= desired.count THEN desired.count ELSE 0
      BY <1>0
    <2> HIDE DEF h, gone
    <2> QED
      BY <2>1, <2>2
  <1>2. Exist(pool.count)
    BY <1>1 DEF MembersInv
  <1>3. desired.count \in Nat /\ pool.count \in Nat
    BY LimitsAssumption DEF IInv, GrowthInv, Pools
  <1>5. kept \in Nat
    BY <1>0, <1>3 DEF FirstNew
  <1>4. ASSUME NEW n \in Nat, n <= desired.count, n <= kept PROVE Exist(n)'
    <2> SUFFICES ASSUME NEW i \in 0 .. n - 1 PROVE PoolSession(i) \in Live'
      BY DEF Exist
    <2>1. pool.settings = desired.settings /\ i \in 0 .. pool.count - 1 /\ i < desired.count
      BY <1>0, <1>3, <1>4 DEF FirstNew
    <2>2. PICK m \in monitors : m.session = PoolSession(i)
      BY <1>2, <2>1 DEF Exist, Live
    <2>3. m \notin gone
      <3> SUFFICES ASSUME NEW j \in ToDestroy(desired), PoolSession(i) = PoolSession(j)
                   PROVE  FALSE
        BY <2>2
      <3>1. desired.count <= j /\ j \in Int
        BY <1>3, <2>1 DEF ToDestroy
      <3> QED
        BY <1>3, <2>1, <3>1 DEF PoolSession, PermanentBase
    <2> QED
      BY <1>1, <2>2, <2>3 DEF Live
  <1>7. Exist(0)'
    BY DEF Exist
  <1>8. Exist(g.created)' /\ (g.next < g.desired.count => Exist(g.next)')
    <2>1. CASE kept >= desired.count
      <3>1. Exist(desired.count)'
        BY <1>3, <1>4, <1>5, <2>1
      <3> QED
        BY <1>1, <1>3, <1>5, <2>1, <3>1
    <2>2. CASE ~(kept >= desired.count)
      <3>1. Exist(kept)'
        BY <1>3, <1>4, <1>5, <2>2
      <3> QED
        BY <1>1, <1>7, <2>2, <3>1
    <2> QED
      BY <2>1, <2>2
  <1>9. \A m \in monitors' : m.session \in PoolSessions => ~m.leased /\ ~m.stale
    BY <1>1 DEF MembersInv
  <1> QED
    BY <1>1, <1>8, <1>9 DEF MembersInv

LEMMA MembersGrow ==
  ASSUME IInv, MembersInv, GrowPool
  PROVE  MembersInv'
  <1>1. PICK g \in growth :
          /\ g.next < g.desired.count
          /\ \/ \E conn \in Connectors :
                  /\ Create(PoolSession(g.next), PermanentId(g.next), FALSE, conn)
                  /\ growth' = {[g EXCEPT !.next = @ + 1, !.created = g.next + 1,
                                 !.effects = Append(@, Plug(PoolSession(g.next), conn))]}
             \/ /\ growth' = {[g EXCEPT !.next = g.desired.count]}
                /\ UNCHANGED tableVars
    BY DEF GrowPool
  <1>2. g \in [by : Callers \cup {"worker"}, desired : Pools, next : Nat,
               created : Nat, effects : Seq(KeptEffects)]
        /\ g.desired.count \in Nat
    BY LimitsAssumption DEF IInv, GrowthInv, Pools
  <1>3. Exist(g.created) /\ Exist(g.next)
    BY <1>1 DEF MembersInv
  <1>n. PICK next \in Nat : next = g.next
    BY <1>2
  <1>4. ASSUME NEW conn \in Connectors,
               Create(PoolSession(g.next), PermanentId(g.next), FALSE, conn),
               growth' = {[g EXCEPT !.next = @ + 1, !.created = g.next + 1,
                            !.effects = Append(@, Plug(PoolSession(g.next), conn))]}
        PROVE  MembersInv'
    <2> DEFINE longer == Append(g.effects, Plug(PoolSession(g.next), conn))
               h == [g EXCEPT !.next = g.next + 1, !.created = g.next + 1,
                              !.effects = longer]
    <2>1. growth' = {h}
      BY <1>4
    <2>2. h.next = g.next + 1 /\ h.created = g.next + 1
      BY <1>2
    <2> HIDE DEF h
    <2>3. /\ Live' = Live \cup {PoolSession(g.next)}
          /\ \A m \in monitors' \ monitors : ~m.leased /\ ~m.stale
      BY <1>4, Joined
    <2>4. Exist(next + 1)'
      <3> SUFFICES ASSUME NEW i \in 0 .. next + 1 - 1 PROVE PoolSession(i) \in Live'
        BY DEF Exist
      <3>1. i \in 0 .. next - 1 \/ i = next
        OBVIOUS
      <3> QED
        BY <1>3, <1>n, <2>3, <3>1 DEF Exist
    <2> QED
      BY <1>n, <2>1, <2>2, <2>3, <2>4 DEF MembersInv
  <1>5. ASSUME growth' = {[g EXCEPT !.next = g.desired.count]}, UNCHANGED tableVars
        PROVE  MembersInv'
    <2> DEFINE h == [g EXCEPT !.next = g.desired.count]
    <2>1. h.created = g.created /\ h.next = g.desired.count /\ h.desired = g.desired
      BY <1>2
    <2>2. growth' = {h}
      BY <1>5
    <2> HIDE DEF h
    <2>3. monitors' = monitors /\ Live' = Live
      BY <1>5 DEF tableVars, Live
    <2>4. Exist(h.created)'
      BY <1>3, <2>1, <2>3 DEF Exist
    <2>5. ~(h.next < h.desired.count)
      BY <1>2, <2>1
    <2> QED
      BY <2>2, <2>3, <2>4, <2>5 DEF MembersInv
  <1> QED
    BY <1>1, <1>4, <1>5

LEMMA MembersFinish ==
  ASSUME IInv, MembersInv, FinishPool
  PROVE  MembersInv'
  <1>1. PICK g \in growth : pool' = GrownPool(g) /\ growth' = {} /\ UNCHANGED tableVars
    BY DEF FinishPool
  <1>2. g.created \in Nat /\ g.desired.count \in Nat /\ g.desired \in Pools
    BY LimitsAssumption DEF IInv, GrowthInv, Pools
  <1>3. pool'.count \in Nat /\ pool'.count <= g.created
    BY <1>1, <1>2 DEF GrownPool, Pools
  <1>4. monitors' = monitors /\ Live' = Live
    BY <1>1 DEF tableVars, Live
  <1>5. Exist(g.created)
    BY DEF MembersInv
  <1>6. \A i \in 0 .. pool'.count - 1 : i \in 0 .. g.created - 1
    BY <1>2, <1>3
  <1>7. Exist(pool.count)'
    BY <1>4, <1>5, <1>6 DEF Exist
  <1> QED
    BY <1>1, <1>4, <1>7 DEF MembersInv

LEMMA MembersWorker ==
  ASSUME IInv, BringUpInv, MembersInv, Worker
  PROVE  MembersInv'
  <1>0. \A m \in monitors : m.session \in PoolSessions => ~m.leased /\ ~m.stale
    BY DEF MembersInv
  <1>1. CASE DropPlug \/ StartPlug \/ EndPlug \/ ApplyUnplug \/ ApplyPersist \/ StaleReady
    <2>1. /\ UNCHANGED <<deviceVars, shellVars>> /\ wpc' \in {"idle", "plug"}
      BY <1>1 DEF DropPlug, StartPlug, EndPlug, ApplyUnplug, ApplyPersist, StaleReady,
                  workerVars
    <2>2. UNCHANGED <<growth, pool, monitors, adapter>> /\ ~Launching'
      BY <2>1 DEF deviceVars, tableVars, shellVars, Launching
    <2> QED
      BY <1>0, <2>2, MembersStay DEF Live
  <1>2. CASE Startup
    <2>1. UNCHANGED <<monitors, adapter>> /\ growth = {}
      BY <1>2 DEF Startup, Unlocked, tableVars, shellVars
    <2>2. Live' = Live
      BY <2>1 DEF Live
    <2>3. CASE pool.count > 0
      <3> DEFINE g == [by |-> "worker", desired |-> pool, next |-> 0, created |-> 0,
                       effects |-> << >>]
      <3>1. growth' = {g} /\ g.next = 0 /\ g.created = 0
        BY <1>2, <2>3 DEF Startup, IInv, GrowthInv, Pools
      <3> HIDE DEF g
      <3>2. Exist(0)'
        BY DEF Exist
      <3> QED
        BY <1>0, <2>1, <3>1, <3>2 DEF MembersInv
    <2>4. CASE ~(pool.count > 0)
      <3>1. pool'.count = 0 /\ growth' = {}
        <4>1. pool.count \in Nat
          BY LimitsAssumption DEF IInv, GrowthInv, Pools
        <4> QED
          BY <1>2, <2>1, <2>4, <4>1 DEF Startup
      <3>2. Exist(pool.count)'
        BY <3>1 DEF Exist
      <3> QED
        BY <1>0, <2>1, <3>1, <3>2 DEF MembersInv
    <2> QED
      BY <2>3, <2>4
  <1>3. CASE Publish
    <2>1. wpc = "publish" /\ wpc' = "idle" /\ ~adapter /\ UNCHANGED <<growth, pool>>
      BY <1>3 DEF Publish, BringUpInv
    <2>2. CASE Head(queue).epoch = epoch
      <3>1. Launching /\ monitors' = monitors
        BY <1>3, <2>1, <2>2 DEF Publish, Launching, tableVars
      <3> QED
        BY <1>0, <2>1, <3>1, MembersStay DEF Live
    <2>3. CASE Head(queue).epoch # epoch
      <3>1. growth = {} /\ monitors' = {} /\ adapter' = adapter
        BY <1>3, <2>3 DEF Publish, Unlocked, Remove
      <3> QED
        BY <2>1, <3>1 DEF MembersInv, Launching
    <2> QED
      BY <2>2, <2>3
  <1> QED
    BY <1>1, <1>2, <1>3 DEF Worker

LEMMA MembersDevice ==
  ASSUME IInv, BringUpInv, MembersInv, Device
  PROVE  MembersInv'
  <1>0. \A m \in monitors : m.session \in PoolSessions => ~m.leased /\ ~m.stale
    BY DEF MembersInv
  <1>h. wpc \in {"startup", "publish"} => Head(queue) = queue[1] /\ 1 \in ReadiesOf(queue)
    <2> SUFFICES ASSUME wpc \in {"startup", "publish"}
                 PROVE  Head(queue) = queue[1] /\ 1 \in ReadiesOf(queue)
      OBVIOUS
    <2>1. queue \in Seq(Tasks) /\ queue # << >> /\ Head(queue).kind = "ready"
      BY DEF IInv, WorkerInv, AtHead
    <2>2. Len(queue) \in Nat \ {0}
      BY <2>1, EmptySeq, LenProperties
    <2> QED
      BY <2>1, <2>2 DEF ReadiesOf
  <1>1. CASE DeviceAdd \/ DrainMonitors
    <2>1. UNCHANGED <<growth, pool, monitors, adapter, queue, wpc, epoch>>
      BY <1>1 DEF DeviceAdd, DrainMonitors, deviceVars, tableVars, workerVars
    <2> QED
      BY <1>0, <2>1, MembersStay DEF Live, Launching
  <1>2. CASE AdapterInitFinished
    <2>1. UNCHANGED <<growth, pool, monitors, adapter, wpc, epoch>>
          /\ queue' = Append(queue, [kind |-> "ready", epoch |-> mark])
      BY <1>2 DEF AdapterInitFinished, deviceVars, tableVars, workerVars
    <2>2. wpc \in {"startup", "publish"} => Head(queue') = Head(queue)
      <3>1. queue \in Seq(Tasks) /\ [kind |-> "ready", epoch |-> mark] \in Tasks
        BY DEF IInv, WorkerInv, ShellInv, Tasks, ReadyTasks
      <3>2. wpc \in {"startup", "publish"} => queue # << >>
        BY DEF IInv, WorkerInv, AtHead
      <3> QED
        BY <2>1, <3>1, <3>2
    <2> QED
      BY <1>0, <2>1, <2>2, MembersStay DEF Live, Launching
  <1>3. CASE FinalExit
    <2>1. UNCHANGED <<growth, pool, monitors, queue, wpc>> /\ ~adapter' /\ epoch' = epoch + 1
      BY <1>3, Zenon DEF FinalExit, deviceVars, tableVars, workerVars
    <2>2. ~Launching'
      <3> SUFFICES ASSUME wpc \in {"startup", "publish"} PROVE queue[1].epoch # epoch + 1
        BY <1>h, <2>1 DEF Launching
      <3>1. queue[1].epoch <= epoch
        BY <1>h DEF BringUpInv, OneBringUp
      <3>2. queue[1] \in ReadyTasks /\ epoch \in Nat
        <4>1. queue[1] \in Tasks /\ queue[1].kind = "ready"
          BY <1>h, ElementOfSeq DEF ReadiesOf, IInv, WorkerInv
        <4> QED
          BY <4>1 DEF Tasks, KeptEffects, PlugEffects, UnplugEffects, IInv, ShellInv
      <3> QED
        BY <3>1, <3>2 DEF ReadyTasks
    <2> QED
      BY <1>0, <2>1, <2>2, MembersStay DEF Live
  <1>4. CASE TeardownReset
    <2>1. pnp = "drained" /\ growth = {} /\ monitors' = {}
          /\ UNCHANGED <<growth, adapter, queue, wpc, epoch>>
      BY <1>4 DEF TeardownReset, Unlocked, Remove, workerVars
    <2>2. ~adapter
      BY <2>1 DEF BringUpInv
    <2>3. ~Launching
      <3> SUFFICES ASSUME Launching PROVE FALSE
        OBVIOUS
      <3>1. 1 \in ReadiesOf(queue) /\ queue[1].epoch = epoch
        BY <1>h DEF Launching
      <3>2. pnp = "up"
        BY <3>1 DEF BringUpInv, OneBringUp
      <3> QED
        BY <2>1, <3>2
    <2>4. ~Launching' /\ ~adapter'
      BY <2>1, <2>2, <2>3 DEF Launching
    <2> QED
      BY <2>1, <2>4 DEF MembersInv
  <1> QED
    BY <1>1, <1>2, <1>3, <1>4 DEF Device

LEMMA MembersStep ==
  ASSUME HostSessions \cap PoolSessions = {}, IInv, BringUpInv, MembersInv, [Next]_vars
  PROVE  MembersInv'
  <1>0. "ioctl" \in Callers
    BY DEF Callers
  <1>1. ASSUME HostRequest("ioctl") PROVE MembersInv'
    BY <1>0, <1>1, MembersHost, MembersSetPool DEF HostRequest
  <1>2. ASSUME NEW s \in HostSessions, Ping(s) PROVE MembersInv'
    BY <1>0, <1>2, MembersHost
  <1>3. ASSUME NEW c \in Callers, QueueEffects(c) PROVE MembersInv'
    <2>1. queue' = queue \o held[c]
          /\ UNCHANGED <<growth, pool, monitors, adapter, wpc, epoch>>
      BY <1>3 DEF QueueEffects, deviceVars, tableVars, workerVars, shellVars
    <2>2. wpc \in {"startup", "publish"} => Head(queue') = Head(queue)
      <3>1. queue \in Seq(Tasks) /\ held[c] \in Seq(Tasks)
        BY EffectsAreTasks DEF IInv, WorkerInv
      <3>2. wpc \in {"startup", "publish"} => queue # << >>
        BY DEF IInv, WorkerInv, AtHead
      <3> QED
        BY <2>1, <3>1, <3>2, AppendedHead
    <2>3. Launching' => Launching
      BY <2>1, <2>2 DEF Launching
    <2> QED
      BY <2>1, <2>3, MembersStay DEF Live, MembersInv
  <1>4. CASE Restart
    <2>1. monitors' = {} /\ growth' = {} /\ ~adapter' /\ wpc' = "idle"
      BY <1>4 DEF Restart
    <2> QED
      BY <2>1 DEF MembersInv, Launching
  <1>5. CASE UNCHANGED vars
    <2>1. UNCHANGED <<growth, pool, monitors, adapter, wpc, epoch, queue>>
      BY <1>5 DEF vars, deviceVars, tableVars, workerVars, shellVars
    <2> QED
      BY <2>1, MembersStay DEF Live, Launching, MembersInv
  <1> QED
    BY <1>1, <1>2, <1>3, <1>4, <1>5, MembersLease, MembersGrow, MembersFinish,
       MembersWorker, MembersDevice DEF Next

(* QUERY_PERMANENT_POOL (core/session.rs, apply_pool and startup) counts only
   members that exist, whether or not handlers overlap, creations fail or
   adapters are lost, as long as the host's own session ids are none of the
   pool's lease keys. *)
THEOREM PoolTruthful ==
  ASSUME HostSessions \cap PoolSessions = {}
  PROVE  Spec => []PoolIsTruthful
  <1> DEFINE Inv == IInv /\ BringUpInv /\ MembersInv
  <1>1. Init => Inv
    BY InvInit, BringUpInit, MembersInit
  <1>2. Inv /\ [Next]_vars => Inv'
    BY InvStep, BringUpStep, MembersStep
  <1>3. Inv => PoolIsTruthful
    BY DEF MembersInv, Exist, PoolIsTruthful, Unlocked
  <1> QED
    BY <1>1, <1>2, <1>3, PTL DEF Spec

-----------------------------------------------------------------------------
(***************************************************************************)
(* Handlers one after another.  When a handler's effects are queued before *)
(* the next one runs, at most one caller has any in hand, none is left     *)
(* when the adapter goes away, and nothing is queued behind the ready task *)
(* of the epoch in force.                                                  *)
(***************************************************************************)
SerialInv ==
  /\ held["ioctl"] = << >> \/ held["watchdog"] = << >>
  /\ growth = {} \/ \E g : growth = {g}
  /\ (\E g \in growth : g.by # "worker") => adapter /\ Settled
  /\ ~adapter => Settled
  /\ \A i \in ReadiesOf(queue) : queue[i].epoch = epoch => i = Len(queue)

LEMMA SerialInit == Init => SerialInv
  <1> SUFFICES ASSUME Init PROVE SerialInv
    OBVIOUS
  <1>1. ReadiesOf(queue) = {}
    BY DEF Init, ReadiesOf
  <1> QED
    BY <1>1 DEF Init, SerialInv, Settled, Callers

(* What the invariant says of a queue that only grew at its end by effects,
   lost its head, or stayed. *)
LEMMA SerialReadies ==
  ASSUME IInv, SerialInv, BringUpInv', UNCHANGED epoch,
         \/ adapter'
         \/ queue' = queue
         \/ queue # << >> /\ queue' = Tail(queue)
  PROVE  \A i \in ReadiesOf(queue') : queue'[i].epoch = epoch' => i = Len(queue')
  <1>0. queue \in Seq(Tasks)
    BY DEF IInv, WorkerInv
  <1>1. CASE adapter'
    BY <1>1 DEF BringUpInv, OneBringUp
  <1>2. CASE queue' = queue
    BY <1>2 DEF SerialInv
  <1>3. CASE queue # << >> /\ queue' = Tail(queue)
    <2>1. Len(Tail(queue)) = Len(queue) - 1 /\ Len(queue) \in Nat
      BY <1>0, <1>3, HeadTailProperties, LenProperties
    <2>2. \A i \in ReadiesOf(queue') : /\ i + 1 \in ReadiesOf(queue) /\ i \in Nat
                                       /\ queue'[i] = queue[i + 1]
      BY <1>0, <1>3, PoppedReadies
    <2> SUFFICES ASSUME NEW i \in ReadiesOf(queue'), queue'[i].epoch = epoch
                 PROVE  i = Len(queue')
      OBVIOUS
    <2>3. i + 1 = Len(queue) /\ i \in Nat
      BY <2>2 DEF SerialInv
    <2>4. Len(queue') = Len(queue) - 1
      BY <1>3, <2>1, Zenon
    <2> QED
      BY <2>1, <2>3, <2>4
  <1> QED
    BY <1>1, <1>2, <1>3

(* A handler finds nothing in hand. *)
LEMMA SerialHandler ==
  ASSUME Serial, IInv, SerialInv, BringUpInv', NEW c \in Callers, MayDispatch(c),
         UNCHANGED <<queue, adapter, epoch>>,
         \/ growth' = growth /\ \E effects : Decide(c, effects)
         \/ UNCHANGED held /\ \E g : growth' = {g}
  PROVE  SerialInv'
  <1>1. adapter /\ growth = {} /\ held["ioctl"] = << >> /\ held["watchdog"] = << >>
    BY DEF MayDispatch, Unlocked, Settled, Callers
  <1>2. \A i \in ReadiesOf(queue') : queue'[i].epoch = epoch' => i = Len(queue')
    BY SerialReadies
  <1>3. CASE growth' = growth /\ \E effects : Decide(c, effects)
    <2>1. held'["ioctl"] = << >> \/ held'["watchdog"] = << >>
      <3>1. PICK effects : held' = [held EXCEPT ![c] = effects]
        BY <1>3 DEF Decide
      <3>2. CASE c = "ioctl"
        BY <1>1, <3>1, <3>2 DEF IInv, WorkerInv, Callers
      <3>3. CASE c = "watchdog"
        BY <1>1, <3>1, <3>3 DEF IInv, WorkerInv, Callers
      <3> QED
        BY <3>2, <3>3 DEF Callers
    <2> QED
      BY <1>1, <1>2, <1>3, <2>1 DEF SerialInv
  <1>4. CASE UNCHANGED held /\ \E g : growth' = {g}
    <2>1. Settled'
      BY <1>1, <1>4 DEF Settled, Callers
    <2> QED
      BY <1>1, <1>2, <1>4, <2>1 DEF SerialInv
  <1> QED
    BY <1>3, <1>4

LEMMA SerialStep ==
  ASSUME Serial, IInv, BringUpInv, BringUpInv', SerialInv, [Next]_vars
  PROVE  SerialInv'
  <1>0. "ioctl" \in Callers /\ "watchdog" \in Callers
    BY DEF Callers
  <1>q. queue \in Seq(Tasks)
    BY DEF IInv, WorkerInv
  <1>1. ASSUME HostRequest("ioctl") PROVE SerialInv'
    <2>1. ASSUME NEW s \in HostSessions, NEW d \in Displays \cup {EphemeralId(s)},
                 NEW leased \in BOOLEAN, HostCreate("ioctl", s, d, leased)
          PROVE  SerialInv'
      <3>1. /\ MayDispatch("ioctl") /\ UNCHANGED <<queue, adapter, epoch, growth>>
            /\ \E effects : Decide("ioctl", effects)
        BY <2>1 DEF HostCreate, shellVars
      <3> QED
        BY <1>0, <3>1, SerialHandler
    <2>2. ASSUME NEW s \in HostSessions, HostDestroy("ioctl", s)
          PROVE  SerialInv'
      <3>1. /\ MayDispatch("ioctl") /\ UNCHANGED <<queue, adapter, epoch, growth>>
            /\ \E effects : Decide("ioctl", effects)
        BY <2>2 DEF HostDestroy, shellVars
      <3> QED
        BY <1>0, <3>1, SerialHandler
    <2>3. ASSUME NEW desired \in [count : 0 .. MaxPool, settings : Settings],
                 SetPool("ioctl", desired)
          PROVE  SerialInv'
      <3>1. /\ MayDispatch("ioctl") /\ UNCHANGED <<queue, adapter, epoch, held>>
            /\ \E g : growth' = {g}
        BY <2>3 DEF SetPool, shellVars
      <3> QED
        BY <1>0, <3>1, SerialHandler
    <2> QED
      BY <1>1, <2>1, <2>2, <2>3 DEF HostRequest
  <1>2. CASE WatchdogTick
    <2>1. /\ MayDispatch("watchdog") /\ UNCHANGED <<queue, adapter, epoch, growth>>
          /\ \E effects : Decide("watchdog", effects)
      BY <1>2 DEF WatchdogTick, shellVars
    <2> QED
      BY <1>0, <2>1, SerialHandler
  <1>3. ASSUME UNCHANGED <<held, growth, adapter, epoch>>,
               queue' = queue \/ (queue # << >> /\ queue' = Tail(queue))
        PROVE  SerialInv'
    BY <1>3, SerialReadies DEF SerialInv, Settled
  <1>4. ASSUME (\E s \in HostSessions : Ping(s)) \/ (\E m \in monitors : LeaseRunsOut(m))
        PROVE  SerialInv'
    <2>1. UNCHANGED <<held, growth, adapter, epoch, queue>>
      BY <1>4 DEF Ping, LeaseRunsOut, shellVars
    <2> QED
      BY <1>3, <2>1
  <1>5. ASSUME NEW c \in Callers, QueueEffects(c) PROVE SerialInv'
    <2>1. /\ held[c] # << >> /\ held' = [held EXCEPT ![c] = << >>]
          /\ UNCHANGED <<growth, adapter, epoch>>
      BY <1>5 DEF QueueEffects, deviceVars, shellVars
    <2>2. adapter /\ \A g \in growth : g.by = "worker"
      BY <2>1 DEF SerialInv, Settled
    <2>3. held'["ioctl"] = << >> \/ held'["watchdog"] = << >>
      BY <2>1 DEF SerialInv, IInv, WorkerInv, Callers
    <2>4. \A i \in ReadiesOf(queue') : queue'[i].epoch = epoch' => i = Len(queue')
      BY <2>1, <2>2, SerialReadies
    <2> QED
      BY <2>1, <2>2, <2>3, <2>4 DEF SerialInv
  <1>6. CASE GrowPool
    <2>1. \E g \in growth : \E h : growth' = {h} /\ h.by = g.by
      <3>1. PICK g \in growth :
              \/ \E conn \in Connectors :
                   growth' = {[g EXCEPT !.next = @ + 1, !.created = g.next + 1,
                                 !.effects = Append(@, Plug(PoolSession(g.next), conn))]}
              \/ growth' = {[g EXCEPT !.next = g.desired.count]}
        BY <1>6 DEF GrowPool
      <3>2. g \in [by : Callers \cup {"worker"}, desired : Pools, next : Nat,
                   created : Nat, effects : Seq(KeptEffects)]
        BY DEF IInv, GrowthInv
      <3>3. ASSUME NEW conn \in Connectors,
                   growth' = {[g EXCEPT !.next = @ + 1, !.created = g.next + 1,
                                 !.effects = Append(@, Plug(PoolSession(g.next), conn))]}
            PROVE  \E h : growth' = {h} /\ h.by = g.by
        <4> DEFINE longer == Append(g.effects, Plug(PoolSession(g.next), conn))
                   k == [g EXCEPT !.next = g.next + 1, !.created = g.next + 1,
                                  !.effects = longer]
        <4>1. growth' = {k}
          BY <3>3
        <4> HIDE DEF longer
        <4>2. k.by = g.by
          BY <3>2
        <4> QED
          BY <4>1, <4>2
      <3>4. ASSUME growth' = {[g EXCEPT !.next = g.desired.count]}
            PROVE  \E h : growth' = {h} /\ h.by = g.by
        <4> DEFINE k == [g EXCEPT !.next = g.desired.count]
        <4>1. k.by = g.by
          BY <3>2
        <4> QED
          BY <3>4, <4>1
      <3> QED
        BY <3>1, <3>3, <3>4
    <2>2. UNCHANGED <<queue, adapter, epoch, held>>
      BY <1>6 DEF GrowPool, shellVars
    <2>3. \A i \in ReadiesOf(queue') : queue'[i].epoch = epoch' => i = Len(queue')
      BY <2>2, SerialReadies
    <2> QED
      BY <2>1, <2>2, <2>3 DEF SerialInv, Settled
  <1>7. CASE FinishPool
    <2>1. PICK g \in growth :
            /\ growth' = {} /\ UNCHANGED <<queue, adapter, epoch>>
            /\ \/ g.by # "worker" /\ \E effects : Decide(g.by, effects)
               \/ UNCHANGED held
      BY <1>7 DEF FinishPool, shellVars
    <2>2. \A i \in ReadiesOf(queue') : queue'[i].epoch = epoch' => i = Len(queue')
      BY <2>1, SerialReadies
    <2>3. CASE UNCHANGED held
      BY <2>1, <2>2, <2>3 DEF SerialInv, Settled
    <2>4. ASSUME g.by # "worker", NEW effects, Decide(g.by, effects) PROVE SerialInv'
      <3>1. adapter /\ held["ioctl"] = << >> /\ held["watchdog"] = << >>
        BY <2>4 DEF SerialInv, Settled, Callers
      <3>2. g.by \in Callers
        BY <2>4 DEF IInv, GrowthInv
      <3>3. held' = [held EXCEPT ![g.by] = effects] /\ held \in [Callers -> Seq(KeptEffects)]
        BY <2>4 DEF Decide, IInv, WorkerInv
      <3>4. held'["ioctl"] = << >> \/ held'["watchdog"] = << >>
        BY <3>1, <3>2, <3>3 DEF Callers
      <3> QED
        BY <2>1, <2>2, <3>1, <3>4 DEF SerialInv
    <2> QED
      BY <2>1, <2>3, <2>4
  <1>8. CASE DropPlug \/ StartPlug \/ EndPlug \/ ApplyUnplug \/ ApplyPersist \/ StaleReady
    <2>1. /\ UNCHANGED <<held, growth, adapter, epoch>>
          /\ queue' = queue \/ queue' = Tail(queue)
      BY <1>8 DEF DropPlug, StartPlug, EndPlug, ApplyUnplug, ApplyPersist, StaleReady,
                  deviceVars, shellVars
    <2>2. queue # << >>
      BY <1>8 DEF DropPlug, StartPlug, EndPlug, ApplyUnplug, ApplyPersist, StaleReady,
                  AtHead, IInv, WorkerInv
    <2> QED
      BY <1>3, <2>1, <2>2
  <1>9. CASE Startup
    <2>1. UNCHANGED <<queue, adapter, epoch, held>> /\ growth = {}
      BY <1>9 DEF Startup, shellVars, Unlocked
    <2>2. growth' = growth \/ \E h : growth' = {h} /\ h.by = "worker"
      <3>1. CASE pool.count > 0
        <4> DEFINE k == [by |-> "worker", desired |-> pool, next |-> 0, created |-> 0,
                         effects |-> << >>]
        <4>1. growth' = {k}
          BY <1>9, <3>1 DEF Startup, IInv, GrowthInv, Pools
        <4>2. k.by = "worker"
          OBVIOUS
        <4> QED
          BY <4>1, <4>2
      <3>2. CASE ~(pool.count > 0)
        BY <1>9, <3>2 DEF Startup
      <3> QED
        BY <3>1, <3>2
    <2>3. \A i \in ReadiesOf(queue') : queue'[i].epoch = epoch' => i = Len(queue')
      BY <2>1, SerialReadies
    <2> QED
      BY <2>1, <2>2, <2>3 DEF SerialInv, Settled
  <1>10. CASE Publish
    <2>1. UNCHANGED <<epoch, held, growth>> /\ ~adapter
          /\ (adapter' \/ (adapter' = adapter /\ queue' = Tail(queue)))
      <3>1. UNCHANGED <<epoch, held, growth>> /\ ~adapter
        BY <1>10 DEF Publish, BringUpInv
      <3>2. adapter' \/ (adapter' = adapter /\ queue' = Tail(queue))
        BY <1>10 DEF Publish
      <3> QED
        BY <3>1, <3>2
    <2>2. queue # << >>
      BY <1>10 DEF Publish, IInv, WorkerInv, AtHead
    <2>3. \A i \in ReadiesOf(queue') : queue'[i].epoch = epoch' => i = Len(queue')
      BY <2>1, <2>2, SerialReadies
    <2> QED
      BY <2>1, <2>3 DEF SerialInv, Settled
  <1>11. CASE DeviceAdd \/ DrainMonitors \/ TeardownReset
    <2>1. UNCHANGED <<held, growth, adapter, epoch, queue>>
      BY <1>11 DEF DeviceAdd, DrainMonitors, TeardownReset, deviceVars
    <2> QED
      BY <1>3, <2>1
  <1>12. CASE AdapterInitFinished
    <2> DEFINE task == [kind |-> "ready", epoch |-> mark]
    <2>1. pnp = "starting" /\ queue' = Append(queue, task)
          /\ UNCHANGED <<held, growth, adapter, epoch>>
      BY <1>12 DEF AdapterInitFinished, deviceVars
    <2>2. task \in Tasks /\ Len(queue) \in Nat
      BY <1>q, LenProperties DEF Tasks, ReadyTasks, IInv, ShellInv
    <2>3. \A i \in ReadiesOf(queue') :
            \/ i \in ReadiesOf(queue) /\ queue'[i] = queue[i]
            \/ i = Len(queue')
      BY <1>q, <2>1, <2>2 DEF ReadiesOf
    <2>4. \A i \in ReadiesOf(queue) : queue[i].epoch # epoch
      BY <2>1 DEF BringUpInv, OneBringUp
    <2> QED
      BY <2>1, <2>3, <2>4 DEF SerialInv, Settled
  <1>13. CASE FinalExit
    <2>1. /\ Settled /\ \A g \in growth : g.by = "worker"
          /\ epoch' = epoch + 1 /\ UNCHANGED <<queue, held, growth>>
      BY <1>13, Zenon DEF FinalExit, deviceVars
    <2>2. \A i \in ReadiesOf(queue) : queue[i].epoch # epoch + 1
      <3> SUFFICES ASSUME NEW i \in ReadiesOf(queue) PROVE queue[i].epoch # epoch + 1
        OBVIOUS
      <3>1. queue[i] \in Tasks /\ queue[i].kind = "ready" /\ epoch \in Nat
        BY <1>q, ElementOfSeq DEF ReadiesOf, IInv, ShellInv
      <3>2. queue[i].epoch \in Nat
        BY <3>1 DEF Tasks, KeptEffects, PlugEffects, UnplugEffects, ReadyTasks
      <3> QED
        BY <3>1, <3>2 DEF BringUpInv, OneBringUp
    <2> QED
      BY <2>1, <2>2 DEF SerialInv, Settled
  <1>14. CASE Restart
    <2>1. held'["ioctl"] = << >> /\ held'["watchdog"] = << >> /\ growth' = {}
          /\ ReadiesOf(queue') = {}
      BY <1>0, <1>14 DEF Restart, ReadiesOf
    <2> QED
      BY <2>1 DEF SerialInv, Settled, Callers
  <1>15. CASE UNCHANGED vars
    <2>1. UNCHANGED <<held, growth, adapter, epoch, queue>>
      BY <1>15 DEF vars, deviceVars, shellVars
    <2> QED
      BY <1>3, <2>1
  <1> QED
    BY <1>1, <1>2, <1>4, <1>5, <1>6, <1>7, <1>8, <1>9, <1>10, <1>11, <1>12, <1>13,
       <1>14, <1>15 DEF Next, Worker, Device

-----------------------------------------------------------------------------
(***************************************************************************)
(* A device starts with nothing of the one before: an empty table, and no  *)
(* monitor of its own epoch before its adapter is published.               *)
(***************************************************************************)
EmptyInv ==
  ~adapter /\ pnp \in {"absent", "starting", "up"} /\ ~Launching
    => monitors = {} /\ growth = {}

EpochInv ==
  /\ \A p \in plugged : p.epoch <= epoch /\ (p.epoch = epoch => adapter)
  /\ made <= epoch
  /\ wpc = "plug" => (made = epoch <=> adapter)
  /\ wpc # "publish" => bringUp = << >>

LEMMA LaunchingStays ==
  ASSUME IInv, UNCHANGED <<epoch, wpc>>,
         queue' = queue \/ \E s \in Seq(Tasks) : queue' = queue \o s
  PROVE  Launching' <=> Launching
  <1>1. ASSUME wpc \in {"startup", "publish"} PROVE Head(queue') = Head(queue)
    <2>1. queue # << >> /\ queue \in Seq(Tasks)
      BY <1>1 DEF IInv, WorkerInv, AtHead
    <2> QED
      BY <2>1, AppendedHead
  <1> QED
    BY <1>1 DEF Launching

LEMMA AppendQueues ==
  ASSUME NEW q \in Seq(Tasks), NEW task \in Tasks
  PROVE  \E s \in Seq(Tasks) : Append(q, task) = q \o s
  <1>1. << task >> \in Seq(Tasks) /\ Append(q, task) = q \o << task >>
    BY AppendIsConcat
  <1> QED
    BY <1>1

LEMMA EmptyInit == Init => EmptyInv /\ EpochInv
  BY DEF Init, EmptyInv, EpochInv

LEMMA EmptyStep ==
  ASSUME Serial, IInv, BringUpInv, SerialInv, EmptyInv, [Next]_vars
  PROVE  EmptyInv'
  <1> USE DEF EmptyInv
  <1>1. ASSUME MayDispatch("ioctl") \/ MayDispatch("watchdog"), UNCHANGED adapter
        PROVE  EmptyInv'
    BY <1>1 DEF MayDispatch
  <1>2. ASSUME HostRequest("ioctl") \/ WatchdogTick PROVE EmptyInv'
    <2>1. MayDispatch("ioctl") \/ MayDispatch("watchdog")
      BY <1>2 DEF HostRequest, HostCreate, HostDestroy, SetPool, WatchdogTick
    <2>2. UNCHANGED adapter
      BY <1>2 DEF HostRequest, HostCreate, HostDestroy, SetPool, WatchdogTick, shellVars
    <2> QED
      BY <1>1, <2>1, <2>2
  <1>3. ASSUME (\E s \in HostSessions : Ping(s)) \/ (\E m \in monitors : LeaseRunsOut(m))
        PROVE  EmptyInv'
    <2>1. monitors # {}
      BY <1>3 DEF Ping, Live
    <2>2. UNCHANGED <<queue, wpc, shellVars>>
      BY <1>3 DEF Ping, LeaseRunsOut, workerVars
    <2> QED
      BY <2>1, <2>2 DEF shellVars, Launching
  <1>4. ASSUME UNCHANGED <<monitors, growth, adapter, pnp>>, Launching => Launching'
        PROVE  EmptyInv'
    BY <1>4
  <1>5. ASSUME NEW c \in Callers, QueueEffects(c) PROVE EmptyInv'
    <2>1. UNCHANGED <<monitors, growth, adapter, pnp, epoch, wpc>> /\ queue' = queue \o held[c]
      BY <1>5 DEF QueueEffects, deviceVars, tableVars, workerVars, shellVars
    <2>2. held[c] \in Seq(Tasks)
      BY EffectsAreTasks DEF IInv, WorkerInv
    <2>3. Launching' <=> Launching
      BY <2>1, <2>2, LaunchingStays
    <2> QED
      BY <1>4, <2>1, <2>3
  <1>6. CASE GrowPool
    <2>1. growth # {} /\ UNCHANGED <<queue, wpc, shellVars>>
      BY <1>6 DEF GrowPool, workerVars
    <2> QED
      BY <2>1 DEF shellVars, Launching
  <1>7. CASE FinishPool
    <2>1. growth # {} /\ UNCHANGED <<queue, epoch, adapter, pnp>>
          /\ (wpc' = wpc \/ wpc' = "publish")
      BY <1>7 DEF FinishPool, shellVars
    <2> QED
      BY <2>1 DEF Launching
  <1>8. CASE DropPlug \/ StartPlug \/ EndPlug \/ ApplyUnplug \/ ApplyPersist \/ StaleReady
    <2>1. UNCHANGED <<monitors, growth, adapter, pnp>> /\ wpc \in {"idle", "plug"}
      BY <1>8 DEF DropPlug, StartPlug, EndPlug, ApplyUnplug, ApplyPersist, StaleReady,
                  deviceVars, tableVars, shellVars
    <2> QED
      BY <1>4, <2>1 DEF Launching
  <1>9. CASE Startup
    <2>1. Head(queue).epoch = epoch /\ UNCHANGED <<queue, epoch>> /\ wpc' \in {"startup", "publish"}
      BY <1>9 DEF Startup, shellVars
    <2> QED
      BY <2>1 DEF Launching
  <1>10. CASE Publish
    <2>1. CASE adapter' = TRUE
      BY <2>1
    <2>2. CASE Unlocked /\ Remove(monitors)
      <3>1. monitors' = {} /\ growth' = {}
        BY <1>10, <2>2 DEF Publish, Unlocked, Remove
      <3> QED
        BY <3>1
    <2> QED
      BY <1>10, <2>1, <2>2 DEF Publish
  <1>11. CASE DeviceAdd
    <2>1. UNCHANGED <<monitors, growth, adapter, queue, wpc, epoch>> /\ pnp = "absent"
      BY <1>11 DEF DeviceAdd, deviceVars, tableVars, workerVars
    <2> QED
      BY <2>1 DEF Launching
  <1>12. CASE AdapterInitFinished
    <2> DEFINE task == [kind |-> "ready", epoch |-> mark]
    <2>1. UNCHANGED <<monitors, growth, adapter, wpc, epoch>> /\ pnp = "starting"
          /\ queue' = Append(queue, task)
      BY <1>12 DEF AdapterInitFinished, deviceVars, tableVars, workerVars
    <2>2. task \in Tasks /\ queue \in Seq(Tasks)
      BY DEF Tasks, ReadyTasks, IInv, ShellInv, WorkerInv
    <2>3. Launching' <=> Launching
      BY <2>1, <2>2, LaunchingStays, AppendQueues
    <2> QED
      BY <2>1, <2>3
  <1>13. CASE FinalExit \/ DrainMonitors
    <2>1. pnp' \in {"cleared", "drained"}
      BY <1>13 DEF FinalExit, DrainMonitors
    <2> QED
      BY <2>1
  <1>14. CASE TeardownReset
    BY <1>14 DEF TeardownReset, Unlocked, Remove
  <1>15. CASE Restart
    BY <1>15 DEF Restart
  <1>16. CASE UNCHANGED vars
    BY <1>16 DEF vars, deviceVars, tableVars, workerVars, shellVars, Launching
  <1> QED
    BY <1>2, <1>3, <1>5, <1>6, <1>7, <1>8, <1>9, <1>10, <1>11, <1>12, <1>13, <1>14,
       <1>15, <1>16 DEF Next, Worker, Device

LEMMA EpochStep ==
  ASSUME IInv, BringUpInv, EpochInv, [Next]_vars
  PROVE  EpochInv'
  <1> USE DEF EpochInv
  <1>0. epoch \in Nat /\ made \in Nat
        /\ \A p \in plugged : p.epoch \in Nat
    BY DEF IInv, ShellInv, WorkerInv
  <1>1. ASSUME UNCHANGED <<plugged, epoch, adapter, workerVars>> PROVE EpochInv'
    BY <1>1 DEF workerVars
  <1>2. ASSUME HostRequest("ioctl") \/ (\E s \in HostSessions : Ping(s))
                 \/ (\E m \in monitors : LeaseRunsOut(m)) \/ WatchdogTick \/ GrowPool
                 \/ (\E c \in Callers : QueueEffects(c)) \/ DeviceAdd
                 \/ AdapterInitFinished \/ TeardownReset
        PROVE  EpochInv'
    <2>1. UNCHANGED <<plugged, epoch, adapter, workerVars>>
      BY <1>2 DEF HostRequest, HostCreate, HostDestroy, SetPool, Ping, LeaseRunsOut,
                  WatchdogTick, GrowPool, QueueEffects, DeviceAdd, AdapterInitFinished,
                  TeardownReset, shellVars
    <2> QED
      BY <1>1, <2>1
  <1>3. CASE FinishPool
    BY <1>3 DEF FinishPool, shellVars, IInv, WorkerInv
  <1>4. CASE DropPlug \/ ApplyUnplug \/ ApplyPersist \/ StaleReady
    <2>1. plugged' \subseteq plugged /\ UNCHANGED <<epoch, adapter, workerVars>>
      BY <1>4 DEF DropPlug, ApplyUnplug, ApplyPersist, StaleReady, shellVars
    <2> QED
      BY <2>1 DEF workerVars
  <1>5. CASE StartPlug
    <2>1. wpc = "idle" /\ made' = epoch /\ adapter /\ UNCHANGED <<plugged, epoch, adapter, bringUp>>
      BY <1>5 DEF StartPlug, PlugAllowed, shellVars
    <2>2. made' <= epoch
      BY <1>0, <2>1
    <2> QED
      BY <2>1, <2>2
  <1>6. CASE EndPlug
    <2> DEFINE new == [session |-> Head(queue).session,
                       connector |-> Head(queue).connector, epoch |-> made]
    <2>1. wpc = "plug" /\ wpc' = "idle" /\ made' = 0 /\ UNCHANGED <<epoch, adapter, bringUp>>
          /\ plugged' \subseteq plugged \cup {new}
      BY <1>6 DEF EndPlug, Others, shellVars
    <2>2. new.epoch = made
      OBVIOUS
    <2> HIDE DEF new
    <2>3. \A p \in plugged' : p.epoch <= epoch /\ (p.epoch = epoch => adapter)
      BY <2>1, <2>2
    <2>4. 0 <= epoch
      BY <1>0
    <2> QED
      BY <2>1, <2>3, <2>4
  <1>7. CASE Startup
    BY <1>7 DEF Startup, shellVars
  <1>8. CASE Publish
    <2>1. wpc' = "idle" /\ bringUp' = << >> /\ UNCHANGED <<plugged, made, epoch>> /\ ~adapter
      BY <1>8 DEF Publish, BringUpInv
    <2> QED
      BY <2>1
  <1>9. CASE FinalExit
    <2>1. epoch' = epoch + 1 /\ ~adapter' /\ UNCHANGED <<plugged, made, wpc, bringUp>>
      BY <1>9, Zenon DEF FinalExit, workerVars
    <2>2. made <= epoch + 1 /\ made # epoch + 1
      BY <1>0
    <2>3. \A p \in plugged : p.epoch <= epoch + 1 /\ p.epoch # epoch + 1
      BY <1>0
    <2> QED
      BY <2>1, <2>2, <2>3
  <1>10. CASE DrainMonitors
    BY <1>10 DEF DrainMonitors, workerVars
  <1>11. CASE Restart
    BY <1>11 DEF Restart
  <1>12. CASE UNCHANGED vars
    BY <1>1, <1>12 DEF vars, shellVars
  <1> QED
    BY <1>2, <1>3, <1>4, <1>5, <1>6, <1>7, <1>8, <1>9, <1>10, <1>11, <1>12
       DEF Next, Worker, Device

-----------------------------------------------------------------------------
(***************************************************************************)
(* Everything on its way to the worker, in the order it will be carried    *)
(* out: the queue, then what the handler growing the pool has collected or *)
(* a caller has in hand.  Handling a request appends to it, queueing       *)
(* leaves it alone, and the worker takes its head.                         *)
(***************************************************************************)
GrowthEffects == IF growth = {} THEN << >> ELSE (CHOOSE g \in growth : TRUE).effects
Ours == IF wpc = "startup" THEN << >> ELSE GrowthEffects
Way == (queue \o Ours) \o (held["ioctl"] \o held["watchdog"])

(* The effects of the startup under way *)
Launch == IF wpc = "startup" THEN GrowthEffects ELSE bringUp

LEMMA OnlyOne ==
  ASSUME NEW g
  PROVE  (CHOOSE h \in {g} : TRUE) = g
  OBVIOUS

LEMMA GrowthEffectsOf ==
  /\ growth = {} => GrowthEffects = << >>
  /\ \A g : growth = {g} => GrowthEffects = g.effects
  BY OnlyOne DEF GrowthEffects

LEMMA GrowthEffectsKept ==
  ASSUME IInv, SerialInv
  PROVE  GrowthEffects \in Seq(KeptEffects)
  <1>1. CASE growth = {}
    BY <1>1, GrowthEffectsOf, EmptySeq
  <1>2. ASSUME NEW g, growth = {g} PROVE GrowthEffects \in Seq(KeptEffects)
    BY <1>2, GrowthEffectsOf DEF IInv, GrowthInv
  <1> QED
    BY <1>1, <1>2 DEF SerialInv

LEMMA TailOfConcat ==
  ASSUME NEW q \in Seq(Tasks), NEW s \in Seq(Tasks), q # << >>
  PROVE  /\ q \o s \in Seq(Tasks) /\ q \o s # << >> /\ Head(q \o s) = Head(q)
         /\ Tail(q \o s) = Tail(q) \o s
  <1>1. q \o s \in Seq(Tasks) /\ q \o s # << >> /\ Head(q \o s) = Head(q)
    BY AppendedHead
  <1>2. Len(q) \in Nat \ {0} /\ Len(s) \in Nat /\ Len(q \o s) = Len(q) + Len(s)
    BY EmptySeq, LenProperties, ConcatProperties
  <1>3. /\ Tail(q) \in Seq(Tasks) /\ Len(Tail(q)) = Len(q) - 1
        /\ \A i \in 1 .. Len(Tail(q)) : Tail(q)[i] = q[i + 1]
    BY HeadTailProperties
  <1>4. /\ Tail(q \o s) \in Seq(Tasks) /\ Len(Tail(q \o s)) = Len(q) + Len(s) - 1
        /\ \A i \in 1 .. Len(q) + Len(s) - 1 : Tail(q \o s)[i] = (q \o s)[i + 1]
    BY <1>1, <1>2, HeadTailProperties
  <1>5. /\ Tail(q) \o s \in Seq(Tasks) /\ Len(Tail(q) \o s) = Len(q) - 1 + Len(s)
        /\ \A i \in 1 .. Len(q) - 1 + Len(s) :
             (Tail(q) \o s)[i] = IF i <= Len(q) - 1 THEN Tail(q)[i] ELSE s[i - (Len(q) - 1)]
    BY <1>3, ConcatProperties
  <1>6. \A i \in 1 .. Len(q) + Len(s) :
          (q \o s)[i] = IF i <= Len(q) THEN q[i] ELSE s[i - Len(q)]
    BY ConcatProperties
  <1>7. \A i \in 1 .. Len(q) + Len(s) - 1 : Tail(q \o s)[i] = (Tail(q) \o s)[i]
    <2> SUFFICES ASSUME NEW i \in 1 .. Len(q) + Len(s) - 1
                 PROVE  Tail(q \o s)[i] = (Tail(q) \o s)[i]
      OBVIOUS
    <2>1. Tail(q \o s)[i] = (q \o s)[i + 1]
      BY <1>4
    <2>2. (q \o s)[i + 1] = IF i + 1 <= Len(q) THEN q[i + 1] ELSE s[i + 1 - Len(q)]
      BY <1>2, <1>6
    <2>3. (Tail(q) \o s)[i] = IF i <= Len(q) - 1 THEN Tail(q)[i] ELSE s[i - (Len(q) - 1)]
      BY <1>2, <1>5
    <2>4. i <= Len(q) - 1 => Tail(q)[i] = q[i + 1]
      BY <1>2, <1>3
    <2>5. i + 1 - Len(q) = i - (Len(q) - 1)
      BY <1>2
    <2> QED
      BY <1>2, <2>1, <2>2, <2>3, <2>4, <2>5
  <1>8. Len(Tail(q \o s)) = Len(Tail(q) \o s)
    BY <1>2, <1>4, <1>5
  <1>9. Tail(q \o s) = Tail(q) \o s
    BY <1>4, <1>5, <1>7, <1>8, SeqEqual
  <1> QED
    BY <1>1, <1>9

LEMMA Regroup == \A s, t, u \in Seq(Tasks) : (s \o t) \o u = s \o (t \o u)
  BY ConcatAssociative

LEMMA NothingLeft == \A t \in Seq(Tasks) : Len(t) = 0 => t = << >>
  BY EmptySeq

LEMMA WayTyped ==
  ASSUME IInv, SerialInv
  PROVE  /\ queue \in Seq(Tasks) /\ Ours \in Seq(Tasks)
         /\ held["ioctl"] \in Seq(Tasks) /\ held["watchdog"] \in Seq(Tasks)
         /\ Way \in Seq(Tasks)
  <1>1. queue \in Seq(Tasks)
        /\ held["ioctl"] \in Seq(Tasks) /\ held["watchdog"] \in Seq(Tasks)
    BY EffectsAreTasks DEF IInv, WorkerInv, Callers
  <1>2. Ours \in Seq(Tasks)
    BY EffectsAreTasks, GrowthEffectsKept, EmptySeq DEF Ours
  <1> QED
    BY <1>1, <1>2, ConcatProperties DEF Way

LEMMA WaySettled ==
  ASSUME IInv, SerialInv, Settled
  PROVE  Way = queue \o Ours
  <1>1. held["ioctl"] = << >> /\ held["watchdog"] = << >>
    BY DEF Settled, Callers
  <1>2. << >> \in Seq(Tasks) /\ queue \o Ours \in Seq(Tasks)
    BY WayTyped, EmptySeq, ConcatProperties
  <1> QED
    BY <1>1, <1>2, ConcatEmptySeq DEF Way

(* No handler is at work: what is on its way is queued. *)
LEMMA WayIsQueue ==
  ASSUME IInv, SerialInv, Settled, growth = {} \/ wpc = "startup"
  PROVE  Way = queue
  <1>1. Ours = << >>
    BY GrowthEffectsOf DEF Ours
  <1> QED
    BY <1>1, WaySettled, WayTyped, ConcatEmptySeq

LEMMA WayUnpublished ==
  ASSUME IInv, SerialInv, ~adapter
  PROVE  Way = queue
  <1>1. Settled /\ \A g \in growth : g.by = "worker"
    BY DEF SerialInv
  <1>2. growth = {} \/ wpc = "startup"
    BY <1>1 DEF IInv, WorkerInv
  <1> QED
    BY <1>1, <1>2, WayIsQueue

LEMMA WayDecided ==
  ASSUME IInv, SerialInv, NEW c \in Callers, Settled, growth = {},
         NEW effects \in Seq(KeptEffects), Decide(c, effects),
         UNCHANGED <<growth, queue, wpc>>
  PROVE  Way' = Way \o effects
  <1>1. held["ioctl"] = << >> /\ held["watchdog"] = << >>
    BY DEF Settled, Callers
  <1>2. held' = [held EXCEPT ![c] = effects] /\ held \in [Callers -> Seq(KeptEffects)]
    BY DEF Decide, IInv, WorkerInv
  <1>3. held'["ioctl"] \o held'["watchdog"] = effects
    <2>1. effects \o << >> = effects /\ << >> \o effects = effects
      BY ConcatEmptySeq
    <2> QED
      BY <1>1, <1>2, <2>1 DEF Callers
  <1>4. Ours = << >> /\ Ours' = << >>
    BY GrowthEffectsOf DEF Ours, GrowthEffects
  <1>5. queue \o << >> = queue /\ Way = queue
    BY <1>4, WaySettled, WayTyped, ConcatEmptySeq
  <1> QED
    BY <1>3, <1>4, <1>5 DEF Way

(* The handler's part of apply_pool collects effects. *)
LEMMA WayCollected ==
  ASSUME IInv, SerialInv, IInv', SerialInv', Settled, wpc # "startup",
         UNCHANGED <<queue, held, wpc>>,
         NEW more \in Seq(KeptEffects), GrowthEffects' = GrowthEffects \o more
  PROVE  Way' = Way \o more
  <1>1. Way = queue \o Ours /\ Settled'
    BY WaySettled DEF Settled
  <1>2. Way' = queue' \o Ours'
    <2>1. held'["ioctl"] = << >> /\ held'["watchdog"] = << >>
      BY <1>1 DEF Settled, Callers
    <2>2. << >> \o << >> = << >>
      BY EmptySeq, ConcatEmptySeq
    <2>3. queue' \o Ours' \in Seq(Tasks)
      <3>1. queue' \in Seq(Tasks)
        BY WayTyped
      <3>2. Ours' \in Seq(Tasks)
        <4>1. GrowthEffects \in Seq(KeptEffects)
          BY GrowthEffectsKept
        <4>2. GrowthEffects \o more \in Seq(KeptEffects)
          BY <4>1, ConcatProperties
        <4> QED
          BY <4>2, EffectsAreTasks DEF Ours
      <3> QED
        BY <3>1, <3>2, ConcatProperties
    <2> QED
      BY <2>1, <2>2, <2>3, ConcatEmptySeq DEF Way
  <1>3. more \in Seq(Tasks)
    BY EffectsAreTasks
  <1>4. Ours' = Ours \o more
    BY DEF Ours
  <1> QED
    <2>1. queue \in Seq(Tasks) /\ Ours \in Seq(Tasks)
      BY WayTyped
    <2>2. (queue \o Ours) \o more = queue \o (Ours \o more)
      BY <1>3, <2>1, Regroup, Zenon
    <2> QED
      BY <1>1, <1>2, <1>4, <2>2

(* The handler's part of apply_pool ends. *)
LEMMA WayFinished ==
  ASSUME IInv, SerialInv, Settled, wpc # "startup", NEW g, growth = {g},
         g.by \in Callers, NEW last \in KeptEffects,
         Decide(g.by, Append(g.effects, last)), growth' = {}, UNCHANGED <<queue, wpc>>
  PROVE  Way' = Append(Way, last)
  <1>1. g.effects \in Seq(KeptEffects) /\ Ours = g.effects
    BY GrowthEffectsOf, GrowthEffectsKept DEF Ours
  <1>2. Way = queue \o g.effects
    BY <1>1, WaySettled
  <1> DEFINE effects == Append(g.effects, last)
  <1>3. effects \in Seq(KeptEffects) /\ effects = g.effects \o << last >>
    BY <1>1, AppendProperties, AppendIsConcat
  <1>4. held["ioctl"] = << >> /\ held["watchdog"] = << >>
    BY DEF Settled, Callers
  <1>5. held' = [held EXCEPT ![g.by] = effects] /\ held \in [Callers -> Seq(KeptEffects)]
    BY DEF Decide, IInv, WorkerInv
  <1> HIDE DEF effects
  <1>6. held'["ioctl"] \o held'["watchdog"] = effects
    <2>1. effects \o << >> = effects /\ << >> \o effects = effects
      BY <1>3, ConcatEmptySeq
    <2> QED
      BY <1>4, <1>5, <2>1 DEF Callers
  <1>7. Ours' = << >>
    BY DEF Ours, GrowthEffects
  <1>8. queue \in Seq(Tasks) /\ g.effects \in Seq(Tasks) /\ << last >> \in Seq(Tasks)
        /\ last \in Tasks
    <2>1. << last >> \in Seq(KeptEffects)
      OBVIOUS
    <2> QED
      BY <1>1, <2>1, WayTyped, EffectsAreTasks DEF Tasks
  <1>9. Way' = queue \o effects
    <2>1. queue \o << >> = queue
      BY <1>8, ConcatEmptySeq
    <2> QED
      BY <1>6, <1>7, <2>1 DEF Way
  <1>10. (queue \o g.effects) \o << last >> = queue \o effects
    BY <1>3, <1>8, Regroup, Zenon
  <1>11. Append(Way, last) = Way \o << last >>
    BY <1>8, WayTyped, AppendIsConcat
  <1> QED
    BY <1>2, <1>9, <1>10, <1>11

(* Queueing changes where effects are, not their order. *)
LEMMA WayQueued ==
  ASSUME IInv, BringUpInv, SerialInv, NEW c \in Callers, QueueEffects(c)
  PROVE  Way' = Way
  <1>1. /\ held[c] # << >> /\ queue' = queue \o held[c]
        /\ held' = [held EXCEPT ![c] = << >>] /\ UNCHANGED <<growth, wpc>>
    BY DEF QueueEffects, deviceVars, workerVars
  <1>2. adapter /\ growth = {}
    BY <1>1 DEF SerialInv, Settled, BringUpInv, IInv, WorkerInv
  <1>3. Ours = << >> /\ Ours' = << >>
    BY <1>1, <1>2, GrowthEffectsOf DEF Ours, GrowthEffects
  <1>4. /\ held'["ioctl"] = << >> /\ held'["watchdog"] = << >>
        /\ \/ c = "ioctl" /\ held["watchdog"] = << >>
           \/ c = "watchdog" /\ held["ioctl"] = << >>
    BY <1>1 DEF SerialInv, IInv, WorkerInv, Callers
  <1>5. held["ioctl"] \o held["watchdog"] = held[c]
    BY <1>4, WayTyped, ConcatEmptySeq
  <1>6. held'["ioctl"] \o held'["watchdog"] = << >>
    BY <1>4, EmptySeq, ConcatEmptySeq
  <1>7. /\ queue \o << >> = queue /\ held[c] \in Seq(Tasks)
        /\ queue \o held[c] \in Seq(Tasks)
    BY <1>4, WayTyped, ConcatEmptySeq, ConcatProperties
  <1>8. /\ (queue \o held[c]) \o << >> = queue \o held[c]
    BY <1>7, ConcatEmptySeq
  <1> QED
    BY <1>1, <1>3, <1>5, <1>6, <1>7, <1>8 DEF Way

LEMMA WayPopped ==
  ASSUME IInv, SerialInv, queue # << >>, queue' = Tail(queue), Ours' = Ours,
         UNCHANGED held
  PROVE  Way # << >> /\ Head(Way) = Head(queue) /\ Way' = Tail(Way)
  <1>1. queue \in Seq(Tasks) /\ Ours \in Seq(Tasks)
        /\ held["ioctl"] \o held["watchdog"] \in Seq(Tasks)
    BY WayTyped, ConcatProperties
  <1>2. /\ queue \o Ours \in Seq(Tasks) /\ queue \o Ours # << >>
        /\ Head(queue \o Ours) = Head(queue)
        /\ Tail(queue \o Ours) = Tail(queue) \o Ours
    BY <1>1, TailOfConcat
  <1>3. /\ Way # << >> /\ Head(Way) = Head(queue)
        /\ Tail(Way) = (Tail(queue) \o Ours) \o (held["ioctl"] \o held["watchdog"])
    <2> DEFINE q == queue \o Ours
               s == held["ioctl"] \o held["watchdog"]
    <2>1. q \in Seq(Tasks) /\ s \in Seq(Tasks) /\ q # << >> /\ Way = q \o s
      BY <1>1, <1>2 DEF Way
    <2> HIDE DEF q, s
    <2>2. Way # << >> /\ Head(Way) = Head(q) /\ Tail(Way) = Tail(q) \o s
      BY <2>1, TailOfConcat
    <2> QED
      BY <1>2, <2>2 DEF q, s
  <1> QED
    BY <1>3 DEF Way

LEMMA WaySame ==
  ASSUME UNCHANGED <<queue, held>>, Ours' = Ours
  PROVE  Way' = Way
  BY DEF Way

(* The startup's effects are all there is when its adapter is published. *)
LEMMA WayPublished ==
  ASSUME IInv, BringUpInv, SerialInv, wpc = "publish", Head(queue).epoch = epoch,
         queue' = bringUp \o Tail(queue), wpc' = "idle", UNCHANGED <<held, growth>>
  PROVE  Way' = bringUp /\ growth = {}
  <1>1. ~adapter /\ Settled /\ growth = {}
    BY DEF BringUpInv, SerialInv, IInv, WorkerInv
  <1>2. queue \in Seq(Tasks) /\ queue # << >> /\ Head(queue).kind = "ready"
        /\ bringUp \in Seq(Tasks)
    BY EffectsAreTasks DEF IInv, WorkerInv, AtHead
  <1>3. Len(queue) \in Nat \ {0} /\ queue[1] = Head(queue)
    BY <1>2, EmptySeq, LenProperties
  <1>4. 1 \in ReadiesOf(queue)
    BY <1>2, <1>3 DEF ReadiesOf
  <1>5. Len(queue) = 1
    BY <1>3, <1>4 DEF SerialInv
  <1>6. Tail(queue) = << >>
    <2>1. Tail(queue) \in Seq(Tasks) /\ Len(Tail(queue)) = 0
      BY <1>2, <1>5, HeadTailProperties
    <2> QED
      BY <1>5, <2>1, NothingLeft, Zenon
  <1>7. queue' = bringUp
    BY <1>2, <1>6, ConcatEmptySeq
  <1>8. Ours' = << >> /\ held'["ioctl"] = << >> /\ held'["watchdog"] = << >>
    BY <1>1 DEF Ours, GrowthEffects, Settled, Callers
  <1>9. << >> \o << >> = << >> /\ bringUp \o << >> = bringUp
    BY <1>2, EmptySeq, ConcatEmptySeq
  <1> QED
    BY <1>1, <1>7, <1>8, <1>9 DEF Way

-----------------------------------------------------------------------------
(***************************************************************************)
(* What the shell shows and what is on its way, against the table.  Of a   *)
(* session on a connector it is shown now (place 0) or plugged by the      *)
(* effect at place k:                                                      *)
(*  - before another effect plugs the same session, or the same connector, *)
(*    the session has left;                                                *)
(*  - it leaves, or it is in the table with that connector;                *)
(*  - every session of the table comes this way and stays, unless its plug *)
(*    has failed.                                                          *)
(***************************************************************************)
Pair(t, d) == [session |-> t, connector |-> d]
At(shown, way, t, d, k) == IF k = 0 THEN Pair(t, d) \in shown ELSE way[k] = Plug(t, d)
Leaves(way, t, k, i) ==
  \E j \in k + 1 .. i : way[j].kind = "unplug" /\ t \in way[j].sessions

Apart(shown, way) ==
  /\ \A p, q \in shown : p.session = q.session \/ p.connector = q.connector => p = q
  /\ \A i \in 1 .. Len(way) : \A k \in 0 .. i - 1 :
       \A t, s \in Sessions, d, c \in Connectors :
         /\ At(shown, way, t, d, k) /\ At(shown, way, s, c, i)
         /\ s = t \/ c = d
         => Leaves(way, t, k, i - 1)
Lasting(shown, way, table) ==
  \A k \in 0 .. Len(way) : \A t \in Sessions, d \in Connectors :
    At(shown, way, t, d, k) =>
      \/ Leaves(way, t, k, Len(way))
      \/ \E m \in table : m.session = t /\ m.connector = d
Comes(shown, way, m) ==
  \E k \in 0 .. Len(way) : /\ At(shown, way, m.session, m.connector, k)
                           /\ ~Leaves(way, m.session, k, Len(way))
NotComing(way, t) == \A k \in 1 .. Len(way) : \A c \in Connectors : way[k] # Plug(t, c)
Due(shown, way, table, failed) ==
  \A m \in table :
    Comes(shown, way, m) \/ (m.session \in failed /\ NotComing(way, m.session))
Agree(shown, way, table, failed) ==
  /\ Apart(shown, way) /\ Lasting(shown, way, table)
  /\ Due(shown, way, table, failed)
  /\ \A p \in shown : p.session \notin failed

Pairs == [session : Sessions, connector : Connectors]

LEMMA PlugFields ==
  /\ \A t, s, d, c : Plug(t, d) = Plug(s, c) <=> t = s /\ d = c
  /\ \A t, d : Plug(t, d).kind = "plug"
  BY DEF Plug

LEMMA PairFields ==
  /\ \A t, s, d, c : Pair(t, d) = Pair(s, c) <=> t = s /\ d = c
  /\ \A t, d : Pair(t, d).session = t /\ Pair(t, d).connector = d
  /\ \A p \in Pairs : p = Pair(p.session, p.connector)
  BY DEF Pair, Pairs

(* An effect is appended. *)
LEMMA LeavesAppended ==
  ASSUME NEW way \in Seq(Tasks), NEW e \in Tasks, NEW t, NEW k \in 0 .. Len(way)
  PROVE  /\ Len(Append(way, e)) = Len(way) + 1 /\ Len(way) \in Nat
         /\ \A i \in 0 .. Len(way) : Leaves(Append(way, e), t, k, i) <=> Leaves(way, t, k, i)
         /\ Leaves(Append(way, e), t, k, Len(way) + 1)
              <=> Leaves(way, t, k, Len(way)) \/ (e.kind = "unplug" /\ t \in e.sessions)
         /\ \A shown, d : At(shown, Append(way, e), t, d, k) <=> At(shown, way, t, d, k)
  <1>1. /\ Len(Append(way, e)) = Len(way) + 1 /\ Len(way) \in Nat
        /\ \A i \in 1 .. Len(way) : Append(way, e)[i] = way[i]
        /\ Append(way, e)[Len(way) + 1] = e
    BY AppendProperties, LenProperties
  <1> DEFINE longer == Append(way, e)
  <1> HIDE DEF longer
  <1>2. /\ Len(longer) = Len(way) + 1 /\ Len(way) \in Nat
        /\ \A i \in 1 .. Len(way) : longer[i] = way[i]
        /\ longer[Len(way) + 1] = e
    BY <1>1 DEF longer
  <1>3. \A i \in 0 .. Len(way) : Leaves(longer, t, k, i) <=> Leaves(way, t, k, i)
    BY <1>2 DEF Leaves
  <1>4. Leaves(longer, t, k, Len(way) + 1)
          <=> Leaves(way, t, k, Len(way)) \/ (e.kind = "unplug" /\ t \in e.sessions)
    <2>1. \A j : j \in k + 1 .. Len(way) + 1 <=> j \in k + 1 .. Len(way) \/ j = Len(way) + 1
      BY <1>2
    <2> QED
      BY <1>2, <2>1 DEF Leaves
  <1>5. \A shown, d : At(shown, longer, t, d, k) <=> At(shown, way, t, d, k)
    BY <1>2 DEF At
  <1> QED
    BY <1>2, <1>3, <1>4, <1>5 DEF longer

(* CREATE_MONITOR: a session that is not in the table, on a connector no
   monitor of the table has. *)
LEMMA AgreePlug ==
  ASSUME NEW shown, NEW way \in Seq(Tasks), NEW table, NEW failed,
         Agree(shown, way, table, failed),
         NEW s \in Sessions, NEW c \in Connectors, NEW new,
         new.session = s, new.connector = c,
         \A m \in table : m.session # s /\ m.connector # c
  PROVE  Agree(shown, Append(way, Plug(s, c)), table \cup {new}, failed)
  <1> DEFINE e == Plug(s, c)
             longer == Append(way, e)
             n == Len(way)
  <1>0. e \in Tasks /\ e.kind = "plug"
    BY PlugKept, PlugFields DEF Tasks
  <1>1. n \in Nat /\ Len(longer) = n + 1 /\ longer[n + 1] = e
    BY <1>0, LenProperties, AppendProperties
  <1>2. \A t : \A k \in 0 .. n :
          /\ \A i \in 0 .. n : Leaves(longer, t, k, i) <=> Leaves(way, t, k, i)
          /\ Leaves(longer, t, k, n + 1) <=> Leaves(way, t, k, n)
          /\ \A d : At(shown, longer, t, d, k) <=> At(shown, way, t, d, k)
    BY <1>0, LeavesAppended
  <1>3. \A t : ~Leaves(longer, t, n + 1, n + 1)
    BY <1>1 DEF Leaves
  <1>4. \A t, d : At(shown, longer, t, d, n + 1) <=> t = s /\ d = c
    BY <1>1, PlugFields DEF At
  <1> HIDE DEF e, longer, n
  <1>5. Lasting(shown, way, table) /\ Apart(shown, way) /\ Due(shown, way, table, failed)
        /\ \A p \in shown : p.session \notin failed
    BY DEF Agree
  <1>6. Apart(shown, longer)
    <2> SUFFICES ASSUME NEW i \in 1 .. n + 1, NEW k \in 0 .. i - 1,
                        NEW t \in Sessions, NEW r \in Sessions,
                        NEW d \in Connectors, NEW b \in Connectors,
                        At(shown, longer, t, d, k), At(shown, longer, r, b, i),
                        r = t \/ b = d
                 PROVE  Leaves(longer, t, k, i - 1)
      BY <1>1, <1>5 DEF Apart
    <2>k. k \in 0 .. n
      BY <1>1
    <2>1. k \in 0 .. n /\ At(shown, way, t, d, k)
      BY <1>2, <2>k, Zenon
    <2>2. CASE i = n + 1
      <3>1. r = s /\ b = c
        BY <1>4, <2>2
      <3>2. Leaves(way, t, k, n)
        BY <2>1, <1>5, <3>1 DEF Lasting, n
      <3> QED
        BY <1>1, <1>2, <2>1, <2>2, <3>2
    <2>3. CASE i # n + 1
      <3>1. i \in 1 .. Len(way) /\ i \in 0 .. n /\ i - 1 \in 0 .. n
        BY <1>1, <2>3 DEF n
      <3>2. At(shown, way, r, b, i)
        BY <1>2, <3>1
      <3>3. Leaves(way, t, k, i - 1)
        BY <1>5, <2>1, <3>1, <3>2 DEF Apart
      <3> QED
        BY <1>2, <2>1, <3>1, <3>3
    <2> QED
      BY <2>2, <2>3
  <1>7. Lasting(shown, longer, table \cup {new})
    <2> SUFFICES ASSUME NEW k \in 0 .. n + 1, NEW t \in Sessions, NEW d \in Connectors,
                        At(shown, longer, t, d, k)
                 PROVE  \/ Leaves(longer, t, k, n + 1)
                        \/ \E m \in table \cup {new} : m.session = t /\ m.connector = d
      BY <1>1 DEF Lasting
    <2>1. CASE k = n + 1
      BY <1>4, <2>1
    <2>2. CASE k # n + 1
      <3>k. k \in 0 .. n
        BY <1>1, <2>2
      <3>1. k \in 0 .. n /\ At(shown, way, t, d, k)
        BY <1>2, <3>k, Zenon
      <3> QED
        BY <1>2, <1>5, <3>1 DEF Lasting, n
    <2> QED
      BY <2>1, <2>2
  <1>8. Due(shown, longer, table \cup {new}, failed)
    <2> SUFFICES ASSUME NEW m \in table \cup {new}
                 PROVE  Comes(shown, longer, m)
                        \/ (m.session \in failed /\ NotComing(longer, m.session))
      BY DEF Due
    <2>1. CASE m = new
      <3>1. /\ n + 1 \in 0 .. Len(longer) /\ At(shown, longer, s, c, n + 1)
            /\ ~Leaves(longer, s, n + 1, Len(longer))
        BY <1>1, <1>3, <1>4
      <3> QED
        BY <2>1, <3>1 DEF Comes
    <2>2. ASSUME m \in table, Comes(shown, way, m) PROVE Comes(shown, longer, m)
      <3>1. PICK k \in 0 .. n : /\ At(shown, way, m.session, m.connector, k)
                                /\ ~Leaves(way, m.session, k, n)
        BY <2>2 DEF Comes, n
      <3>2. /\ k \in 0 .. Len(longer) /\ At(shown, longer, m.session, m.connector, k)
            /\ ~Leaves(longer, m.session, k, Len(longer))
        BY <1>1, <1>2, <3>1
      <3> QED
        BY <3>2 DEF Comes
    <2>3. ASSUME m \in table, NotComing(way, m.session)
          PROVE  NotComing(longer, m.session)
      <3>1. \A i \in 1 .. n : longer[i] = way[i]
        BY <1>0, AppendProperties DEF longer, n
      <3>2. \A i \in 1 .. n + 1 : i \in 1 .. n \/ i = n + 1
        BY <1>1
      <3>3. \A d : Plug(m.session, d) # e
        BY <2>3, PlugFields DEF e
      <3> QED
        BY <1>1, <2>3, <3>1, <3>2, <3>3 DEF NotComing, n
    <2> QED
      BY <1>5, <2>1, <2>2, <2>3 DEF Due
  <1> QED
    BY <1>5, <1>6, <1>7, <1>8 DEF Agree, longer, e

(* Any other decision: those that leave the table are unplugged by it, those
   that stay are not. *)
LEMMA AgreeOther ==
  ASSUME NEW shown, NEW way \in Seq(Tasks), NEW table, NEW failed,
         Agree(shown, way, table, failed),
         NEW e \in Tasks, e.kind # "plug", NEW kept \in SUBSET table,
         \A m \in table : m \in kept <=> ~(e.kind = "unplug" /\ m.session \in e.sessions)
  PROVE  Agree(shown, Append(way, e), kept, failed)
  <1> DEFINE longer == Append(way, e)
             n == Len(way)
  <1>1. /\ n \in Nat /\ Len(longer) = n + 1 /\ longer[n + 1] = e
        /\ \A i \in 1 .. n : longer[i] = way[i]
    BY LenProperties, AppendProperties
  <1>2. \A t : \A k \in 0 .. n :
          /\ \A i \in 0 .. n : Leaves(longer, t, k, i) <=> Leaves(way, t, k, i)
          /\ Leaves(longer, t, k, n + 1)
               <=> Leaves(way, t, k, n) \/ (e.kind = "unplug" /\ t \in e.sessions)
          /\ \A d : At(shown, longer, t, d, k) <=> At(shown, way, t, d, k)
    BY LeavesAppended
  <1>4. \A t, d : ~At(shown, longer, t, d, n + 1) /\ longer[n + 1] # Plug(t, d)
    BY <1>1, PlugFields DEF At
  <1>6. Len(way) = n
    OBVIOUS
  <1> HIDE DEF longer, n
  <1>5. Lasting(shown, way, table) /\ Apart(shown, way) /\ Due(shown, way, table, failed)
        /\ \A p \in shown : p.session \notin failed
    BY DEF Agree
  <1>7. Apart(shown, longer)
    <2> SUFFICES ASSUME NEW i \in 1 .. n + 1, NEW k \in 0 .. i - 1,
                        NEW t \in Sessions, NEW r \in Sessions,
                        NEW d \in Connectors, NEW b \in Connectors,
                        At(shown, longer, t, d, k), At(shown, longer, r, b, i),
                        r = t \/ b = d
                 PROVE  Leaves(longer, t, k, i - 1)
      BY <1>1, <1>5 DEF Apart
    <2>1. i # n + 1
      BY <1>4
    <2>2. i \in 1 .. n /\ i \in 0 .. n /\ i - 1 \in 0 .. n /\ k \in 0 .. n
      BY <1>1, <2>1
    <2>3. At(shown, way, t, d, k) /\ At(shown, way, r, b, i)
      BY <1>2, <2>2, Zenon
    <2>4. Leaves(way, t, k, i - 1)
      BY <1>5, <1>6, <2>2, <2>3 DEF Apart
    <2> QED
      BY <1>2, <2>2, <2>4, Zenon
  <1>8. Lasting(shown, longer, kept)
    <2> SUFFICES ASSUME NEW k \in 0 .. n + 1, NEW t \in Sessions, NEW d \in Connectors,
                        At(shown, longer, t, d, k)
                 PROVE  \/ Leaves(longer, t, k, n + 1)
                        \/ \E m \in kept : m.session = t /\ m.connector = d
      BY <1>1 DEF Lasting
    <2>1. k # n + 1
      BY <1>4
    <2>2. k \in 0 .. n
      BY <1>1, <2>1
    <2>3. At(shown, way, t, d, k)
      BY <1>2, <2>2, Zenon
    <2>4. Leaves(way, t, k, n) \/ \E m \in table : m.session = t /\ m.connector = d
      BY <1>5, <1>6, <2>2, <2>3 DEF Lasting
    <2> QED
      BY <1>2, <2>2, <2>4
  <1>9. Due(shown, longer, kept, failed)
    <2> SUFFICES ASSUME NEW m \in kept
                 PROVE  Comes(shown, longer, m)
                        \/ (m.session \in failed /\ NotComing(longer, m.session))
      BY DEF Due
    <2>1. ~(e.kind = "unplug" /\ m.session \in e.sessions)
      OBVIOUS
    <2>2. ASSUME Comes(shown, way, m) PROVE Comes(shown, longer, m)
      <3>1. PICK k \in 0 .. n : /\ At(shown, way, m.session, m.connector, k)
                                /\ ~Leaves(way, m.session, k, n)
        BY <1>6, <2>2 DEF Comes
      <3>2. k \in 0 .. Len(longer)
        BY <1>1
      <3>3. /\ At(shown, longer, m.session, m.connector, k)
            /\ ~Leaves(longer, m.session, k, n + 1)
        BY <1>2, <2>1, <3>1, Zenon
      <3> QED
        BY <1>1, <3>2, <3>3 DEF Comes
    <2>3. ASSUME NotComing(way, m.session)
          PROVE  NotComing(longer, m.session)
      <3>1. \A i \in 1 .. n + 1 : i \in 1 .. n \/ i = n + 1
        BY <1>1
      <3> QED
        BY <1>1, <1>4, <1>6, <2>3, <3>1 DEF NotComing
    <2> QED
      BY <1>5, <2>2, <2>3 DEF Due
  <1> QED
    BY <1>5, <1>7, <1>8, <1>9 DEF Agree, longer

(* Only sessions and connectors count. *)
LEMMA AgreeTable ==
  ASSUME NEW shown, NEW way, NEW table, NEW other, NEW failed,
         Agree(shown, way, table, failed),
         \A m \in table : \E n \in other : n.session = m.session /\ n.connector = m.connector,
         \A n \in other : \E m \in table : n.session = m.session /\ n.connector = m.connector
  PROVE  Agree(shown, way, other, failed)
  <1>1. Lasting(shown, way, other)
    <2> SUFFICES ASSUME NEW k \in 0 .. Len(way), NEW t \in Sessions, NEW d \in Connectors,
                        At(shown, way, t, d, k), ~Leaves(way, t, k, Len(way))
                 PROVE  \E n \in other : n.session = t /\ n.connector = d
      BY DEF Lasting
    <2>1. PICK m \in table : m.session = t /\ m.connector = d
      BY DEF Agree, Lasting
    <2> QED
      BY <2>1
  <1>2. Due(shown, way, other, failed)
    <2> SUFFICES ASSUME NEW n \in other
                 PROVE  Comes(shown, way, n)
                        \/ (n.session \in failed /\ NotComing(way, n.session))
      BY DEF Due
    <2>1. PICK m \in table : n.session = m.session /\ n.connector = m.connector
      OBVIOUS
    <2>2. Comes(shown, way, m) \/ (m.session \in failed /\ NotComing(way, m.session))
      BY DEF Agree, Due
    <2> QED
      BY <2>1, <2>2 DEF Comes
  <1> QED
    BY <1>1, <1>2 DEF Agree

(* The effect at the head is carried out. *)
LEMMA LeavesPopped ==
  ASSUME NEW way \in Seq(Tasks), way # << >>, NEW t
  PROVE  /\ Len(way) \in Nat \ {0} /\ Len(Tail(way)) = Len(way) - 1 /\ way[1] = Head(way)
         /\ \A i \in 1 .. Len(way) - 1 : Tail(way)[i] = way[i + 1]
         /\ \A k, i \in 0 .. Len(way) - 1 :
              Leaves(Tail(way), t, k, i) <=> Leaves(way, t, k + 1, i + 1)
         /\ \A i \in 1 .. Len(way) :
              Leaves(way, t, 0, i) <=>
                \/ Head(way).kind = "unplug" /\ t \in Head(way).sessions
                \/ Leaves(way, t, 1, i)
  <1> DEFINE rest == Tail(way)
             n == Len(way)
  <1>1. n \in Nat \ {0} /\ way[1] = Head(way)
    BY EmptySeq, LenProperties
  <1>2. Len(rest) = n - 1 /\ \A i \in 1 .. n - 1 : rest[i] = way[i + 1]
    BY HeadTailProperties
  <1> HIDE DEF rest, n
  <1>3. ASSUME NEW k \in 0 .. n - 1, NEW i \in 0 .. n - 1
        PROVE  Leaves(rest, t, k, i) <=> Leaves(way, t, k + 1, i + 1)
    <2>1. ASSUME NEW j \in k + 1 .. i, rest[j].kind = "unplug", t \in rest[j].sessions
          PROVE  Leaves(way, t, k + 1, i + 1)
      <3>1. j + 1 \in k + 1 + 1 .. i + 1 /\ rest[j] = way[j + 1]
        BY <1>1, <1>2
      <3> QED
        BY <2>1, <3>1 DEF Leaves
    <2>2. ASSUME NEW j \in k + 1 + 1 .. i + 1, way[j].kind = "unplug", t \in way[j].sessions
          PROVE  Leaves(rest, t, k, i)
      <3>1. j - 1 \in k + 1 .. i /\ rest[j - 1] = way[j - 1 + 1] /\ j - 1 + 1 = j
        BY <1>1, <1>2
      <3> QED
        BY <2>2, <3>1 DEF Leaves
    <2> QED
      BY <2>1, <2>2 DEF Leaves
  <1>4. ASSUME NEW i \in 1 .. n
        PROVE  Leaves(way, t, 0, i) <=>
                 \/ Head(way).kind = "unplug" /\ t \in Head(way).sessions
                 \/ Leaves(way, t, 1, i)
    <2>1. \A j : j \in 0 + 1 .. i <=> j = 1 \/ j \in 1 + 1 .. i
      BY <1>1
    <2> QED
      BY <1>1, <2>1 DEF Leaves
  <1> QED
    BY <1>1, <1>2, <1>3, <1>4 DEF rest, n

LEMMA AgreePopped ==
  ASSUME NEW shown \in SUBSET Pairs, NEW way \in Seq(Tasks), NEW table \in SUBSET Monitors,
         NEW failed, Agree(shown, way, table, failed), way # << >>,
         NEW after \in SUBSET Pairs, NEW failures, NEW e, e = Head(way),
         \* what is shown was, and stays, or is plugged now
         \A p \in after :
           \/ p \in shown /\ ~(e.kind = "unplug" /\ p.session \in e.sessions)
           \/ e = Plug(p.session, p.connector),
         \A p \in shown :
           \/ p \in after
           \/ e.kind = "unplug" /\ p.session \in e.sessions
           \/ \E c \in Connectors : e = Plug(p.session, c),
         \* a plug succeeds or fails
         \A t \in Sessions, c \in Connectors :
           e = Plug(t, c) => Pair(t, c) \in after \/ t \in failures,
         \A t \in failed : t \in failures \/ \E c \in Connectors : e = Plug(t, c),
         \A t \in failures :
           \/ t \in failed /\ \A c \in Connectors : e # Plug(t, c)
           \/ \E c \in Connectors : e = Plug(t, c) /\ Pair(t, c) \notin after
  PROVE  Agree(after, Tail(way), table, failures)
  <1> DEFINE rest == Tail(way)
             n == Len(way)
             Unplugs(t) == e.kind = "unplug" /\ t \in e.sessions
  <1>1. /\ n \in Nat \ {0} /\ Len(rest) = n - 1 /\ way[1] = e
        /\ \A i \in 1 .. n - 1 : rest[i] = way[i + 1]
    BY LeavesPopped
  <1>2. \A t : \A k, i \in 0 .. n - 1 :
          Leaves(rest, t, k, i) <=> Leaves(way, t, k + 1, i + 1)
    BY LeavesPopped
  <1>3. \A t : \A i \in 1 .. n : Leaves(way, t, 0, i) <=> Unplugs(t) \/ Leaves(way, t, 1, i)
    BY LeavesPopped
  <1>4. \A p \in after :
          (p \in shown /\ ~Unplugs(p.session)) \/ e = Plug(p.session, p.connector)
    OBVIOUS
  <1>5. \A p \in shown : \/ p \in after \/ Unplugs(p.session)
                         \/ \E c \in Connectors : e = Plug(p.session, c)
    OBVIOUS
  <1>6. Len(way) = n
    OBVIOUS
  <1> HIDE DEF rest, n, Unplugs
  <1>7. Lasting(shown, way, table) /\ Apart(shown, way) /\ Due(shown, way, table, failed)
        /\ \A p \in shown : p.session \notin failed
    BY DEF Agree
  \* nothing shown has the session or the connector the head plugs
  <1>8. ASSUME NEW p \in shown, NEW s \in Sessions, NEW c \in Connectors, e = Plug(s, c)
        PROVE  p.session # s /\ p.connector # c
    <2> SUFFICES ASSUME p.session = s \/ p.connector = c PROVE FALSE
      OBVIOUS
    <2>1. /\ p.session \in Sessions /\ p.connector \in Connectors
          /\ At(shown, way, p.session, p.connector, 0)
      BY PairFields DEF At, Pairs
    <2>2. 1 \in 1 .. n /\ 0 \in 0 .. 1 - 1 /\ At(shown, way, s, c, 1)
      BY <1>1, <1>8 DEF At
    <2>3. Leaves(way, p.session, 0, 1 - 1)
      BY <1>6, <1>7, <2>1, <2>2 DEF Apart
    <2> QED
      BY <2>3 DEF Leaves
  \* where a place in the rest comes from
  <1>9. ASSUME NEW t \in Sessions, NEW d \in Connectors, NEW k \in 0 .. n - 1,
               At(after, rest, t, d, k)
        PROVE  \E j \in 0 .. k + 1 :
                 /\ At(shown, way, t, d, j)
                 /\ \A i \in 0 .. n - 1 : Leaves(way, t, j, i + 1) <=> Leaves(rest, t, k, i)
    <2>1. \A i \in 0 .. n - 1 : Leaves(way, t, k + 1, i + 1) <=> Leaves(rest, t, k, i)
      BY <1>2
    <2>2. k + 1 \in 0 .. k + 1 /\ 0 \in 0 .. k + 1
      OBVIOUS
    <2>3. CASE k # 0
      <3>1. At(shown, way, t, d, k + 1)
        <4>1. rest[k] = Plug(t, d) /\ k \in 1 .. n - 1
          BY <1>1, <1>9, <2>3 DEF At
        <4>2. way[k + 1] = Plug(t, d) /\ k + 1 # 0
          BY <1>1, <4>1
        <4> QED
          BY <4>2 DEF At
      <3> QED
        BY <2>1, <2>2, <3>1
    <2>4. CASE k = 0
      <3>1. Pair(t, d) \in after
        BY <1>9, <2>4 DEF At
      <3>2. (Pair(t, d) \in shown /\ ~Unplugs(t)) \/ e = Plug(t, d)
        BY <1>4, <3>1, PairFields
      <3>3. CASE Pair(t, d) \in shown /\ ~Unplugs(t)
        <4>1. At(shown, way, t, d, 0)
          BY <3>3 DEF At
        <4>2. \A i \in 0 .. n - 1 : Leaves(way, t, 0, i + 1) <=> Leaves(way, t, 1, i + 1)
          <5>1. \A i \in 0 .. n - 1 : i + 1 \in 1 .. n
            BY <1>1
          <5> QED
            BY <1>3, <3>3, <5>1
        <4> QED
          BY <2>1, <2>2, <2>4, <4>1, <4>2
      <3>4. CASE e = Plug(t, d)
        <4>1. At(shown, way, t, d, k + 1)
          BY <1>1, <2>4, <3>4 DEF At
        <4> QED
          BY <2>1, <2>2, <4>1
      <3> QED
        BY <3>2, <3>3, <3>4
    <2> QED
      BY <2>3, <2>4
  <1>10. Apart(after, rest)
    <2>1. ASSUME NEW p \in after, NEW q \in after,
                 p.session = q.session \/ p.connector = q.connector
          PROVE  p = q
      <3>1. /\ p.session \in Sessions /\ p.connector \in Connectors
            /\ q.session \in Sessions /\ q.connector \in Connectors
            /\ p = Pair(p.session, p.connector) /\ q = Pair(q.session, q.connector)
        BY PairFields DEF Pairs
      <3>2. CASE p \in shown /\ q \in shown
        BY <1>7, <2>1, <3>2 DEF Apart
      <3>3. CASE e = Plug(p.session, p.connector)
        <4>1. q \notin shown
          BY <1>8, <2>1, <3>1, <3>3
        <4>2. e = Plug(q.session, q.connector)
          BY <1>4, <4>1
        <4>3. p.session = q.session /\ p.connector = q.connector
          BY <3>3, <4>2 DEF Plug
        <4> QED
          BY <3>1, <3>3, <4>2, <4>3, Zenon
      <3>4. CASE e = Plug(q.session, q.connector)
        <4>1. p \notin shown
          BY <1>8, <2>1, <3>1, <3>4
        <4>2. e = Plug(p.session, p.connector)
          BY <1>4, <4>1
        <4>3. p.session = q.session /\ p.connector = q.connector
          BY <3>4, <4>2 DEF Plug
        <4> QED
          BY <3>1, <3>4, <4>2, <4>3, Zenon
      <3> QED
        BY <1>4, <3>2, <3>3, <3>4
    <2>2. ASSUME NEW i \in 1 .. n - 1, NEW k \in 0 .. i - 1,
                 NEW t \in Sessions, NEW s \in Sessions,
                 NEW d \in Connectors, NEW c \in Connectors,
                 At(after, rest, t, d, k), At(after, rest, s, c, i), s = t \/ c = d
          PROVE  Leaves(rest, t, k, i - 1)
      <3>1. k \in 0 .. n - 1 /\ i - 1 \in 0 .. n - 1 /\ i + 1 \in 1 .. n /\ i - 1 + 1 = i + 1 - 1
        BY <1>1
      <3>2. PICK j \in 0 .. k + 1 :
              /\ At(shown, way, t, d, j)
              /\ \A h \in 0 .. n - 1 : Leaves(way, t, j, h + 1) <=> Leaves(rest, t, k, h)
        BY <1>9, <2>2, <3>1
      <3>3. At(shown, way, s, c, i + 1)
        <4>1. rest[i] = Plug(s, c)
          BY <2>2 DEF At
        <4>2. way[i + 1] = Plug(s, c) /\ i + 1 # 0
          BY <1>1, <4>1
        <4> QED
          BY <4>2 DEF At
      <3>4. j \in 0 .. i + 1 - 1
        BY <1>1
      <3>5. Leaves(way, t, j, i + 1 - 1)
        BY <1>6, <1>7, <2>2, <3>1, <3>2, <3>3, <3>4 DEF Apart
      <3>6. Leaves(way, t, j, i - 1 + 1)
        BY <3>1, <3>5
      <3> QED
        BY <3>1, <3>2, <3>6
    <2> QED
      BY <1>1, <2>1, <2>2 DEF Apart
  <1>11. Lasting(after, rest, table)
    <2> SUFFICES ASSUME NEW k \in 0 .. Len(rest), NEW t \in Sessions, NEW d \in Connectors,
                        At(after, rest, t, d, k)
                 PROVE  \/ Leaves(rest, t, k, Len(rest))
                        \/ \E m \in table : m.session = t /\ m.connector = d
      BY DEF Lasting
    <2>0. k \in 0 .. n - 1
      BY <1>1
    <2>1. PICK j \in 0 .. k + 1 :
            /\ At(shown, way, t, d, j)
            /\ \A h \in 0 .. n - 1 : Leaves(way, t, j, h + 1) <=> Leaves(rest, t, k, h)
      BY <1>9, <2>0
    <2>2. j \in 0 .. n /\ n - 1 \in 0 .. n - 1 /\ n - 1 + 1 = n
      BY <1>1
    <2>3. Leaves(way, t, j, n) \/ \E m \in table : m.session = t /\ m.connector = d
      BY <1>6, <1>7, <2>1, <2>2 DEF Lasting
    <2>4. Leaves(way, t, j, n) <=> Leaves(rest, t, k, n - 1)
      BY <2>1, <2>2
    <2> QED
      BY <1>1, <2>3, <2>4
  <1>12. Due(after, rest, table, failures)
    <2> SUFFICES ASSUME NEW m \in table
                 PROVE  Comes(after, rest, m)
                        \/ (m.session \in failures /\ NotComing(rest, m.session))
      BY DEF Due
    <2> DEFINE t == m.session
               d == m.connector
    <2>0. t \in Sessions /\ d \in Connectors
      BY DEF Monitors
    <2> HIDE DEF t, d
    <2>n. n - 1 \in 0 .. n - 1 /\ 0 \in 0 .. n - 1 /\ n - 1 + 1 = n /\ n \in 1 .. n
      BY <1>1
    <2>1. ASSUME NEW k \in 0 .. n, At(shown, way, t, d, k), ~Leaves(way, t, k, n)
          PROVE  Comes(after, rest, m)
                 \/ (t \in failures /\ NotComing(rest, t))
      <3>1. CASE k \in 2 .. n
        <4>1. k - 1 \in 0 .. n - 1 /\ k - 1 + 1 = k /\ k - 1 \in 1 .. n - 1
          BY <1>1, <3>1
        <4>2. At(after, rest, t, d, k - 1)
          <5>1. way[k] = Plug(t, d) /\ rest[k - 1] = way[k] /\ k - 1 # 0
            BY <1>1, <2>1, <3>1, <4>1 DEF At
          <5> QED
            BY <5>1 DEF At
        <4>3. ~Leaves(rest, t, k - 1, n - 1)
          BY <1>2, <2>1, <2>n, <4>1
        <4> QED
          BY <1>1, <4>1, <4>2, <4>3 DEF Comes, t, d
      <3>2. CASE k = 1
        <4>1. e = Plug(t, d)
          BY <1>1, <2>1, <3>2 DEF At
        <4>2. CASE Pair(t, d) \in after
          <5>1. At(after, rest, t, d, 0)
            BY <4>2 DEF At
          <5>2. ~Leaves(rest, t, 0, n - 1)
            BY <1>2, <2>1, <2>n, <3>2
          <5> QED
            BY <1>1, <2>n, <5>1, <5>2 DEF Comes, t, d
        <4>3. CASE t \in failures
          <5>1. NotComing(rest, t)
            <6> SUFFICES ASSUME NEW j \in 1 .. n - 1, NEW c \in Connectors,
                                rest[j] = Plug(t, c)
                         PROVE  FALSE
              BY <1>1 DEF NotComing
            <6>1. j + 1 \in 1 .. n /\ 1 \in 0 .. j + 1 - 1 /\ j + 1 # 0 /\ j + 1 - 1 \in 0 .. n
              BY <1>1
            <6>2. At(shown, way, t, c, j + 1)
              BY <1>1, <6>1 DEF At
            <6>3. Leaves(way, t, 1, j + 1 - 1)
              BY <1>6, <1>7, <2>0, <2>1, <3>2, <6>1, <6>2 DEF Apart
            <6>4. Leaves(way, t, 1, n)
              BY <1>1, <6>1, <6>3 DEF Leaves
            <6> QED
              BY <2>1, <3>2, <6>4
          <5> QED
            BY <4>3, <5>1
        <4> QED
          BY <2>0, <4>1, <4>2, <4>3
      <3>3. CASE k = 0
        <4>1. Pair(t, d) \in shown
          BY <2>1, <3>3 DEF At
        <4>2. ~Unplugs(t) /\ ~Leaves(way, t, 1, n)
          BY <1>3, <2>1, <2>n, <3>3
        <4>3. \A c \in Connectors : e # Plug(t, c)
          BY <1>8, <2>0, <4>1, PairFields
        <4>4. Pair(t, d) \in after
          BY <1>5, <4>1, <4>2, <4>3, PairFields
        <4>5. At(after, rest, t, d, 0)
          BY <4>4 DEF At
        <4>6. ~Leaves(rest, t, 0, n - 1)
          BY <1>2, <2>n, <4>2
        <4> QED
          BY <1>1, <2>n, <4>5, <4>6 DEF Comes, t, d
      <3>4. k \in 2 .. n \/ k = 1 \/ k = 0
        BY <1>1
      <3> QED
        BY <3>1, <3>2, <3>3, <3>4
    <2>2. ASSUME t \in failed, NotComing(way, t)
          PROVE  t \in failures /\ NotComing(rest, t)
      <3>1. \A c \in Connectors : e # Plug(t, c)
        BY <1>1, <1>6, <2>2 DEF NotComing
      <3>2. \A j \in 1 .. n - 1 : j + 1 \in 1 .. n
        BY <1>1
      <3> QED
        BY <1>1, <1>6, <2>2, <3>1, <3>2 DEF NotComing
    <2>3. Comes(shown, way, m) \/ (t \in failed /\ NotComing(way, t))
      BY <1>7 DEF Due, t
    <2> QED
      BY <1>6, <2>1, <2>2, <2>3 DEF Comes, t, d
  <1>13. \A p \in after : p.session \notin failures
    <2> SUFFICES ASSUME NEW p \in after, p.session \in failures PROVE FALSE
      OBVIOUS
    <2>1. /\ p.session \in Sessions /\ p.connector \in Connectors
          /\ p = Pair(p.session, p.connector)
      BY PairFields DEF Pairs
    <2>2. p \in shown \/ e = Plug(p.session, p.connector)
      BY <1>4
    <2>3. CASE p.session \in failed /\ \A c \in Connectors : e # Plug(p.session, c)
      BY <1>7, <2>1, <2>2, <2>3
    <2>4. ASSUME NEW c \in Connectors, e = Plug(p.session, c), Pair(p.session, c) \notin after
          PROVE  FALSE
      BY <1>8, <2>1, <2>2, <2>4, PlugFields
    <2> QED
      BY <2>3, <2>4
  <1> QED
    BY <1>10, <1>11, <1>12, <1>13 DEF Agree, rest

-----------------------------------------------------------------------------
(***************************************************************************)
(* The shell follows the table: what is shown, and what is on its way (the *)
(* startup's own effects until its adapter is published), agree with it.   *)
(***************************************************************************)
Visible == {Pair(p.session, p.connector) : p \in Arrived}
Pending == IF adapter THEN Way ELSE Launch

AgreeInv ==
  /\ \A m, n \in monitors : m.session = n.session => m = n
  /\ adapter \/ Launching => Agree(Visible, Pending, monitors, unplugged)

LEMMA AgreeTypes ==
  ASSUME IInv, SerialInv
  PROVE  /\ Visible \in SUBSET Pairs /\ Way \in Seq(Tasks) /\ Launch \in Seq(KeptEffects)
         /\ Pending \in Seq(Tasks) /\ monitors \in SUBSET Monitors
  <1>1. Visible \in SUBSET Pairs
    <2> SUFFICES ASSUME NEW p \in Arrived PROVE Pair(p.session, p.connector) \in Pairs
      BY DEF Visible
    <2>1. p \in [session : Sessions, connector : Connectors, epoch : Nat]
      BY DEF Arrived, IInv, ShellInv
    <2> QED
      BY <2>1 DEF Pair, Pairs
  <1>2. Launch \in Seq(KeptEffects)
    BY GrowthEffectsKept DEF Launch, IInv, WorkerInv
  <1>3. Way \in Seq(Tasks)
    BY WayTyped
  <1>4. Pending \in Seq(Tasks)
    BY <1>2, <1>3, EffectsAreTasks DEF Pending
  <1> QED
    BY <1>1, <1>2, <1>3, <1>4 DEF IInv, TableInv

(* Only a device that is up has an adapter, or one on its way. *)
LEMMA UpWithAdapter ==
  ASSUME IInv, BringUpInv, adapter \/ Launching
  PROVE  pnp = "up"
  <1>1. CASE adapter
    BY <1>1 DEF BringUpInv
  <1>2. CASE Launching
    <2>1. /\ queue \in Seq(Tasks) /\ queue # << >> /\ Head(queue).kind = "ready"
          /\ Head(queue).epoch = epoch
      BY <1>2 DEF Launching, IInv, WorkerInv, AtHead
    <2>2. Len(queue) \in Nat \ {0} /\ queue[1] = Head(queue)
      BY <2>1, EmptySeq, LenProperties
    <2>3. 1 \in ReadiesOf(queue)
      BY <2>1, <2>2 DEF ReadiesOf
    <2> QED
      BY <2>1, <2>2, <2>3 DEF BringUpInv, OneBringUp
  <1> QED
    BY <1>1, <1>2

(* No monitor of the table has the session or the connector of a new one. *)
LEMMA NewcomerApart ==
  ASSUME IInv, IInv', NEW s, NEW d, NEW leased, NEW c, CanCreate(s, d),
         Create(s, d, leased, c)
  PROVE  \E new : /\ new.session = s /\ new.connector = c
                  /\ monitors' = monitors \cup {new}
                  /\ \A m \in monitors : m.session # s /\ m.connector # c
  <1> DEFINE new == [session |-> s, display |-> d, ephemeral |-> d >= EphemeralBase,
                     connector |-> c, leased |-> leased, stale |-> FALSE]
  <1>1. monitors' = monitors \cup {new}
    BY DEF Create
  <1>2. new.session = s /\ new.connector = c /\ new.display = d
    OBVIOUS
  <1> HIDE DEF new
  <1>3. /\ Distinct(reserved')
        /\ \A m \in monitors' :
             \E r \in reserved' : r.display = m.display /\ r.connector = m.connector
    BY DEF IInv, TableInv, Reserved
  <1>4. ASSUME NEW m \in monitors PROVE m.session # s /\ m.connector # c
    <2>1. m.session # s /\ m.display # d
      BY DEF CanCreate, Live
    <2>2. PICK r \in reserved' : r.display = m.display /\ r.connector = m.connector
      BY <1>1, <1>3
    <2>3. PICK q \in reserved' : q.display = d /\ q.connector = c
      BY <1>1, <1>2, <1>3
    <2> QED
      BY <1>3, <2>1, <2>2, <2>3 DEF Distinct
  <1> QED
    BY <1>1, <1>2, <1>4

LEMMA AppendPair ==
  ASSUME NEW S, NEW way \in Seq(S), NEW a \in S, NEW b \in S
  PROVE  /\ way \o << a, b >> = Append(Append(way, a), b)
         /\ way \o << a >> = Append(way, a)
         /\ Append(way, a) \in Seq(S)
  <1>1. way \o << a >> = Append(way, a) /\ Append(way, a) \in Seq(S)
    BY AppendIsConcat, AppendProperties
  <1>2. Append(Append(way, a), b) = (way \o << a >>) \o << b >>
    BY <1>1, AppendIsConcat
  <1>3. (way \o << a >>) \o << b >> = way \o (<< a >> \o << b >>)
    <2>1. << a >> \in Seq(S) /\ << b >> \in Seq(S)
      OBVIOUS
    <2>2. \A s, t, u \in Seq(S) : (s \o t) \o u = s \o (t \o u)
      BY ConcatAssociative
    <2> QED
      BY <2>1, <2>2, Zenon
  <1>4. << a >> \o << b >> = << a, b >>
    <2>1. << a >> \in Seq(S) /\ << b >> \in Seq(S)
      OBVIOUS
    <2>2. /\ << a >> \o << b >> \in Seq(S) /\ Len(<< a >> \o << b >>) = 2
          /\ (<< a >> \o << b >>)[1] = a /\ (<< a >> \o << b >>)[2] = b
      BY <2>1, ConcatProperties
    <2>3. << a, b >> \in Seq(S)
      OBVIOUS
    <2> DEFINE s == << a >> \o << b >>
    <2>4. \A i \in 1 .. Len(s) : s[i] = << a, b >>[i]
      BY <2>2
    <2> QED
      BY <2>2, <2>3, <2>4, SeqEqual
  <1> QED
    BY <1>1, <1>2, <1>3, <1>4

(* The table and what is shown stay, and what is on its way too. *)
LEMMA AgreeUnchanged ==
  ASSUME AgreeInv, UNCHANGED <<monitors, unplugged, plugged, epoch, adapter>>,
         Launching' => Launching, adapter \/ Launching => Pending' = Pending
  PROVE  AgreeInv'
  <1>1. Visible' = Visible
    BY DEF Visible, Arrived
  <1> QED
    BY <1>1 DEF AgreeInv

(* The handlers *)

LEMMA AgreeCreate ==
  ASSUME Serial, IInv, IInv', SerialInv, AgreeInv, NEW c \in Callers, NEW s \in HostSessions,
         NEW d \in Displays \cup {EphemeralId(s)}, NEW leased \in BOOLEAN,
         HostCreate(c, s, d, leased)
  PROVE  AgreeInv'
  <1>1. PICK conn \in Connectors :
          /\ Create(s, d, leased, conn)
          /\ Decide(c, << Plug(s, conn), Persist(reserved', pool) >>)
    BY DEF HostCreate
  <1>2. /\ CanCreate(s, d) /\ adapter /\ growth = {} /\ Settled /\ s \in Sessions
        /\ UNCHANGED <<growth, queue, wpc, adapter, epoch, plugged, unplugged>>
    BY DEF HostCreate, MayDispatch, Unlocked, workerVars, shellVars, Sessions
  <1>3. PICK new : /\ new.session = s /\ new.connector = conn
                   /\ monitors' = monitors \cup {new}
                   /\ \A m \in monitors : m.session # s /\ m.connector # conn
    BY <1>1, <1>2, NewcomerApart
  <1>4. PICK e : e = Persist(reserved', pool)
    OBVIOUS
  <1>5. /\ Plug(s, conn) \in KeptEffects /\ e \in KeptEffects /\ e.kind = "persist"
        /\ Plug(s, conn) \in Tasks /\ e \in Tasks
    <2>1. Plug(s, conn) \in KeptEffects
      BY <1>2, PlugKept
    <2>2. e \in KeptEffects
      BY <1>4, PersistKept DEF IInv, TableInv, Reserved, GrowthInv
    <2>3. e.kind = "persist"
      BY <1>4 DEF Persist
    <2> QED
      BY <2>1, <2>2, <2>3 DEF Tasks
  <1>6. Way' = Way \o << Plug(s, conn), e >>
    <2>1. << Plug(s, conn), e >> \in Seq(KeptEffects)
      BY <1>5
    <2>2. Decide(c, << Plug(s, conn), e >>)
      BY <1>1, <1>4
    <2> QED
      BY <1>2, <2>1, <2>2, WayDecided
  <1>7. Way \in Seq(Tasks)
    BY AgreeTypes
  <1>8. /\ Way' = Append(Append(Way, Plug(s, conn)), e)
        /\ Append(Way, Plug(s, conn)) \in Seq(Tasks)
    BY <1>5, <1>6, <1>7, AppendPair
  <1>9. Agree(Visible, Way, monitors, unplugged)
    BY <1>2 DEF AgreeInv, Pending
  <1>10. Agree(Visible, Append(Way, Plug(s, conn)), monitors \cup {new}, unplugged)
    BY <1>2, <1>3, <1>7, <1>9, AgreePlug
  <1>11. Agree(Visible, Append(Append(Way, Plug(s, conn)), e), monitors \cup {new}, unplugged)
    <2> DEFINE longer == Append(Way, Plug(s, conn))
               table == monitors \cup {new}
    <2>1. longer \in Seq(Tasks) /\ Agree(Visible, longer, table, unplugged)
      BY <1>8, <1>10
    <2>2. table \in SUBSET table /\ e.kind # "plug"
          /\ \A m \in table : m \in table <=> ~(e.kind = "unplug" /\ m.session \in e.sessions)
      BY <1>5
    <2> HIDE DEF longer, table
    <2>3. Agree(Visible, Append(longer, e), table, unplugged)
      BY <1>5, <2>1, <2>2, AgreeOther
    <2> QED
      BY <2>3 DEF longer, table
  <1>12. Visible' = Visible /\ Pending' = Way'
    BY <1>2 DEF Visible, Arrived, Pending
  <1>13. Agree(Visible', Pending', monitors', unplugged')
    BY <1>2, <1>3, <1>8, <1>11, <1>12
  <1>14. \A m, n \in monitors' : m.session = n.session => m = n
    BY <1>3 DEF AgreeInv
  <1> QED
    BY <1>13, <1>14 DEF AgreeInv

(* DESTROY_MONITOR and the watchdog's sweep *)
LEMMA AgreeLeave ==
  ASSUME IInv, IInv', SerialInv, AgreeInv, NEW c \in Callers,
         adapter, growth = {}, Settled, NEW left \in SUBSET Sessions,
         monitors' = {m \in monitors : m.session \notin left},
         Decide(c, << Unplug(left), Persist(reserved', pool) >>),
         UNCHANGED <<growth, queue, wpc, adapter, epoch, plugged, unplugged>>
  PROVE  AgreeInv'
  <1>4. PICK e : e = Persist(reserved', pool)
    OBVIOUS
  <1> DEFINE u == Unplug(left)
  <1>5. /\ u \in KeptEffects /\ e \in KeptEffects /\ e.kind = "persist"
        /\ u \in Tasks /\ e \in Tasks /\ u.kind = "unplug" /\ u.sessions = left
    <2>1. u \in KeptEffects
      BY UnplugKept
    <2>2. e \in KeptEffects
      BY <1>4, PersistKept DEF IInv, TableInv, Reserved, GrowthInv
    <2>3. e.kind = "persist" /\ u.kind = "unplug" /\ u.sessions = left
      BY <1>4 DEF Persist, Unplug
    <2> QED
      BY <2>1, <2>2, <2>3 DEF Tasks
  <1>6. Way' = Way \o << u, e >>
    <2>1. << u, e >> \in Seq(KeptEffects)
      BY <1>5
    <2>2. Decide(c, << u, e >>)
      BY <1>4
    <2> QED
      BY <2>1, <2>2, WayDecided
  <1> HIDE DEF u
  <1>7. Way \in Seq(Tasks)
    BY AgreeTypes
  <1>8. Way' = Append(Append(Way, u), e) /\ Append(Way, u) \in Seq(Tasks)
    BY <1>5, <1>6, <1>7, AppendPair
  <1>9. Agree(Visible, Way, monitors, unplugged)
    BY DEF AgreeInv, Pending
  <1>k. PICK kept \in SUBSET monitors : kept = {m \in monitors : m.session \notin left}
    OBVIOUS
  <1>10. Agree(Visible, Append(Way, u), kept, unplugged)
    <2>1. \A m \in monitors : m \in kept <=> ~(u.kind = "unplug" /\ m.session \in u.sessions)
      BY <1>5, <1>k
    <2> QED
      BY <1>5, <1>7, <1>9, <2>1, AgreeOther
  <1>11. Agree(Visible, Append(Append(Way, u), e), kept, unplugged)
    <2> DEFINE longer == Append(Way, u)
    <2>1. longer \in Seq(Tasks) /\ Agree(Visible, longer, kept, unplugged)
      BY <1>8, <1>10
    <2>2. kept \in SUBSET kept /\ e.kind # "plug"
          /\ \A m \in kept : m \in kept <=> ~(e.kind = "unplug" /\ m.session \in e.sessions)
      BY <1>5
    <2> HIDE DEF longer
    <2>3. Agree(Visible, Append(longer, e), kept, unplugged)
      BY <1>5, <2>1, <2>2, AgreeOther
    <2> QED
      BY <2>3 DEF longer
  <1>12. Visible' = Visible /\ Pending' = Way'
    BY DEF Visible, Arrived, Pending
  <1>13. Agree(Visible', Pending', monitors', unplugged')
    BY <1>8, <1>11, <1>12, <1>k
  <1> QED
    BY <1>13 DEF AgreeInv

LEMMA AgreeDestroy ==
  ASSUME Serial, IInv, IInv', SerialInv, AgreeInv, NEW c \in Callers,
         NEW s \in HostSessions, HostDestroy(c, s)
  PROVE  AgreeInv'
  <1>1. /\ adapter /\ growth = {} /\ Settled /\ {s} \in SUBSET Sessions
        /\ monitors' = {m \in monitors : m.session \notin {s}}
        /\ Decide(c, << Unplug({s}), Persist(reserved', pool) >>)
        /\ UNCHANGED <<growth, queue, wpc, adapter, epoch, plugged, unplugged>>
    BY DEF HostDestroy, MayDispatch, Unlocked, Remove, workerVars, shellVars, Sessions
  <1> QED
    BY <1>1, AgreeLeave

LEMMA AgreeWatchdog ==
  ASSUME Serial, IInv, IInv', SerialInv, AgreeInv, WatchdogTick
  PROVE  AgreeInv'
  <1> DEFINE left == {m.session : m \in Expired}
  <1>1. /\ adapter /\ growth = {} /\ Settled /\ "watchdog" \in Callers
        /\ monitors' = monitors \ Expired
        /\ Decide("watchdog", << Unplug(left), Persist(reserved', pool) >>)
        /\ UNCHANGED <<growth, queue, wpc, adapter, epoch, plugged, unplugged>>
    BY DEF WatchdogTick, MayDispatch, Unlocked, Remove, workerVars, shellVars, Callers
  <1>2. left \in SUBSET Sessions
    BY DEF Expired, IInv, TableInv, Monitors
  <1>3. \A m \in monitors : m \in Expired <=> m.session \in left
    BY DEF AgreeInv, Expired
  <1> HIDE DEF left
  <1>4. monitors' = {m \in monitors : m.session \notin left}
    BY <1>1, <1>3
  <1> QED
    BY <1>1, <1>2, <1>4, AgreeLeave

(* PING and a lease that runs out *)
LEMMA AgreeLease ==
  ASSUME IInv, AgreeInv,
         (\E s \in HostSessions : Ping(s)) \/ (\E m \in monitors : LeaseRunsOut(m))
  PROVE  AgreeInv'
  <1>1. UNCHANGED <<growth, held, queue, workerVars, shellVars, plugged, unplugged>>
    BY DEF Ping, LeaseRunsOut
  <1>2. \E f : /\ monitors' = {f[m] : m \in monitors}
               /\ \A m \in monitors : /\ f[m].session = m.session
                                      /\ f[m].connector = m.connector
    <2>1. ASSUME NEW s \in HostSessions, Ping(s)
          PROVE  \E f : /\ monitors' = {f[m] : m \in monitors}
                        /\ \A m \in monitors : /\ f[m].session = m.session
                                               /\ f[m].connector = m.connector
      <3> DEFINE f == [m \in monitors |->
                         IF m.session = s THEN [m EXCEPT !.stale = FALSE] ELSE m]
      <3>1. monitors' = {f[m] : m \in monitors}
        BY <2>1 DEF Ping
      <3>2. \A m \in monitors : f[m].session = m.session /\ f[m].connector = m.connector
        BY DEF IInv, TableInv, Monitors
      <3> QED
        BY <3>1, <3>2
    <2>2. ASSUME NEW o \in monitors, LeaseRunsOut(o)
          PROVE  \E f : /\ monitors' = {f[m] : m \in monitors}
                        /\ \A m \in monitors : /\ f[m].session = m.session
                                               /\ f[m].connector = m.connector
      <3> DEFINE late == [o EXCEPT !.stale = TRUE]
                 f == [m \in monitors |-> IF m = o THEN late ELSE m]
      <3>1. monitors' = (monitors \ {o}) \cup {late}
        BY <2>2 DEF LeaseRunsOut
      <3>2. late.session = o.session /\ late.connector = o.connector
        BY DEF IInv, TableInv, Monitors
      <3> HIDE DEF late
      <3>3. monitors' = {f[m] : m \in monitors}
        BY <3>1
      <3>4. \A m \in monitors : f[m].session = m.session /\ f[m].connector = m.connector
        BY <3>2
      <3> QED
        BY <3>3, <3>4
    <2> QED
      BY <2>1, <2>2
  <1>3. PICK f : /\ monitors' = {f[m] : m \in monitors}
                 /\ \A m \in monitors : /\ f[m].session = m.session
                                        /\ f[m].connector = m.connector
    BY <1>2
  <1>4. Visible' = Visible /\ Pending' = Pending /\ (Launching' <=> Launching)
    BY <1>1 DEF Visible, Arrived, Pending, Way, Ours, GrowthEffects, Launch, Launching,
                workerVars, shellVars
  <1>5. \A m, n \in monitors' : m.session = n.session => m = n
    BY <1>3 DEF AgreeInv
  <1>6. ASSUME adapter \/ Launching PROVE Agree(Visible, Pending, monitors', unplugged)
    <2>1. Agree(Visible, Pending, monitors, unplugged)
      BY <1>6 DEF AgreeInv
    <2>2. \A m \in monitors :
            \E n \in monitors' : n.session = m.session /\ n.connector = m.connector
      BY <1>3
    <2>3. \A n \in monitors' :
            \E m \in monitors : n.session = m.session /\ n.connector = m.connector
      BY <1>3
    <2> QED
      BY <2>1, <2>2, <2>3, AgreeTable
  <1> QED
    BY <1>1, <1>4, <1>5, <1>6 DEF AgreeInv, shellVars

(* The permanent pool.  The handler's effects join what is on its way, those of
   a startup the launch. *)
LEMMA AgreeSetPool ==
  ASSUME Serial, IInv, IInv', SerialInv, SerialInv', BringUpInv, AgreeInv,
         NEW c \in Callers,
         NEW desired \in [count : 0 .. MaxPool, settings : Settings],
         SetPool(c, desired)
  PROVE  AgreeInv'
  <1> DEFINE members == {PoolSession(i) : i \in ToDestroy(desired)}
             gone == {m \in monitors : m.session \in members}
             left == {m.session : m \in gone}
             effects == IF gone = {} THEN << >> ELSE << Unplug(left) >>
             g == [by |-> c, desired |-> desired, next |-> FirstNew(desired),
                   created |-> IF FirstNew(desired) >= desired.count THEN desired.count ELSE 0,
                   effects |-> effects]
  <1>1. {m \in monitors : \E i \in ToDestroy(desired) : m.session = PoolSession(i)} = gone
    OBVIOUS
  <1>2. /\ adapter /\ growth = {} /\ Settled /\ wpc # "startup"
        /\ UNCHANGED <<queue, held, wpc, adapter, epoch, plugged, unplugged>>
    BY DEF SetPool, MayDispatch, Unlocked, workerVars, shellVars, BringUpInv
  <1>3. monitors' = monitors \ gone
    BY <1>1 DEF SetPool, Remove
  <1>4. growth' = {g}
    BY <1>1 DEF SetPool
  <1>5. g.effects = effects
    OBVIOUS
  <1>6. left \in SUBSET Sessions
    BY DEF IInv, TableInv, Monitors
  <1>7. \A m \in monitors : m \in gone <=> m.session \in left
    OBVIOUS
  <1>8. gone = {} \/ effects = << Unplug(left) >>
    OBVIOUS
  <1>9. gone = {} => effects = << >>
    OBVIOUS
  <1> HIDE DEF gone, left, members, effects, g
  <1>10. GrowthEffects = << >> /\ GrowthEffects' = effects
    <2>1. GrowthEffects = << >>
      BY <1>2, GrowthEffectsOf
    <2>2. (CHOOSE h \in {g} : TRUE) = g
      BY OnlyOne
    <2>3. GrowthEffects' = g.effects
      BY <1>4, <2>2 DEF GrowthEffects
    <2> QED
      BY <1>5, <2>1, <2>3
  <1>11. effects \in Seq(KeptEffects) /\ GrowthEffects' = GrowthEffects \o effects
    <2>1. effects \in Seq(KeptEffects)
      <3>1. CASE gone = {}
        BY <1>9, <3>1, EmptySeq
      <3>2. CASE gone # {}
        <4> DEFINE e == Unplug(left)
        <4>1. e \in KeptEffects
          BY <1>6, UnplugKept
        <4>2. effects = << e >>
          BY <1>8, <3>2
        <4> HIDE DEF e
        <4>3. << e >> \in Seq(KeptEffects)
          BY <4>1
        <4> QED
          BY <4>2, <4>3
      <3> QED
        BY <3>1, <3>2
    <2> QED
      BY <1>10, <2>1, ConcatEmptySeq
  <1>12. Way' = Way \o effects
    BY <1>2, <1>11, WayCollected
  <1>13. Visible' = Visible /\ Pending' = Way' /\ Way \in Seq(Tasks)
    BY <1>2, AgreeTypes DEF Visible, Arrived, Pending
  <1>14. Agree(Visible, Way, monitors, unplugged)
    BY <1>2 DEF AgreeInv, Pending
  <1>15. Agree(Visible', Pending', monitors', unplugged')
    <2>1. CASE gone = {}
      <3>1. Way' = Way /\ monitors' = monitors
        BY <1>3, <1>9, <1>12, <1>13, <2>1, ConcatEmptySeq
      <3> QED
        BY <1>2, <1>13, <1>14, <3>1
    <2>2. CASE gone # {}
      <3> DEFINE e == Unplug(left)
      <3>1. e \in Tasks /\ e.kind = "unplug" /\ e.sessions = left
        BY <1>6, UnplugKept DEF Unplug, Tasks
      <3>2. effects = << e >>
        BY <1>8, <2>2
      <3> HIDE DEF e
      <3>3. Way' = Append(Way, e)
        BY <1>12, <1>13, <3>1, <3>2, AppendPair
      <3>4. PICK kept \in SUBSET monitors : kept = monitors \ gone
        OBVIOUS
      <3>5. \A m \in monitors : m \in kept <=> ~(e.kind = "unplug" /\ m.session \in e.sessions)
        BY <1>7, <3>1, <3>4
      <3>6. Agree(Visible, Append(Way, e), kept, unplugged)
        BY <1>13, <1>14, <3>1, <3>5, AgreeOther
      <3> QED
        BY <1>2, <1>3, <1>13, <3>3, <3>4, <3>6
    <2> QED
      BY <2>1, <2>2
  <1>16. \A m, n \in monitors' : m.session = n.session => m = n
    BY <1>3 DEF AgreeInv
  <1> QED
    BY <1>15, <1>16 DEF AgreeInv

(* A growing pool collects what joins it. *)
LEMMA GrowthCollected ==
  ASSUME IInv, SerialInv, IInv', SerialInv', BringUpInv, growth # {}, growth' # {},
         UNCHANGED <<queue, held, wpc, adapter, epoch>>,
         NEW more \in Seq(KeptEffects), GrowthEffects' = GrowthEffects \o more
  PROVE  /\ Pending' = Pending \o more
         /\ (Launching' <=> Launching) /\ (adapter \/ Launching => Pending \in Seq(Tasks))
  <1>1. PICK g : growth = {g}
    BY DEF SerialInv
  <1>2. Launching' <=> Launching
    BY DEF Launching
  <1>3. CASE g.by = "worker"
    <2>1. wpc = "startup" /\ ~adapter
      BY <1>1, <1>3 DEF IInv, WorkerInv, BringUpInv
    <2>2. Pending = GrowthEffects /\ Pending' = GrowthEffects'
      BY <2>1 DEF Pending, Launch
    <2> QED
      BY <1>2, <2>2, AgreeTypes
  <1>4. CASE g.by # "worker"
    <2>1. adapter /\ Settled /\ wpc # "startup"
      BY <1>1, <1>4 DEF SerialInv, BringUpInv
    <2>2. Way' = Way \o more
      BY <2>1, WayCollected
    <2> QED
      BY <1>2, <2>1, <2>2, AgreeTypes DEF Pending
  <1> QED
    BY <1>3, <1>4

LEMMA AgreeGrow ==
  ASSUME IInv, SerialInv, IInv', SerialInv', BringUpInv, AgreeInv, GrowPool
  PROVE  AgreeInv'
  <1>1. PICK g \in growth :
          /\ g.next < g.desired.count
          /\ \/ /\ CanCreate(PoolSession(g.next), PermanentId(g.next))
                /\ \E conn \in Connectors :
                     /\ Create(PoolSession(g.next), PermanentId(g.next), FALSE, conn)
                     /\ growth' = {[g EXCEPT !.next = @ + 1, !.created = g.next + 1,
                                  !.effects = Append(@, Plug(PoolSession(g.next), conn))]}
             \/ /\ growth' = {[g EXCEPT !.next = g.desired.count]}
                /\ UNCHANGED tableVars
    BY DEF GrowPool
  <1>2. UNCHANGED <<queue, held, wpc, adapter, epoch, plugged, unplugged>>
    BY DEF GrowPool, workerVars, shellVars
  <1>3. g \in [by : Callers \cup {"worker"}, desired : Pools, next : Nat,
               created : Nat, effects : Seq(KeptEffects)]
    BY DEF IInv, GrowthInv
  <1>4. growth = {g} /\ GrowthEffects = g.effects
    <2>1. growth = {g}
      BY DEF SerialInv
    <2> QED
      BY <2>1, GrowthEffectsOf
  <1>5. Visible' = Visible
    BY <1>2 DEF Visible, Arrived
  <1>6. ASSUME growth' = {[g EXCEPT !.next = g.desired.count]}, UNCHANGED tableVars
        PROVE  AgreeInv'
    <2> DEFINE h == [g EXCEPT !.next = g.desired.count]
    <2>1. growth' = {h} /\ h.effects = g.effects
      BY <1>3, <1>6
    <2> HIDE DEF h
    <2>2. GrowthEffects' = GrowthEffects
      <3>1. (CHOOSE k \in {h} : TRUE) = h
        BY OnlyOne
      <3> QED
        BY <1>4, <2>1, <3>1 DEF GrowthEffects
    <2>3. Pending' = Pending /\ (Launching' <=> Launching)
      BY <1>2, <2>2 DEF Pending, Way, Ours, Launch, Launching, GrowPool, workerVars
    <2>4. UNCHANGED bringUp /\ UNCHANGED monitors
      BY <1>6 DEF GrowPool, workerVars, tableVars
    <2> QED
      BY <1>2, <2>3, <2>4, AgreeUnchanged
  <1>7. ASSUME CanCreate(PoolSession(g.next), PermanentId(g.next)), NEW conn \in Connectors,
               Create(PoolSession(g.next), PermanentId(g.next), FALSE, conn),
               growth' = {[g EXCEPT !.next = @ + 1, !.created = g.next + 1,
                            !.effects = Append(@, Plug(PoolSession(g.next), conn))]}
        PROVE  AgreeInv'
    <2> DEFINE s == PoolSession(g.next)
               e == Plug(s, conn)
               longer == Append(g.effects, e)
               h == [g EXCEPT !.next = g.next + 1, !.created = g.next + 1, !.effects = longer]
    <2>1. s \in Sessions
      <3>1. g.next \in PoolIndices
        <4>1. g.next \in Nat /\ g.desired.count \in 0 .. MaxPool /\ MaxPool \in Nat
          BY <1>3, LimitsAssumption DEF Pools
        <4>2. g.next < g.desired.count
          BY <1>1
        <4> QED
          BY <4>1, <4>2 DEF PoolIndices
      <3> QED
        BY <3>1 DEF Sessions, PoolSessions
    <2>2. PICK new : /\ new.session = s /\ new.connector = conn
                     /\ monitors' = monitors \cup {new}
                     /\ \A m \in monitors : m.session # s /\ m.connector # conn
      BY <1>7, NewcomerApart
    <2>3. growth' = {h}
      BY <1>7
    <2>4. e \in KeptEffects
      BY <2>1, PlugKept
    <2> HIDE DEF longer
    <2>5. h.effects = longer
      BY <1>3
    <2> HIDE DEF h, e
    <2>6. GrowthEffects' = GrowthEffects \o << e >>
      <3>1. (CHOOSE k \in {h} : TRUE) = h
        BY OnlyOne
      <3>2. g.effects \o << e >> = longer
        BY <1>3, <2>4, AppendPair DEF longer
      <3> QED
        BY <1>4, <2>3, <2>5, <3>1, <3>2 DEF GrowthEffects
    <2>7. << e >> \in Seq(KeptEffects) /\ growth # {} /\ growth' # {}
      BY <1>4, <2>3, <2>4
    <2>8. /\ Pending' = Pending \o << e >> /\ (Launching' <=> Launching)
          /\ (adapter \/ Launching => Pending \in Seq(Tasks))
      BY <1>2, <2>6, <2>7, GrowthCollected
    <2>9. ASSUME adapter \/ Launching
          PROVE  Agree(Visible', Pending', monitors', unplugged')
      <3>1. Pending \in Seq(Tasks) /\ e \in Tasks
        BY <2>4, <2>8, <2>9 DEF Tasks
      <3>2. Pending' = Append(Pending, e)
        BY <2>8, <3>1, AppendPair
      <3>3. Agree(Visible, Pending, monitors, unplugged)
        BY <2>9 DEF AgreeInv
      <3>4. Agree(Visible, Append(Pending, Plug(s, conn)), monitors \cup {new}, unplugged)
        BY <2>1, <2>2, <3>1, <3>3, AgreePlug
      <3> QED
        BY <1>2, <1>5, <2>2, <3>2, <3>4 DEF e
    <2>10. \A m, n \in monitors' : m.session = n.session => m = n
      BY <2>2 DEF AgreeInv
    <2> QED
      BY <1>2, <2>8, <2>9, <2>10 DEF AgreeInv
  <1> QED
    BY <1>1, <1>6, <1>7

LEMMA AgreeFinish ==
  ASSUME IInv, IInv', SerialInv, SerialInv', BringUpInv, AgreeInv, FinishPool
  PROVE  AgreeInv'
  <1>1. PICK g \in growth :
          /\ pool' = GrownPool(g) /\ growth' = {}
          /\ \/ /\ g.by # "worker"
                /\ Decide(g.by, Append(g.effects, Persist(reserved, pool')))
                /\ UNCHANGED wpc
             \/ /\ g.by = "worker"
                /\ bringUp' = g.effects /\ wpc' = "publish"
          /\ UNCHANGED <<tableVars, queue, shellVars, plugged, unplugged>>
    BY DEF FinishPool
  <1>2. g \in [by : Callers \cup {"worker"}, desired : Pools, next : Nat,
               created : Nat, effects : Seq(KeptEffects)]
    BY DEF IInv, GrowthInv
  <1>3. growth = {g} /\ GrowthEffects = g.effects
    <2>1. growth = {g}
      BY DEF SerialInv
    <2> QED
      BY <2>1, GrowthEffectsOf
  <1>4. UNCHANGED <<monitors, reserved, queue, adapter, epoch, plugged, unplugged>>
        /\ Visible' = Visible
    BY <1>1 DEF tableVars, shellVars, Visible, Arrived
  <1>5. CASE g.by = "worker"
    <2>1. wpc = "startup" /\ ~adapter /\ wpc' = "publish" /\ bringUp' = g.effects
      BY <1>1, <1>5 DEF IInv, WorkerInv, BringUpInv
    <2>2. Pending' = Pending /\ (Launching' <=> Launching)
      BY <1>3, <1>4, <2>1 DEF Pending, Launch, Launching
    <2> QED
      BY <1>4, <2>2, AgreeUnchanged
  <1>6. CASE g.by # "worker"
    <2>1. adapter /\ Settled /\ wpc # "startup" /\ g.by \in Callers
          /\ Decide(g.by, Append(g.effects, Persist(reserved, pool')))
          /\ UNCHANGED <<queue, wpc>> /\ growth' = {}
      BY <1>1, <1>2, <1>3, <1>6 DEF SerialInv, BringUpInv
    <2>2. PICK e : e = Persist(reserved, pool')
      OBVIOUS
    <2>3. e \in KeptEffects /\ e.kind = "persist" /\ e \in Tasks
      <3>1. e \in KeptEffects
        BY <2>2, PersistKept DEF IInv, TableInv, Reserved, GrowthInv
      <3> QED
        BY <2>2, <3>1 DEF Persist, Tasks
    <2>4. Way' = Append(Way, e)
      <3>1. Decide(g.by, Append(g.effects, e))
        BY <2>1, <2>2
      <3> QED
        BY <1>3, <2>1, <2>3, <3>1, WayFinished
    <2>5. Way \in Seq(Tasks) /\ Agree(Visible, Way, monitors, unplugged)
      BY <2>1, AgreeTypes DEF AgreeInv, Pending
    <2>6. monitors \in SUBSET monitors /\ e.kind # "plug"
          /\ \A m \in monitors : m \in monitors <=> ~(e.kind = "unplug" /\ m.session \in e.sessions)
      BY <2>3
    <2>7. Agree(Visible, Append(Way, e), monitors, unplugged)
      BY <2>3, <2>5, <2>6, AgreeOther
    <2>8. Pending' = Append(Way, e)
      BY <1>4, <2>1, <2>4 DEF Pending
    <2> QED
      BY <1>4, <2>7, <2>8 DEF AgreeInv
  <1> QED
    BY <1>5, <1>6

(* The worker *)

(* Nothing shown has the session or the connector the head plugs. *)
LEMMA HeadIsNew ==
  ASSUME NEW shown \in SUBSET Pairs, NEW way \in Seq(Tasks), NEW table, NEW failed,
         Agree(shown, way, table, failed), way # << >>,
         NEW s \in Sessions, NEW c \in Connectors, Head(way) = Plug(s, c)
  PROVE  \A p \in shown : p.session # s /\ p.connector # c
  <1> SUFFICES ASSUME NEW p \in shown, p.session = s \/ p.connector = c PROVE FALSE
    OBVIOUS
  <1>1. Len(way) \in Nat \ {0} /\ way[1] = Head(way)
    BY EmptySeq, LenProperties
  <1>2. /\ p.session \in Sessions /\ p.connector \in Connectors
        /\ At(shown, way, p.session, p.connector, 0)
    BY PairFields DEF At, Pairs
  <1>3. 1 \in 1 .. Len(way) /\ 0 \in 0 .. 1 - 1 /\ At(shown, way, s, c, 1)
    BY <1>1 DEF At
  <1>4. Leaves(way, p.session, 0, 1 - 1)
    BY <1>2, <1>3 DEF Agree, Apart
  <1> QED
    BY <1>4 DEF Leaves

(* A task done: what it does to what is shown *)
Shows(e) ==
  /\ \A p \in Visible' :
       \/ p \in Visible /\ ~(e.kind = "unplug" /\ p.session \in e.sessions)
       \/ e = Plug(p.session, p.connector)
  /\ \A p \in Visible :
       \/ p \in Visible'
       \/ e.kind = "unplug" /\ p.session \in e.sessions
       \/ \E c \in Connectors : e = Plug(p.session, c)
  /\ \A t \in Sessions, c \in Connectors :
       e = Plug(t, c) => Pair(t, c) \in Visible' \/ t \in unplugged'
  /\ \A t \in unplugged : t \in unplugged' \/ \E c \in Connectors : e = Plug(t, c)
  /\ \A t \in unplugged' :
       \/ t \in unplugged /\ \A c \in Connectors : e # Plug(t, c)
       \/ \E c \in Connectors : e = Plug(t, c) /\ Pair(t, c) \notin Visible'

LEMMA VisibleStillTyped ==
  ASSUME IInv'
  PROVE  Visible' \in SUBSET Pairs
  <1>1. \A p \in plugged' : p \in [session : Sessions, connector : Connectors, epoch : Nat]
    BY DEF IInv, ShellInv
  <1>2. \A p \in plugged' : Pair(p.session, p.connector) \in Pairs
    BY <1>1 DEF Pair, Pairs
  <1> QED
    BY <1>2 DEF Visible, Arrived

LEMMA AgreeDone ==
  ASSUME IInv, IInv', SerialInv, SerialInv', AgreeInv, wpc \in {"idle", "plug"}, wpc' = "idle",
         queue # << >>, queue' = Tail(queue),
         UNCHANGED <<monitors, growth, held, adapter, epoch>>,
         adapter => Shows(Head(queue))
  PROVE  AgreeInv'
  <1>1. CASE ~adapter
    BY <1>1 DEF AgreeInv, Launching
  <1>2. CASE adapter
    <2>1. Ours' = Ours
      BY DEF Ours, GrowthEffects
    <2>2. Way # << >> /\ Head(Way) = Head(queue) /\ Way' = Tail(Way)
      BY <2>1, WayPopped
    <2>3. Pending = Way /\ Pending' = Tail(Way)
      BY <1>2, <2>2 DEF Pending
    <2>4. Agree(Visible, Way, monitors, unplugged)
      BY <1>2, <2>3 DEF AgreeInv
    <2>5. /\ Visible \in SUBSET Pairs /\ Way \in Seq(Tasks) /\ monitors \in SUBSET Monitors
          /\ Visible' \in SUBSET Pairs
      BY AgreeTypes, VisibleStillTyped
    <2>6. PICK e : e = Head(Way)
      OBVIOUS
    <2>7. Shows(e)
      BY <1>2, <2>2, <2>6
    <2>8. Agree(Visible', Tail(Way), monitors, unplugged')
      <3>1. PICK shown \in SUBSET Pairs : shown = Visible
        BY <2>5
      <3>a. PICK after \in SUBSET Pairs : after = Visible'
        BY <2>5
      <3>f. PICK failures : failures = unplugged'
        OBVIOUS
      <3>w. PICK way \in Seq(Tasks) : way = Way
        BY <2>5
      <3>t. PICK table \in SUBSET Monitors : table = monitors
        BY <2>5
      <3>2. /\ \A p \in after :
                 \/ p \in shown /\ ~(e.kind = "unplug" /\ p.session \in e.sessions)
                 \/ e = Plug(p.session, p.connector)
            /\ \A p \in shown :
                 \/ p \in after
                 \/ e.kind = "unplug" /\ p.session \in e.sessions
                 \/ \E c \in Connectors : e = Plug(p.session, c)
            /\ \A t \in Sessions, c \in Connectors :
                 e = Plug(t, c) => Pair(t, c) \in after \/ t \in failures
            /\ \A t \in unplugged : t \in failures \/ \E c \in Connectors : e = Plug(t, c)
            /\ \A t \in failures :
                 \/ t \in unplugged /\ \A c \in Connectors : e # Plug(t, c)
                 \/ \E c \in Connectors : e = Plug(t, c) /\ Pair(t, c) \notin after
        BY <2>7, <3>1, <3>a, <3>f, Zenon DEF Shows
      <3>3. Agree(shown, way, table, unplugged) /\ way # << >> /\ e = Head(way)
        BY <2>2, <2>4, <2>6, <3>1, <3>w, <3>t
      <3>4. Agree(after, Tail(way), table, failures)
        BY <3>1, <3>a, <3>w, <3>t, <3>2, <3>3, AgreePopped
      <3> QED
        BY <3>a, <3>f, <3>w, <3>t, <3>4
    <2> QED
      BY <1>2, <2>3, <2>8 DEF AgreeInv
  <1> QED
    BY <1>1, <1>2

LEMMA AgreeEndPlug ==
  ASSUME IInv, IInv', SerialInv, SerialInv', EpochInv, AgreeInv, EndPlug
  PROVE  AgreeInv'
  <1> DEFINE e == Head(queue)
  <1>1. /\ wpc = "plug" /\ wpc' = "idle" /\ queue' = Tail(queue)
        /\ UNCHANGED <<monitors, growth, held, adapter, epoch>>
    BY DEF EndPlug, deviceVars, tableVars, shellVars
  <1>2. AtHead("plug") /\ queue \in Seq(Tasks) /\ queue # << >>
    BY <1>1 DEF IInv, WorkerInv, AtHead
  <1>3. e \in PlugEffects
    BY <1>2, HeadKinds
  <1>4. PICK s \in Sessions, c \in Connectors : e = Plug(s, c) /\ e.session = s /\ e.connector = c
    BY <1>3 DEF PlugEffects, Plug
  <1>5. ASSUME adapter PROVE Shows(e)
    <2>1. made = epoch
      BY <1>1, <1>5 DEF EpochInv
    <2>2. e.kind = "plug"
      BY <1>4 DEF Plug
    <2>3. \A p \in Visible : p.session # s /\ p.connector # c
      <3>1. Ours' = Ours
        BY <1>1 DEF Ours, GrowthEffects
      <3>2. Way # << >> /\ Head(Way) = e
        BY <1>1, <1>2, <3>1, WayPopped
      <3>3. Agree(Visible, Way, monitors, unplugged)
        BY <1>5 DEF AgreeInv, Pending
      <3> QED
        BY <1>4, <3>2, <3>3, AgreeTypes, HeadIsNew
    <2>4. \A p \in plugged : p \in [session : Sessions, connector : Connectors, epoch : Nat]
      BY DEF IInv, ShellInv
    <2>5. ASSUME NEW t, NEW d
          PROVE  Pair(t, d) \in Visible <=>
                   \E p \in plugged : p.epoch = epoch /\ p.session = t /\ p.connector = d
      BY PairFields DEF Visible, Arrived
    <2>6. ASSUME NEW t, NEW d
          PROVE  Pair(t, d) \in Visible' <=>
                   \E p \in plugged' : p.epoch = epoch /\ p.session = t /\ p.connector = d
      BY <1>1, PairFields DEF Visible, Arrived
    <2>7. Visible \in SUBSET Pairs /\ Visible' \in SUBSET Pairs
      BY AgreeTypes, VisibleStillTyped
    <2>8. \A t, d : e = Plug(t, d) <=> t = s /\ d = c
      BY <1>4, PlugFields
    <2>9. \A p \in Visible : p \in Visible'
      <3> SUFFICES ASSUME NEW p \in Visible PROVE p \in Visible'
        OBVIOUS
      <3>1. p = Pair(p.session, p.connector) /\ p.session # s
        BY <2>3, <2>7, PairFields
      <3>2. PICK q \in plugged : q.epoch = epoch /\ q.session = p.session
                                 /\ q.connector = p.connector
        BY <2>5, <3>1
      <3>3. q \in Others(s)
        BY <3>1, <3>2 DEF Others
      <3>4. q \in plugged'
        BY <1>4, <3>2, <3>3 DEF EndPlug
      <3> QED
        BY <2>6, <3>1, <3>2, <3>4
    <2> HIDE DEF e
    <2>10. ASSUME plugged' = Others(s) \cup
                    {[session |-> s, connector |-> c, epoch |-> made]},
                  unplugged' = unplugged \ {s}
           PROVE  Shows(e)
      <3> DEFINE new == [session |-> s, connector |-> c, epoch |-> made]
      <3>1. new.session = s /\ new.connector = c /\ new.epoch = epoch
        BY <2>1
      <3>2. plugged' = Others(s) \cup {new}
        BY <2>10
      <3> HIDE DEF new
      <3>3. Pair(s, c) \in Visible'
        BY <2>6, <3>1, <3>2
      <3>4. \A p \in Visible' : p \in Visible \/ e = Plug(p.session, p.connector)
        <4> SUFFICES ASSUME NEW p \in Visible'
                     PROVE  p \in Visible \/ e = Plug(p.session, p.connector)
          OBVIOUS
        <4>1. p = Pair(p.session, p.connector)
          BY <2>7, PairFields
        <4>2. PICK q \in plugged' : q.epoch = epoch /\ q.session = p.session
                                    /\ q.connector = p.connector
          BY <2>6, <4>1
        <4>3. CASE q = new
          BY <2>8, <3>1, <4>2, <4>3
        <4>4. CASE q \in Others(s)
          BY <2>5, <4>1, <4>2, <4>4 DEF Others
        <4> QED
          BY <3>2, <4>3, <4>4
      <3> QED
        BY <2>2, <2>8, <2>9, <2>10, <3>3, <3>4 DEF Shows
    <2>11. ASSUME plugged' \in {plugged, Others(s)}, unplugged' = unplugged \cup {s}
           PROVE  Shows(e)
      <3>1. \A p \in Visible' : p \in Visible
        <4> SUFFICES ASSUME NEW p \in Visible' PROVE p \in Visible
          OBVIOUS
        <4>1. p = Pair(p.session, p.connector)
          BY <2>7, PairFields
        <4> QED
          BY <2>5, <2>6, <2>11, <4>1 DEF Others
      <3>2. Pair(s, c) \notin Visible'
        <4>1. Pair(s, c).session = s
          BY PairFields
        <4> QED
          BY <2>3, <3>1, <4>1
      <3> QED
        BY <2>2, <2>8, <2>9, <2>11, <3>1, <3>2 DEF Shows
    <2> QED
      BY <1>4, <2>10, <2>11 DEF EndPlug, e
  <1> QED
    BY <1>1, <1>2, <1>5, AgreeDone

(* A task that plugs nothing and fails nothing *)
LEMMA ShowsOther ==
  ASSUME NEW e, e.kind # "plug", UNCHANGED unplugged,
         \A p \in Visible : p \in Visible' <=> ~(e.kind = "unplug" /\ p.session \in e.sessions),
         Visible' \subseteq Visible
  PROVE  Shows(e)
  <1>1. \A t, c : e # Plug(t, c)
    BY PlugFields
  <1> QED
    BY <1>1 DEF Shows

LEMMA AgreeWorker ==
  ASSUME IInv, IInv', SerialInv, SerialInv', BringUpInv, EpochInv, EmptyInv, AgreeInv, Worker
  PROVE  AgreeInv'
  <1>1. CASE DropPlug
    <2>1. ~adapter /\ ~adapter' /\ wpc' = "idle" /\ UNCHANGED monitors
      BY <1>1 DEF DropPlug, deviceVars, tableVars, workerVars, shellVars
    <2> QED
      BY <2>1 DEF AgreeInv, Launching
  <1>2. CASE StartPlug
    <2>1. /\ wpc = "idle" /\ wpc' = "plug" /\ adapter
          /\ UNCHANGED <<monitors, growth, held, queue, unplugged, plugged, epoch, adapter>>
      BY <1>2 DEF StartPlug, PlugAllowed, deviceVars, tableVars, shellVars
    <2>2. Way' = Way
      BY <2>1, WaySame DEF Ours, GrowthEffects
    <2> QED
      BY <2>1, <2>2, AgreeUnchanged DEF Pending, Launching
  <1>3. CASE EndPlug
    BY <1>3, AgreeEndPlug
  <1>4. CASE ApplyUnplug \/ ApplyPersist \/ StaleReady
    <2> DEFINE e == Head(queue)
    <2>1. /\ wpc = "idle" /\ wpc' = "idle" /\ queue # << >> /\ queue' = Tail(queue)
          /\ UNCHANGED <<monitors, growth, held, adapter, epoch, unplugged>>
      BY <1>4 DEF ApplyUnplug, ApplyPersist, StaleReady, AtHead, deviceVars, tableVars,
                  workerVars, shellVars
    <2>2. Shows(e)
      <3>1. CASE ApplyUnplug
        <4>1. e.kind = "unplug" /\ plugged' = {p \in plugged : p.session \notin e.sessions}
          BY <3>1 DEF ApplyUnplug, AtHead
        <4> HIDE DEF e
        <4>2. Visible' \subseteq Visible
          BY <2>1, <4>1 DEF Visible, Arrived
        <4>3. \A p \in Visible : p \in Visible' <=> ~(e.kind = "unplug" /\ p.session \in e.sessions)
          <5> SUFFICES ASSUME NEW p \in Visible
                       PROVE  p \in Visible' <=> p.session \notin e.sessions
            BY <4>1
          <5>1. ASSUME p \in Visible' PROVE p.session \notin e.sessions
            <6>1. PICK q \in plugged' : p = Pair(q.session, q.connector)
              BY <5>1 DEF Visible, Arrived
            <6> QED
              BY <4>1, <6>1, PairFields
          <5>2. ASSUME p.session \notin e.sessions PROVE p \in Visible'
            <6>1. PICK q \in plugged : q.epoch = epoch /\ p = Pair(q.session, q.connector)
              BY DEF Visible, Arrived
            <6>2. q \in plugged'
              BY <4>1, <5>2, <6>1, PairFields
            <6> QED
              BY <2>1, <6>1, <6>2 DEF Visible, Arrived
          <5> QED
            BY <5>1, <5>2
        <4>4. e.kind # "plug"
          BY <4>1
        <4> QED
          BY <2>1, <4>2, <4>3, <4>4, ShowsOther
      <3>2. CASE ApplyPersist \/ StaleReady
        <4>1. e.kind \in {"persist", "ready"} /\ UNCHANGED plugged
          BY <3>2 DEF ApplyPersist, StaleReady, AtHead
        <4> HIDE DEF e
        <4>2. Visible' = Visible
          BY <2>1, <4>1 DEF Visible, Arrived
        <4> QED
          BY <2>1, <4>1, <4>2, ShowsOther
      <3> QED
        BY <1>4, <3>1, <3>2
    <2> QED
      BY <2>1, <2>2, AgreeDone
  <1>5. CASE Startup
    <2>1. /\ wpc = "idle" /\ AtHead("ready") /\ Head(queue).epoch = epoch /\ growth = {}
          /\ UNCHANGED <<monitors, bringUp, queue, epoch, adapter, plugged, unplugged>>
      BY <1>5 DEF Startup, Unlocked, tableVars, shellVars
    <2>2. pnp = "up" /\ ~adapter
      <3>1. queue \in Seq(Tasks) /\ queue # << >> /\ Head(queue).kind = "ready"
        BY <2>1 DEF IInv, WorkerInv, AtHead
      <3>2. Len(queue) \in Nat \ {0} /\ queue[1] = Head(queue)
        BY <3>1, EmptySeq, LenProperties
      <3>3. 1 \in ReadiesOf(queue)
        BY <3>1, <3>2 DEF ReadiesOf
      <3> QED
        BY <2>1, <3>2, <3>3 DEF BringUpInv, OneBringUp
    <2>3. monitors = {} /\ monitors' = {} /\ ~adapter'
      BY <2>1, <2>2 DEF EmptyInv, Launching
    <2>4. Visible' = {}
      <3>1. \A p \in plugged : p.epoch # epoch
        BY <2>2 DEF EpochInv
      <3> QED
        BY <2>1, <3>1 DEF Visible, Arrived
    <2>5. Pending' = << >>
      <3>1. CASE pool.count > 0
        <4> DEFINE g == [by |-> "worker", desired |-> pool, next |-> 0,
                         created |-> 0, effects |-> << >>]
        <4>1. growth' = {g} /\ wpc' = "startup"
          BY <1>5, <3>1 DEF Startup, IInv, GrowthInv, Pools
        <4>2. g.effects = << >> /\ (CHOOSE h \in {g} : TRUE) = g
          BY OnlyOne
        <4> HIDE DEF g
        <4> QED
          BY <2>3, <4>1, <4>2 DEF Pending, Launch, GrowthEffects
      <3>2. CASE ~(pool.count > 0)
        <4>1. wpc' = "publish" /\ bringUp' = << >>
          BY <1>5, <2>1, <3>2 DEF Startup, EpochInv
        <4> QED
          BY <2>3, <4>1 DEF Pending, Launch
      <3> QED
        BY <3>1, <3>2
    <2>6. Agree({}, << >>, {}, unplugged')
      <3>1. Len(<< >>) = 0
        OBVIOUS
      <3>2. \A t, d, k : k \in 0 .. 0 => ~At({}, << >>, t, d, k)
        BY DEF At
      <3> QED
        BY <3>1, <3>2 DEF Agree, Apart, Lasting, Due
    <2> QED
      BY <2>3, <2>4, <2>5, <2>6 DEF AgreeInv
  <1>6. CASE Publish
    <2>1. /\ wpc = "publish" /\ ~adapter /\ wpc' = "idle"
          /\ UNCHANGED <<held, growth, epoch, plugged, unplugged>>
      BY <1>6 DEF Publish, BringUpInv
    <2>2. ASSUME Head(queue).epoch = epoch, adapter' = TRUE, queue' = bringUp \o Tail(queue),
                 UNCHANGED tableVars
          PROVE  AgreeInv'
      <3>1. Way' = bringUp
        BY <2>1, <2>2, WayPublished
      <3>2. Pending' = Pending /\ Launching /\ Visible' = Visible
        BY <2>1, <2>2, <3>1 DEF Pending, Launch, Launching, Visible, Arrived
      <3> QED
        BY <2>1, <2>2, <3>2 DEF AgreeInv, tableVars
    <2>3. ASSUME Remove(monitors), UNCHANGED adapter
          PROVE  AgreeInv'
      <3>1. monitors' = {} /\ ~adapter' /\ wpc' = "idle"
        BY <2>1, <2>3 DEF Remove
      <3> QED
        BY <3>1 DEF AgreeInv, Launching
    <2> QED
      BY <1>6, <2>2, <2>3 DEF Publish
  <1> QED
    BY <1>1, <1>2, <1>3, <1>4, <1>5, <1>6 DEF Worker

(* A device that is not up, and a new process, show nothing. *)
LEMMA AgreeDown ==
  ASSUME IInv', BringUpInv', pnp' # "up",
         \A m, n \in monitors' : m.session = n.session => m = n
  PROVE  AgreeInv'
  <1>1. ~adapter'
    BY DEF BringUpInv
  <1>2. ~Launching'
    <2> SUFFICES ASSUME Launching' PROVE FALSE
      OBVIOUS
    <2>1. /\ queue' \in Seq(Tasks) /\ queue' # << >> /\ Head(queue').kind = "ready"
          /\ Head(queue').epoch = epoch'
      BY DEF Launching, IInv, WorkerInv, AtHead
    <2>2. Len(queue') \in Nat \ {0} /\ queue'[1] = Head(queue')
      BY <2>1, EmptySeq, LenProperties
    <2>3. 1 \in ReadiesOf(queue')
      BY <2>1, <2>2 DEF ReadiesOf
    <2> QED
      BY <2>1, <2>2, <2>3 DEF BringUpInv, OneBringUp
  <1> QED
    BY <1>1, <1>2 DEF AgreeInv

LEMMA AgreeDevice ==
  ASSUME IInv, IInv', BringUpInv, BringUpInv', AgreeInv, Device \/ Restart
  PROVE  AgreeInv'
  <1>1. \A m, n \in monitors' : m.session = n.session => m = n
    <2>1. monitors' \subseteq monitors
      BY DEF Device, DeviceAdd, AdapterInitFinished, FinalExit, DrainMonitors,
             TeardownReset, Restart, Remove, deviceVars, tableVars
    <2> QED
      BY <2>1 DEF AgreeInv
  <1>2. CASE DeviceAdd \/ FinalExit \/ DrainMonitors \/ TeardownReset \/ Restart
    <2>1. pnp' # "up"
      BY <1>2 DEF DeviceAdd, FinalExit, DrainMonitors, TeardownReset, Restart
    <2> QED
      BY <1>1, <2>1, AgreeDown
  <1>3. CASE AdapterInitFinished
    <2> DEFINE task == [kind |-> "ready", epoch |-> mark]
    <2>1. /\ pnp = "starting" /\ queue' = Append(queue, task)
          /\ UNCHANGED <<epoch, wpc, adapter>>
      BY <1>3 DEF AdapterInitFinished, workerVars
    <2>2. ~adapter /\ ~Launching
      BY <2>1, UpWithAdapter
    <2>3. task \in Tasks /\ queue \in Seq(Tasks)
      BY DEF Tasks, ReadyTasks, IInv, ShellInv, WorkerInv
    <2>4. \E s \in Seq(Tasks) : queue' = queue \o s
      BY <2>1, <2>3, AppendQueues
    <2>5. ~Launching'
      BY <2>1, <2>2, <2>4, LaunchingStays
    <2> QED
      BY <1>1, <2>1, <2>2, <2>5 DEF AgreeInv
  <1> QED
    BY <1>2, <1>3 DEF Device

LEMMA AgreeInit == Init => AgreeInv
  BY DEF Init, AgreeInv, Launching

LEMMA AgreeStep ==
  ASSUME Serial, IInv, IInv', BringUpInv, BringUpInv', SerialInv, SerialInv', EpochInv,
         EmptyInv, AgreeInv, [Next]_vars
  PROVE  AgreeInv'
  <1>1. ASSUME HostRequest("ioctl") PROVE AgreeInv'
    <2>0. "ioctl" \in Callers
      BY DEF Callers
    <2>1. ASSUME NEW s \in HostSessions, NEW d \in Displays \cup {EphemeralId(s)},
                 NEW leased \in BOOLEAN, HostCreate("ioctl", s, d, leased)
          PROVE  AgreeInv'
      BY <2>0, <2>1, AgreeCreate
    <2>2. ASSUME NEW s \in HostSessions, HostDestroy("ioctl", s)
          PROVE  AgreeInv'
      BY <2>0, <2>2, AgreeDestroy
    <2>3. ASSUME NEW desired \in [count : 0 .. MaxPool, settings : Settings],
                 SetPool("ioctl", desired)
          PROVE  AgreeInv'
      BY <2>0, <2>3, AgreeSetPool
    <2> QED
      BY <1>1, <2>1, <2>2, <2>3 DEF HostRequest
  <1>2. ASSUME NEW c \in Callers, QueueEffects(c) PROVE AgreeInv'
    <2>1. UNCHANGED <<monitors, unplugged, plugged, epoch, adapter, wpc>>
          /\ queue' = queue \o held[c] /\ held[c] # << >>
      BY <1>2 DEF QueueEffects, deviceVars, tableVars, workerVars, shellVars
    <2>2. adapter
      BY <2>1 DEF SerialInv, Settled
    <2>3. Way' = Way
      BY <1>2, WayQueued
    <2>4. Pending' = Pending
      BY <2>1, <2>2, <2>3 DEF Pending
    <2>5. held[c] \in Seq(Tasks)
      BY EffectsAreTasks DEF IInv, WorkerInv
    <2>6. Launching' <=> Launching
      BY <2>1, <2>5, LaunchingStays
    <2> QED
      BY <2>1, <2>4, <2>6, AgreeUnchanged
  <1>3. CASE UNCHANGED vars
    <2>1. UNCHANGED <<monitors, unplugged, plugged, epoch, adapter, wpc, queue, held, growth,
                      bringUp>>
      BY <1>3 DEF vars, deviceVars, tableVars, workerVars, shellVars
    <2>2. Pending' = Pending /\ (Launching' <=> Launching)
      BY <2>1 DEF Pending, Way, Ours, Launch, GrowthEffects, Launching
    <2> QED
      BY <2>1, <2>2, AgreeUnchanged
  <1> QED
    BY <1>1, <1>2, <1>3, AgreeLease, AgreeWatchdog, AgreeGrow, AgreeFinish, AgreeWorker,
       AgreeDevice DEF Next

(* The whole invariant of handlers that run one after another *)
OrderInv == IInv /\ BringUpInv /\ SerialInv /\ EmptyInv /\ EpochInv /\ AgreeInv

LEMMA OrderInvariance ==
  ASSUME Serial = TRUE
  PROVE  Spec => []OrderInv
  <1>1. Init => OrderInv
    BY InvInit, BringUpInit, SerialInit, EmptyInit, AgreeInit DEF OrderInv
  <1>2. OrderInv /\ [Next]_vars => OrderInv'
    <2> SUFFICES ASSUME OrderInv, [Next]_vars PROVE OrderInv'
      OBVIOUS
    <2>1. IInv' /\ BringUpInv'
      BY InvStep, BringUpStep DEF OrderInv
    <2>2. SerialInv' /\ EmptyInv' /\ EpochInv'
      BY <2>1, SerialStep, EmptyStep, EpochStep DEF OrderInv
    <2>3. AgreeInv'
      BY <2>1, <2>2, AgreeStep DEF OrderInv
    <2> QED
      BY <2>1, <2>2, <2>3 DEF OrderInv
  <1> QED
    BY <1>1, <1>2, PTL DEF Spec

(* The effects worker (shell/control.rs, shell/monitors.rs) never shows two
   monitors on one connector, although a handler gives a connector away while
   the unplug of the session that had it is still queued: the plug is queued
   behind it.  This needs Serial; the code queues after the device lock is
   released, which does not force it. *)
THEOREM OneEach ==
  ASSUME Serial = TRUE
  PROVE  Spec => []OneMonitorPerConnector
  <1>1. OrderInv => OneMonitorPerConnector
    <2> SUFFICES ASSUME OrderInv, NEW p \in Arrived, NEW q \in Arrived,
                        p.connector = q.connector
                 PROVE  p = q
      BY DEF OneMonitorPerConnector
    <2>1. /\ p \in [session : Sessions, connector : Connectors, epoch : Nat]
          /\ q \in [session : Sessions, connector : Connectors, epoch : Nat]
          /\ p \in plugged /\ p.epoch = epoch /\ q.epoch = epoch
      BY DEF Arrived, OrderInv, IInv, ShellInv
    <2>2. adapter
      BY <2>1 DEF OrderInv, EpochInv
    <2>3. Apart(Visible, Pending)
      BY <2>2 DEF OrderInv, AgreeInv, Agree
    <2>4. Pair(p.session, p.connector) \in Visible /\ Pair(q.session, q.connector) \in Visible
      BY DEF Visible
    <2>5. Pair(p.session, p.connector) = Pair(q.session, q.connector)
      BY <2>3, <2>4, PairFields DEF Apart
    <2>6. p.session = q.session
      BY <2>5, PairFields
    <2> QED
      BY <2>1, <2>6
  <1> QED
    BY <1>1, OrderInvariance, PTL

(* When the worker has caught up, the OS shows the sessions of the table on
   their connectors, but for those whose plug failed (shell/control.rs,
   shell/monitors.rs, core/session.rs), through final exits, stale startups
   and restarts.  The run control_overlap refutes it without Serial. *)
THEOREM ShellFollows ==
  ASSUME Serial = TRUE
  PROVE  Spec => []ShellFollowsTable
  <1>1. OrderInv => ShellFollowsTable
    <2> SUFFICES ASSUME OrderInv, Quiet, adapter
                 PROVE  {<<p.session, p.connector>> : p \in Arrived} =
                          {<<m.session, m.connector>> :
                             m \in {n \in monitors : n.session \notin unplugged}}
      BY DEF ShellFollowsTable
    <2>1. Way = << >> /\ Len(Way) = 0
      <3>1. Way = queue
        BY WayIsQueue DEF Quiet, Unlocked, OrderInv
      <3> QED
        BY <3>1 DEF Quiet
    <2>2. /\ Lasting(Visible, Way, monitors) /\ Due(Visible, Way, monitors, unplugged)
          /\ \A p \in Visible : p.session \notin unplugged
      BY DEF OrderInv, AgreeInv, Agree, Pending
    <2>3. \A t, k, i : k = 0 /\ i = 0 => ~Leaves(Way, t, k, i)
      BY DEF Leaves
    <2>4. \A t, d : At(Visible, Way, t, d, 0) <=> Pair(t, d) \in Visible
      BY DEF At
    <2>5. ASSUME NEW p \in Arrived
          PROVE  \E m \in monitors : /\ m.session \notin unplugged
                                     /\ m.session = p.session /\ m.connector = p.connector
      <3>1. Pair(p.session, p.connector) \in Visible
        BY DEF Visible
      <3>2. p.session \in Sessions /\ p.connector \in Connectors
        BY DEF Arrived, OrderInv, IInv, ShellInv
      <3>3. \E m \in monitors : m.session = p.session /\ m.connector = p.connector
        BY <2>1, <2>2, <2>3, <2>4, <3>1, <3>2 DEF Lasting
      <3>4. p.session \notin unplugged
        BY <2>2, <3>1, PairFields
      <3> QED
        BY <3>3, <3>4
    <2>6. ASSUME NEW m \in monitors, m.session \notin unplugged
          PROVE  \E p \in Arrived : p.session = m.session /\ p.connector = m.connector
      <3>1. Comes(Visible, Way, m)
        BY <2>2, <2>6 DEF Due
      <3>2. Pair(m.session, m.connector) \in Visible
        BY <2>1, <2>4, <3>1 DEF Comes
      <3> QED
        BY <3>2, PairFields DEF Visible
    <2> QED
      BY <2>5, <2>6
  <1> QED
    BY <1>1, OrderInvariance, PTL

-----------------------------------------------------------------------------
(***************************************************************************)
(* The pool in the registry.  Each blob on its way there holds a pool the   *)
(* host has asked for, or nothing before it changes the registry's pool;   *)
(* the same of the pool in force, with all that is on its way.              *)
(***************************************************************************)
Norm(p) == IF p.count > 0 THEN p ELSE NoPool
Sound(p) == p.count <= MaxMonitors /\ Norm(p) = p
Writes(way) == {i \in 1 .. Len(way) : way[i].kind = "persist"}
Same(way, p, n) == \A j \in Writes(way) : j <= n => way[j].blob.pool = p

Lawful(way, p, force, set) ==
  /\ \A i \in Writes(way) : /\ Sound(way[i].blob.pool)
                            /\ way[i].blob.pool \in set \/ Same(way, p, i)
  /\ Norm(force) \in set \/ (Norm(force) = p /\ Same(way, p, Len(way)))
  /\ Sound(p) /\ force.count <= MaxMonitors

LEMMA NormSound ==
  ASSUME NEW p, p.count <= MaxMonitors
  PROVE  Sound(Norm(p))
  BY LimitsAssumption DEF Sound, Norm, NoPool

LEMMA PersistNorm ==
  ASSUME NEW res, NEW p
  PROVE  Persist(res, p).kind = "persist" /\ Persist(res, p).blob.pool = Norm(p)
         /\ Snapshot(res, p).pool = Norm(p)
  BY DEF Persist, Snapshot, Norm

LEMMA WritesAppended ==
  ASSUME NEW way \in Seq(Tasks), NEW e \in Tasks
  PROVE  /\ Len(Append(way, e)) = Len(way) + 1 /\ Len(way) \in Nat
         /\ Append(way, e)[Len(way) + 1] = e
         /\ \A i \in Writes(way) : Append(way, e)[i] = way[i] /\ i <= Len(way) /\ i \in Nat
         /\ \A i : i \in Writes(Append(way, e)) <=>
                     i \in Writes(way) \/ (i = Len(way) + 1 /\ e.kind = "persist")
  <1>1. /\ Len(Append(way, e)) = Len(way) + 1 /\ Len(way) \in Nat
        /\ \A i \in 1 .. Len(way) : Append(way, e)[i] = way[i]
        /\ Append(way, e)[Len(way) + 1] = e
    BY AppendProperties, LenProperties
  <1> DEFINE longer == Append(way, e)
  <1> HIDE DEF longer
  <1>2. /\ Len(longer) = Len(way) + 1 /\ Len(way) \in Nat
        /\ \A i \in 1 .. Len(way) : longer[i] = way[i]
        /\ longer[Len(way) + 1] = e
    BY <1>1 DEF longer
  <1>3. \A i : i \in 1 .. Len(longer) <=> i \in 1 .. Len(way) \/ i = Len(way) + 1
    BY <1>2
  <1>4. \A i : i \in Writes(longer) <=>
                 i \in Writes(way) \/ (i = Len(way) + 1 /\ e.kind = "persist")
    BY <1>2, <1>3 DEF Writes
  <1>5. \A i \in Writes(way) : longer[i] = way[i] /\ i <= Len(way) /\ i \in Nat
    BY <1>2 DEF Writes
  <1> QED
    BY <1>2, <1>4, <1>5 DEF longer

(* A decision that leaves the pool in force as it is *)
LEMMA LawfulAppended ==
  ASSUME NEW way \in Seq(Tasks), NEW p, NEW force, NEW set, Lawful(way, p, force, set),
         NEW e \in Tasks, e.kind = "persist" => e.blob.pool = Norm(force)
  PROVE  Lawful(Append(way, e), p, force, set)
  <1> DEFINE longer == Append(way, e)
             n == Len(way)
  <1>1. /\ Len(longer) = n + 1 /\ n \in Nat /\ longer[n + 1] = e
        /\ \A i \in Writes(way) : longer[i] = way[i] /\ i <= n /\ i \in Nat
        /\ \A i : i \in Writes(longer) <=>
                    i \in Writes(way) \/ (i = n + 1 /\ e.kind = "persist")
    BY WritesAppended
  <1>2. n = Len(way)
    OBVIOUS
  <1> HIDE DEF longer, n
  <1>3. ASSUME NEW i \in Writes(way), Same(way, p, i) PROVE Same(longer, p, i)
    BY <1>1, <1>3 DEF Same
  <1>4. ASSUME Same(way, p, n), Norm(force) = p PROVE Same(longer, p, n + 1)
    <2> SUFFICES ASSUME NEW j \in Writes(longer) PROVE longer[j].blob.pool = p
      BY DEF Same
    <2>1. CASE j \in Writes(way)
      BY <1>1, <1>4, <2>1 DEF Same
    <2>2. CASE j = n + 1 /\ e.kind = "persist"
      BY <1>1, <1>4, <2>2
    <2> QED
      BY <1>1, <2>1, <2>2
  <1>5. ASSUME NEW i \in Writes(longer)
        PROVE  Sound(longer[i].blob.pool) /\ (longer[i].blob.pool \in set \/ Same(longer, p, i))
    <2>1. CASE i \in Writes(way)
      BY <1>1, <1>3, <2>1 DEF Lawful
    <2>2. CASE i = n + 1 /\ e.kind = "persist"
      <3>1. longer[i].blob.pool = Norm(force) /\ Sound(Norm(force))
        BY <1>1, <2>2, NormSound DEF Lawful
      <3> QED
        BY <1>2, <1>4, <2>2, <3>1 DEF Lawful
    <2> QED
      BY <1>1, <2>1, <2>2
  <1>6. Norm(force) \in set \/ (Norm(force) = p /\ Same(longer, p, n + 1))
    BY <1>2, <1>4 DEF Lawful
  <1> QED
    BY <1>1, <1>5, <1>6 DEF Lawful, longer

(* SET_PERMANENT_POOL has put another pool in force. *)
LEMMA LawfulAsked ==
  ASSUME NEW way \in Seq(Tasks), NEW p, NEW force, NEW set, Lawful(way, p, force, set),
         NEW new, new.count <= MaxMonitors,
         NEW e \in Tasks, e.kind = "persist", e.blob.pool = Norm(new)
  PROVE  Lawful(Append(way, e), p, new, set \cup {Norm(new)})
  <1> DEFINE longer == Append(way, e)
             n == Len(way)
             more == set \cup {Norm(new)}
  <1>1. /\ Len(longer) = n + 1 /\ n \in Nat /\ longer[n + 1] = e
        /\ \A i \in Writes(way) : longer[i] = way[i] /\ i <= n /\ i \in Nat
        /\ \A i : i \in Writes(longer) <=>
                    i \in Writes(way) \/ (i = n + 1 /\ e.kind = "persist")
    BY WritesAppended
  <1>2. set \subseteq more /\ Norm(new) \in more
    OBVIOUS
  <1> HIDE DEF longer, n, more
  <1>3. ASSUME NEW i \in Writes(way), Same(way, p, i) PROVE Same(longer, p, i)
    BY <1>1, <1>3 DEF Same
  <1>5. ASSUME NEW i \in Writes(longer)
        PROVE  Sound(longer[i].blob.pool) /\ (longer[i].blob.pool \in more \/ Same(longer, p, i))
    <2>1. CASE i \in Writes(way)
      BY <1>1, <1>2, <1>3, <2>1 DEF Lawful
    <2>2. CASE i = n + 1 /\ e.kind = "persist"
      <3>1. longer[i].blob.pool = Norm(new) /\ Sound(Norm(new))
        BY <1>1, <2>2, NormSound
      <3> QED
        BY <1>2, <3>1
    <2> QED
      BY <1>1, <2>1, <2>2
  <1> QED
    BY <1>2, <1>5 DEF Lawful, longer, more

(* The head is carried out: the registry stays as it is, or takes its blob. *)
LEMMA LawfulPopped ==
  ASSUME NEW way \in Seq(Tasks), way # << >>, NEW p, NEW force, NEW set,
         Lawful(way, p, force, set),
         NEW q, q = p \/ (Head(way).kind = "persist" /\ q = Head(way).blob.pool)
  PROVE  Lawful(Tail(way), q, force, set) /\ (q # p => q \in set)
  <1> DEFINE rest == Tail(way)
             n == Len(way)
  <1>1. /\ n \in Nat \ {0} /\ Len(rest) = n - 1 /\ way[1] = Head(way)
        /\ \A i \in 1 .. n - 1 : rest[i] = way[i + 1]
    BY LeavesPopped
  <1>2. n = Len(way)
    OBVIOUS
  <1> HIDE DEF rest, n
  <1>3. \A i \in Writes(rest) : i + 1 \in Writes(way) /\ rest[i] = way[i + 1] /\ i \in Nat \ {0}
    <2> SUFFICES ASSUME NEW i \in Writes(rest)
                 PROVE  i + 1 \in Writes(way) /\ rest[i] = way[i + 1] /\ i \in Nat \ {0}
      OBVIOUS
    <2>1. i \in 1 .. n - 1 /\ rest[i].kind = "persist"
      BY <1>1 DEF Writes
    <2>2. i + 1 \in 1 .. n /\ way[i + 1] = rest[i]
      BY <1>1, <2>1
    <2> QED
      BY <1>2, <2>1, <2>2 DEF Writes
  <1>4. ASSUME q # p PROVE q \in set /\ 1 \in Writes(way) /\ way[1].blob.pool = q /\ Sound(q)
    <2>1. Head(way).kind = "persist" /\ q = Head(way).blob.pool
      BY <1>4
    <2>2. 1 \in Writes(way) /\ way[1].blob.pool = q
      BY <1>1, <1>2, <2>1 DEF Writes
    <2>3. Sound(q) /\ (q \in set \/ Same(way, p, 1))
      BY <2>2 DEF Lawful
    <2>4. ~Same(way, p, 1)
      BY <1>4, <2>2 DEF Same
    <2> QED
      BY <2>2, <2>3, <2>4
  \* what keeps to the old pool up to some place keeps to the new one
  <1>5. ASSUME NEW i \in Nat, NEW k, k = i + 1, k >= 1, Same(way, p, k)
        PROVE  q = p /\ Same(rest, q, i)
    <2>1. q = p
      BY <1>4, <1>5 DEF Same
    <2>2. ASSUME NEW j \in Writes(rest), j <= i PROVE rest[j].blob.pool = p
      <3>1. j + 1 \in Writes(way) /\ rest[j] = way[j + 1] /\ j + 1 <= k
        BY <1>3, <1>5, <2>2
      <3> QED
        BY <1>5, <3>1 DEF Same
    <2> QED
      BY <2>1, <2>2 DEF Same
  <1>6. ASSUME NEW i \in Writes(rest)
        PROVE  Sound(rest[i].blob.pool) /\ (rest[i].blob.pool \in set \/ Same(rest, q, i))
    <2>1. i + 1 \in Writes(way) /\ rest[i] = way[i + 1] /\ i \in Nat /\ i + 1 >= 1
      BY <1>3
    <2>2. Sound(way[i + 1].blob.pool) /\ (way[i + 1].blob.pool \in set \/ Same(way, p, i + 1))
      BY <2>1 DEF Lawful
    <2> QED
      BY <1>5, <2>1, <2>2
  <1>7. Norm(force) \in set \/ (Norm(force) = q /\ Same(rest, q, Len(rest)))
    <2>1. n - 1 \in Nat /\ n = n - 1 + 1 /\ n >= 1
      BY <1>1
    <2>2. Norm(force) \in set \/ (Norm(force) = p /\ Same(way, p, n))
      BY <1>2 DEF Lawful
    <2> QED
      BY <1>1, <1>5, <2>1, <2>2
  <1>8. Sound(q) /\ force.count <= MaxMonitors
    BY <1>4 DEF Lawful
  <1> QED
    BY <1>4, <1>6, <1>7, <1>8 DEF Lawful, rest

(* Nothing on its way writes. *)
LEMMA LawfulFresh ==
  ASSUME NEW way, \A i \in 1 .. Len(way) : way[i].kind # "persist", NEW p, NEW force, NEW set,
         Sound(p), force.count <= MaxMonitors, Norm(force) \in set \/ Norm(force) = p
  PROVE  Lawful(way, p, force, set)
  BY DEF Lawful, Writes, Same

InForce == IF wpc = "startup" /\ growth # {} THEN (CHOOSE g \in growth : TRUE).desired ELSE pool

(* A startup finds an empty table and an adapter, so no member of its pool
   fails. *)
GrowsInv ==
  \A g \in growth :
    /\ g.desired.count <= MaxMonitors
    /\ g.by = "worker" =>
         /\ adapters /\ g.next = g.created /\ g.next <= g.desired.count
         /\ IsFiniteSet(monitors) /\ Cardinality(monitors) = g.next
         /\ \A m \in monitors :
              /\ ~m.leased
              /\ \E i \in 0 .. g.next - 1 : /\ m.session = PoolSession(i)
                                            /\ m.display = PermanentId(i)

LawfulInv == Lawful(Way, disk.pool, InForce, asked)
KeptInv == GrowsInv /\ LawfulInv /\ Writes(Launch) = {}

LEMMA InForceWhen ==
  /\ wpc # "startup" \/ growth = {} => InForce = pool
  /\ \A g : growth = {g} /\ wpc = "startup" => InForce = g.desired
  <1>1. ASSUME NEW g, growth = {g}, wpc = "startup" PROVE InForce = g.desired
    <2>1. (CHOOSE h \in {g} : TRUE) = g
      BY OnlyOne
    <2> QED
      BY <1>1, <2>1 DEF InForce
  <1> QED
    BY <1>1 DEF InForce

LEMMA KeptInit == Init => KeptInv
  <1> SUFFICES ASSUME Init PROVE KeptInv
    OBVIOUS
  <1>1. growth = {} /\ wpc = "idle" /\ pool = NoPool /\ disk.pool = NoPool
    BY DEF Init
  <1>2. GrowsInv
    BY <1>1 DEF GrowsInv
  <1>3. Way = << >> /\ Launch = << >>
    <2>1. queue = << >> /\ held["ioctl"] = << >> /\ held["watchdog"] = << >> /\ bringUp = << >>
      BY DEF Init, Callers
    <2>2. << >> \o << >> = << >>
      BY EmptySeq, ConcatEmptySeq
    <2> QED
      BY <1>1, <2>1, <2>2, GrowthEffectsOf DEF Way, Ours, Launch
  <1>4. NoPool.count <= MaxMonitors /\ Norm(NoPool) = NoPool
    BY LimitsAssumption DEF NoPool, Norm
  <1>5. \A i \in 1 .. Len(<< >>) : << >>[i].kind # "persist"
    OBVIOUS
  <1>6. LawfulInv
    BY <1>1, <1>3, <1>4, <1>5, LawfulFresh, InForceWhen DEF LawfulInv, Sound
  <1> QED
    BY <1>2, <1>3, <1>5, <1>6 DEF KeptInv, Writes

LEMMA WritesNone ==
  ASSUME NEW s \in Seq(Tasks), NEW e \in Tasks, Writes(s) = {}, e.kind # "persist"
  PROVE  Writes(Append(s, e)) = {}
  BY WritesAppended

LEMMA WritesEmpty == Writes(<< >>) = {}
  BY DEF Writes

(* What a step of apply_pool adds to the effects collected *)
LEMMA GrowCollects ==
  ASSUME IInv, SerialInv, GrowPool
  PROVE  \E g, h :
           /\ g \in growth /\ growth = {g} /\ growth' = {h} /\ h.by = g.by /\ h.desired = g.desired
           /\ g.next < g.desired.count
           /\ \/ /\ h.effects = g.effects /\ UNCHANGED tableVars
                 /\ ~CanCreate(PoolSession(g.next), PermanentId(g.next))
              \/ /\ h.next = g.next + 1 /\ h.created = g.next + 1
                 /\ \E conn \in Connectors :
                      /\ Create(PoolSession(g.next), PermanentId(g.next), FALSE, conn)
                      /\ h.effects = Append(g.effects, Plug(PoolSession(g.next), conn))
                      /\ Plug(PoolSession(g.next), conn) \in KeptEffects
                 /\ CanCreate(PoolSession(g.next), PermanentId(g.next))
  <1>1. PICK g \in growth :
          /\ g.next < g.desired.count
          /\ \/ /\ CanCreate(PoolSession(g.next), PermanentId(g.next))
                /\ \E conn \in Connectors :
                     /\ Create(PoolSession(g.next), PermanentId(g.next), FALSE, conn)
                     /\ growth' = {[g EXCEPT !.next = @ + 1, !.created = g.next + 1,
                                  !.effects = Append(@, Plug(PoolSession(g.next), conn))]}
             \/ /\ ~CanCreate(PoolSession(g.next), PermanentId(g.next))
                /\ growth' = {[g EXCEPT !.next = g.desired.count]}
                /\ UNCHANGED tableVars
    BY DEF GrowPool
  <1>2. g \in [by : Callers \cup {"worker"}, desired : Pools, next : Nat,
               created : Nat, effects : Seq(KeptEffects)]
    BY DEF IInv, GrowthInv
  <1>3. growth = {g} /\ g.next < g.desired.count
    BY <1>1 DEF SerialInv
  <1>4. ASSUME ~CanCreate(PoolSession(g.next), PermanentId(g.next)),
               growth' = {[g EXCEPT !.next = g.desired.count]}, UNCHANGED tableVars
        PROVE  \E h : /\ growth' = {h} /\ h.by = g.by /\ h.desired = g.desired
                      /\ h.effects = g.effects
    <2> DEFINE h == [g EXCEPT !.next = g.desired.count]
    <2>1. h.by = g.by /\ h.desired = g.desired /\ h.effects = g.effects
      BY <1>2
    <2> QED
      BY <1>4, <2>1
  <1>5. ASSUME NEW conn \in Connectors,
               growth' = {[g EXCEPT !.next = @ + 1, !.created = g.next + 1,
                            !.effects = Append(@, Plug(PoolSession(g.next), conn))]}
        PROVE  \E h : /\ growth' = {h} /\ h.by = g.by /\ h.desired = g.desired
                      /\ h.next = g.next + 1 /\ h.created = g.next + 1
                      /\ h.effects = Append(g.effects, Plug(PoolSession(g.next), conn))
                      /\ Plug(PoolSession(g.next), conn) \in KeptEffects
    <2> DEFINE longer == Append(g.effects, Plug(PoolSession(g.next), conn))
               h == [g EXCEPT !.next = g.next + 1, !.created = g.next + 1, !.effects = longer]
    <2>1. growth' = {h}
      BY <1>5
    <2>2. PoolSession(g.next) \in Sessions
      <3>1. g.next \in Nat /\ g.desired.count \in 0 .. MaxPool /\ MaxPool \in Nat
        BY <1>2, LimitsAssumption DEF Pools
      <3>2. g.next \in PoolIndices
        BY <1>3, <3>1 DEF PoolIndices
      <3> QED
        BY <3>2 DEF Sessions, PoolSessions
    <2>3. Plug(PoolSession(g.next), conn) \in KeptEffects
      BY <2>2, PlugKept
    <2> HIDE DEF longer
    <2>4. /\ h.by = g.by /\ h.desired = g.desired /\ h.next = g.next + 1
          /\ h.created = g.next + 1 /\ h.effects = longer
      BY <1>2
    <2> HIDE DEF h
    <2> QED
      BY <2>1, <2>3, <2>4 DEF longer
  <1>6. CASE ~CanCreate(PoolSession(g.next), PermanentId(g.next))
    <2>1. growth' = {[g EXCEPT !.next = g.desired.count]} /\ UNCHANGED tableVars
      BY <1>1, <1>6
    <2>2. PICK h : /\ growth' = {h} /\ h.by = g.by /\ h.desired = g.desired
                   /\ h.effects = g.effects
      BY <1>4, <1>6, <2>1
    <2> QED
      BY <1>3, <1>6, <2>1, <2>2
  <1>7. CASE CanCreate(PoolSession(g.next), PermanentId(g.next))
    <2>1. PICK conn \in Connectors :
            /\ Create(PoolSession(g.next), PermanentId(g.next), FALSE, conn)
            /\ growth' = {[g EXCEPT !.next = @ + 1, !.created = g.next + 1,
                            !.effects = Append(@, Plug(PoolSession(g.next), conn))]}
      BY <1>1, <1>7
    <2>2. PICK h : /\ growth' = {h} /\ h.by = g.by /\ h.desired = g.desired
                   /\ h.next = g.next + 1 /\ h.created = g.next + 1
                   /\ h.effects = Append(g.effects, Plug(PoolSession(g.next), conn))
                   /\ Plug(PoolSession(g.next), conn) \in KeptEffects
      BY <1>5, <2>1
    <2> QED
      BY <1>3, <1>7, <2>1, <2>2
  <1> QED
    BY <1>6, <1>7

(* The members of a startup's pool *)
LEMMA GrowsGrow ==
  ASSUME IInv, SerialInv, GrowsInv, GrowPool
  PROVE  GrowsInv'
  <1>1. PICK g, h :
           /\ g \in growth /\ growth = {g} /\ growth' = {h} /\ h.by = g.by /\ h.desired = g.desired
           /\ g.next < g.desired.count
           /\ \/ ~CanCreate(PoolSession(g.next), PermanentId(g.next))
              \/ /\ h.next = g.next + 1 /\ h.created = g.next + 1
                 /\ CanCreate(PoolSession(g.next), PermanentId(g.next))
                 /\ \E conn \in Connectors :
                      Create(PoolSession(g.next), PermanentId(g.next), FALSE, conn)
    BY GrowCollects
  <1>2. h.desired.count <= MaxMonitors
    BY <1>1 DEF GrowsInv
  <1>3. ASSUME g.by = "worker"
        PROVE  /\ adapters' /\ h.next = h.created /\ h.next <= h.desired.count
               /\ IsFiniteSet(monitors') /\ Cardinality(monitors') = h.next
               /\ \A m \in monitors' :
                    /\ ~m.leased
                    /\ \E i \in 0 .. h.next - 1 : /\ m.session = PoolSession(i)
                                                  /\ m.display = PermanentId(i)
    <2>1. /\ adapters /\ g.next = g.created /\ g.next <= g.desired.count
          /\ g.desired.count <= MaxMonitors
          /\ IsFiniteSet(monitors) /\ Cardinality(monitors) = g.next
          /\ \A m \in monitors :
               /\ ~m.leased
               /\ \E i \in 0 .. g.next - 1 : /\ m.session = PoolSession(i)
                                             /\ m.display = PermanentId(i)
      BY <1>1, <1>3 DEF GrowsInv
    <2>2. g.next \in Nat /\ g.desired.count \in Nat /\ MaxMonitors \in Nat
      <3>1. g \in [by : Callers \cup {"worker"}, desired : Pools, next : Nat,
                   created : Nat, effects : Seq(KeptEffects)]
        BY <1>1 DEF IInv, GrowthInv
      <3>2. g.next \in Nat /\ g.desired \in Pools
        BY <3>1
      <3> QED
        BY <3>2, LimitsAssumption DEF Pools
    <2>3. \A m \in monitors : /\ m.session # PoolSession(g.next)
                              /\ m.display # PermanentId(g.next)
      BY <2>1, <2>2 DEF PoolSession, PermanentId, PermanentBase
    <2>4. CanCreate(PoolSession(g.next), PermanentId(g.next))
      <3>1. Cardinality(monitors) < MaxMonitors
        BY <1>1, <2>1, <2>2
      <3> QED
        BY <2>1, <2>3, <3>1 DEF CanCreate, Live
    <2>5. PICK conn \in Connectors :
            Create(PoolSession(g.next), PermanentId(g.next), FALSE, conn)
      BY <1>1, <2>4
    <2> DEFINE new == [session |-> PoolSession(g.next), display |-> PermanentId(g.next),
                       ephemeral |-> PermanentId(g.next) >= EphemeralBase,
                       connector |-> conn, leased |-> FALSE, stale |-> FALSE]
    <2>6. monitors' = monitors \cup {new}
      BY <2>5 DEF Create
    <2>7. new.session = PoolSession(g.next) /\ new.display = PermanentId(g.next) /\ ~new.leased
      OBVIOUS
    <2> HIDE DEF new
    <2>8. new \notin monitors
      BY <2>3, <2>7
    <2>9. IsFiniteSet(monitors') /\ Cardinality(monitors') = g.next + 1
      BY <2>1, <2>6, <2>8, FS_AddElement
    <2>10. adapters' /\ h.next = g.next + 1 /\ h.created = g.next + 1
           /\ h.next <= h.desired.count
      <3>1. adapters'
        <4>1. adapters' = adapters
          BY DEF GrowPool
        <4> QED
          BY <2>1, <4>1
      <3>2. h.next = g.next + 1 /\ h.created = g.next + 1 /\ h.desired = g.desired
        BY <1>1, <2>4
      <3>3. g.next < g.desired.count
        BY <1>1
      <3> QED
        BY <2>2, <3>1, <3>2, <3>3
    <2>11. \A m \in monitors' :
             /\ ~m.leased
             /\ \E i \in 0 .. h.next - 1 : /\ m.session = PoolSession(i)
                                           /\ m.display = PermanentId(i)
      <3> SUFFICES ASSUME NEW m \in monitors'
                   PROVE  /\ ~m.leased
                          /\ \E i \in 0 .. h.next - 1 : /\ m.session = PoolSession(i)
                                                        /\ m.display = PermanentId(i)
        OBVIOUS
      <3>1. CASE m = new
        <4>1. g.next \in 0 .. h.next - 1
          BY <2>2, <2>10
        <4> QED
          BY <2>7, <3>1, <4>1
      <3>2. CASE m \in monitors
        <4>1. ~m.leased
          BY <2>1, <3>2
        <4>2. PICK i \in 0 .. g.next - 1 : m.session = PoolSession(i) /\ m.display = PermanentId(i)
          BY <2>1, <3>2
        <4>3. i \in 0 .. h.next - 1
          BY <2>2, <2>10
        <4> QED
          BY <4>1, <4>2, <4>3
      <3> QED
        BY <2>6, <3>1, <3>2
    <2> QED
      BY <2>9, <2>10, <2>11
  <1> QED
    BY <1>1, <1>2, <1>3 DEF GrowsInv

LEMMA GrowsStep ==
  ASSUME AdapterLoss = FALSE, IInv, BringUpInv, SerialInv, EmptyInv, KeptInv, [Next]_vars
  PROVE  GrowsInv'
  <1>1. ASSUME growth' = {} PROVE GrowsInv'
    BY <1>1 DEF GrowsInv
  <1>2. ASSUME UNCHANGED <<growth, monitors, adapters>> PROVE GrowsInv'
    BY <1>2 DEF GrowsInv, KeptInv
  <1>3. ASSUME HostRequest("ioctl") PROVE GrowsInv'
    <2>1. ASSUME NEW s \in HostSessions, NEW d \in Displays \cup {EphemeralId(s)},
                 NEW leased \in BOOLEAN, HostCreate("ioctl", s, d, leased)
          PROVE  growth' = {}
      BY <2>1 DEF HostCreate, MayDispatch, Unlocked
    <2>2. ASSUME NEW s \in HostSessions, HostDestroy("ioctl", s)
          PROVE  growth' = {}
      BY <2>2 DEF HostDestroy, MayDispatch, Unlocked
    <2>3. ASSUME NEW desired \in [count : 0 .. MaxPool, settings : Settings],
                 SetPool("ioctl", desired)
          PROVE  GrowsInv'
      <3> DEFINE gone == {m \in monitors :
                            \E i \in ToDestroy(desired) : m.session = PoolSession(i)}
                 effects == IF gone = {} THEN << >> ELSE << Unplug({m.session : m \in gone}) >>
                 first == IF FirstNew(desired) >= desired.count THEN desired.count ELSE 0
                 g == [by |-> "ioctl", desired |-> desired, next |-> FirstNew(desired),
                       created |-> first, effects |-> effects]
      <3>1. desired.count <= MaxMonitors /\ growth' = {g}
        BY <2>3 DEF SetPool
      <3> HIDE DEF gone, effects, first
      <3>2. g.by = "ioctl" /\ g.desired = desired
        OBVIOUS
      <3> HIDE DEF g
      <3> QED
        BY <3>1, <3>2 DEF GrowsInv
    <2> QED
      BY <1>1, <1>3, <2>1, <2>2, <2>3 DEF HostRequest
  <1>4. ASSUME WatchdogTick \/ (\E s \in HostSessions : Ping(s)) \/ FinishPool \/ Restart
        PROVE  growth' = {}
    BY <1>4 DEF WatchdogTick, MayDispatch, Ping, FinishPool, Restart, Unlocked
  <1>5. ASSUME NEW m \in monitors, LeaseRunsOut(m) PROVE GrowsInv'
    <2>1. m.leased /\ UNCHANGED growth
      BY <1>5 DEF LeaseRunsOut
    <2>2. \A g \in growth : g.by # "worker"
      BY <2>1 DEF KeptInv, GrowsInv
    <2> QED
      BY <2>1, <2>2 DEF KeptInv, GrowsInv
  <1>6. ASSUME NEW c \in Callers, QueueEffects(c)
        PROVE  UNCHANGED <<growth, monitors, adapters>>
    BY <1>6 DEF QueueEffects, deviceVars, tableVars
  <1>7. CASE GrowPool
    BY <1>7, GrowsGrow DEF KeptInv
  <1>8. ASSUME DropPlug \/ StartPlug \/ EndPlug \/ ApplyUnplug \/ ApplyPersist \/ StaleReady
        PROVE  UNCHANGED <<growth, monitors, adapters>>
    BY <1>8 DEF DropPlug, StartPlug, EndPlug, ApplyUnplug, ApplyPersist, StaleReady,
                deviceVars, tableVars
  <1>9. CASE Startup
    <2>1. CASE pool.count > 0
      <3> DEFINE g == [by |-> "worker", desired |-> pool, next |-> 0, created |-> 0,
                       effects |-> << >>]
      <3>1. growth' = {g} /\ adapters' = TRUE /\ UNCHANGED monitors /\ growth = {}
        BY <1>9, <2>1 DEF Startup, IInv, GrowthInv, Pools, Unlocked, tableVars
      <3>2. pool.count <= MaxMonitors /\ pool.count \in Nat
        <4>1. InForce = pool
          BY <3>1, InForceWhen
        <4> QED
          BY <2>1, <4>1 DEF KeptInv, LawfulInv, Lawful, IInv, GrowthInv, Pools
      <3>3. monitors = {}
        <4>1. wpc = "idle" /\ AtHead("ready") /\ Head(queue).epoch = epoch
          BY <1>9 DEF Startup
        <4>2. queue \in Seq(Tasks) /\ queue # << >> /\ Head(queue).kind = "ready"
          BY <4>1 DEF IInv, WorkerInv, AtHead
        <4>3. Len(queue) \in Nat \ {0} /\ queue[1] = Head(queue)
          BY <4>2, EmptySeq, LenProperties
        <4>4. 1 \in ReadiesOf(queue)
          BY <4>2, <4>3 DEF ReadiesOf
        <4>5. pnp = "up" /\ ~adapter
          BY <4>1, <4>3, <4>4 DEF BringUpInv, OneBringUp
        <4> QED
          BY <4>1, <4>5 DEF EmptyInv, Launching
      <3>4. IsFiniteSet(monitors') /\ Cardinality(monitors') = 0
        BY <3>1, <3>3, FS_EmptySet
      <3>5. g.desired = pool /\ g.next = 0 /\ g.created = 0
        OBVIOUS
      <3> HIDE DEF g
      <3>6. adapters' /\ monitors' = {} /\ 0 <= pool.count
        BY <3>1, <3>2, <3>3
      <3> QED
        BY <3>1, <3>2, <3>4, <3>5, <3>6 DEF GrowsInv
    <2>2. CASE ~(pool.count > 0)
      BY <1>1, <1>9, <2>2 DEF Startup, Unlocked
    <2> QED
      BY <2>1, <2>2
  <1>10. CASE Publish
    <2>1. \/ UNCHANGED <<growth, monitors, adapters>>
          \/ growth' = {}
      BY <1>10 DEF Publish, Unlocked, tableVars
    <2> QED
      BY <1>1, <1>2, <2>1
  <1>11. CASE Device
    <2>1. \/ UNCHANGED <<growth, monitors, adapters>>
          \/ growth' = {}
      BY <1>11 DEF Device, DeviceAdd, AdapterInitFinished, FinalExit, DrainMonitors,
                   TeardownReset, Unlocked, deviceVars, tableVars
    <2> QED
      BY <1>1, <1>2, <2>1
  <1>12. ASSUME UNCHANGED vars PROVE UNCHANGED <<growth, monitors, adapters>>
    BY <1>12 DEF vars, deviceVars, tableVars
  <1> QED
    BY <1>1, <1>2, <1>3, <1>4, <1>5, <1>6, <1>7, <1>8, <1>9, <1>10, <1>11, <1>12
       DEF Next, Worker

(* A startup writes nothing. *)
LEMMA LaunchStep ==
  ASSUME IInv, BringUpInv, SerialInv, EpochInv, KeptInv, [Next]_vars
  PROVE  Writes(Launch') = {}
  <1>0. Writes(Launch) = {}
    BY DEF KeptInv
  <1>1. ASSUME UNCHANGED <<wpc, bringUp>>, wpc # "startup" \/ UNCHANGED growth
        PROVE  Writes(Launch') = {}
    BY <1>0, <1>1 DEF Launch, GrowthEffects
  <1>2. ASSUME HostRequest("ioctl") \/ WatchdogTick PROVE Writes(Launch') = {}
    <2>1. UNCHANGED <<wpc, bringUp>>
      BY <1>2 DEF HostRequest, HostCreate, HostDestroy, SetPool, WatchdogTick, workerVars
    <2>2. adapter
      BY <1>2 DEF HostRequest, HostCreate, HostDestroy, SetPool, WatchdogTick, MayDispatch
    <2> QED
      BY <1>1, <2>1, <2>2 DEF BringUpInv
  <1>3. ASSUME (\E s \in HostSessions : Ping(s)) \/ (\E m \in monitors : LeaseRunsOut(m))
        PROVE  UNCHANGED <<wpc, bringUp, growth>>
    BY <1>3 DEF Ping, LeaseRunsOut, workerVars
  <1>4. ASSUME NEW c \in Callers, QueueEffects(c)
        PROVE  UNCHANGED <<wpc, bringUp, growth>>
    BY <1>4 DEF QueueEffects, deviceVars, workerVars
  <1>5. CASE GrowPool
    <2>1. UNCHANGED <<wpc, bringUp>>
      BY <1>5 DEF GrowPool, workerVars
    <2>2. PICK g, h :
             /\ growth = {g} /\ growth' = {h}
             /\ \/ h.effects = g.effects
                \/ \E conn \in Connectors :
                     /\ h.effects = Append(g.effects, Plug(PoolSession(g.next), conn))
                     /\ Plug(PoolSession(g.next), conn) \in KeptEffects
      BY <1>5, GrowCollects
    <2>3. GrowthEffects = g.effects /\ GrowthEffects \in Seq(KeptEffects)
      BY <2>2, GrowthEffectsOf, GrowthEffectsKept
    <2>4. GrowthEffects' = h.effects
      <3>1. (CHOOSE k \in {h} : TRUE) = h
        BY OnlyOne
      <3> QED
        BY <2>2, <3>1 DEF GrowthEffects
    <2>5. CASE wpc = "startup"
      <3>1. Writes(g.effects) = {} /\ g.effects \in Seq(Tasks) /\ Launch' = h.effects
        BY <1>0, <2>1, <2>3, <2>4, <2>5, EffectsAreTasks DEF Launch
      <3>2. CASE h.effects = g.effects
        BY <3>1, <3>2
      <3>3. ASSUME NEW e \in KeptEffects, e.kind = "plug", h.effects = Append(g.effects, e)
            PROVE  Writes(Launch') = {}
        <4>1. e \in Tasks /\ e.kind # "persist"
          BY <3>3 DEF Tasks
        <4> QED
          BY <3>1, <3>3, <4>1, WritesNone
      <3> QED
        BY <2>2, <3>2, <3>3, PlugFields
    <2> QED
      BY <1>1, <2>1, <2>5
  <1>6. CASE FinishPool
    <2>1. PICK g \in growth :
            \/ g.by # "worker" /\ UNCHANGED <<wpc, bringUp>>
            \/ g.by = "worker" /\ bringUp' = g.effects /\ wpc' = "publish"
      BY <1>6 DEF FinishPool
    <2>2. growth = {g}
      BY DEF SerialInv
    <2>3. CASE g.by = "worker"
      <3>1. wpc = "startup" /\ Launch' = g.effects
        BY <2>1, <2>3 DEF Launch, IInv, WorkerInv
      <3> QED
        BY <1>0, <2>2, <3>1, GrowthEffectsOf DEF Launch
    <2>4. CASE g.by # "worker"
      <3>1. wpc # "startup"
        BY <2>4 DEF SerialInv, BringUpInv
      <3> QED
        BY <1>1, <2>1, <2>4, <3>1
    <2> QED
      BY <2>3, <2>4
  <1>7. CASE DropPlug \/ StartPlug \/ EndPlug \/ ApplyUnplug \/ ApplyPersist \/ StaleReady
    <2>1. UNCHANGED bringUp /\ wpc # "startup" /\ wpc' # "startup"
      BY <1>7 DEF DropPlug, StartPlug, EndPlug, ApplyUnplug, ApplyPersist, StaleReady, workerVars
    <2> QED
      BY <1>0, <2>1 DEF Launch
  <1>8. CASE Startup
    <2>1. CASE pool.count > 0
      <3> DEFINE g == [by |-> "worker", desired |-> pool, next |-> 0, created |-> 0,
                       effects |-> << >>]
      <3>1. growth' = {g} /\ wpc' = "startup"
        BY <1>8, <2>1 DEF Startup, IInv, GrowthInv, Pools
      <3>2. g.effects = << >> /\ (CHOOSE k \in {g} : TRUE) = g
        BY OnlyOne
      <3> HIDE DEF g
      <3>3. Launch' = << >>
        BY <3>1, <3>2 DEF Launch, GrowthEffects
      <3> QED
        BY <3>3, WritesEmpty
    <2>2. CASE ~(pool.count > 0)
      <3>1. Launch' = << >>
        BY <1>8, <2>2 DEF Startup, Launch, EpochInv
      <3> QED
        BY <3>1, WritesEmpty
    <2> QED
      BY <2>1, <2>2
  <1>9. CASE Publish \/ Restart
    <2>1. wpc' = "idle" /\ bringUp' = << >>
      BY <1>9 DEF Publish, Restart
    <2> QED
      BY <2>1, WritesEmpty DEF Launch
  <1>10. ASSUME Device PROVE UNCHANGED <<wpc, bringUp, growth>>
    BY <1>10 DEF Device, DeviceAdd, AdapterInitFinished, FinalExit, DrainMonitors,
                 TeardownReset, deviceVars, workerVars
  <1>11. ASSUME UNCHANGED vars PROVE UNCHANGED <<wpc, bringUp, growth>>
    BY <1>11 DEF vars, deviceVars, workerVars
  <1> QED
    BY <1>1, <1>2, <1>3, <1>4, <1>5, <1>6, <1>7, <1>8, <1>9, <1>10, <1>11 DEF Next, Worker

(* What a step does to all that is on its way *)

LEMMA LawfulUnchanged ==
  ASSUME LawfulInv, UNCHANGED <<disk, asked>>, Way' = Way, InForce' = InForce
  PROVE  LawfulInv'
  BY DEF LawfulInv

(* A handler that changes no pool persists the one in force. *)
LEMMA LawfulDecided ==
  ASSUME IInv, IInv', SerialInv, LawfulInv, NEW c \in Callers, growth = {}, Settled,
         NEW a \in KeptEffects, a.kind # "persist",
         Decide(c, << a, Persist(reserved', pool) >>),
         UNCHANGED <<growth, queue, wpc, pool, disk, asked>>
  PROVE  LawfulInv'
  <1>1. PICK e : e = Persist(reserved', pool)
    OBVIOUS
  <1>2. /\ e \in KeptEffects /\ e.kind = "persist" /\ e.blob.pool = Norm(pool)
        /\ a \in Tasks /\ e \in Tasks
    <2>1. e \in KeptEffects
      BY <1>1, PersistKept DEF IInv, TableInv, Reserved, GrowthInv
    <2>2. e.kind = "persist" /\ e.blob.pool = Norm(pool)
      BY <1>1, PersistNorm
    <2> QED
      BY <2>1, <2>2 DEF Tasks
  <1>3. Way' = Way \o << a, e >>
    <2>1. << a, e >> \in Seq(KeptEffects)
      BY <1>2
    <2>2. Decide(c, << a, e >>)
      BY <1>1
    <2> QED
      BY <2>1, <2>2, WayDecided
  <1>4. Way \in Seq(Tasks)
    BY AgreeTypes
  <1>5. Way' = Append(Append(Way, a), e) /\ Append(Way, a) \in Seq(Tasks)
    BY <1>2, <1>3, <1>4, AppendPair
  <1>6. InForce = pool /\ InForce' = pool
    BY InForceWhen DEF InForce
  <1>7. Lawful(Append(Way, a), disk.pool, pool, asked)
    BY <1>2, <1>4, <1>6, LawfulAppended DEF LawfulInv
  <1>8. PICK longer \in Seq(Tasks) : longer = Append(Way, a)
    BY <1>5
  <1>9. Lawful(Append(longer, e), disk.pool, pool, asked)
    BY <1>2, <1>7, <1>8, LawfulAppended
  <1> QED
    BY <1>5, <1>6, <1>8, <1>9 DEF LawfulInv

LEMMA LawfulHost ==
  ASSUME Serial, IInv, IInv', SerialInv, SerialInv', BringUpInv, LawfulInv,
         HostRequest("ioctl") \/ WatchdogTick
  PROVE  LawfulInv'
  <1>0. "ioctl" \in Callers /\ "watchdog" \in Callers
    BY DEF Callers
  <1>1. ASSUME NEW s \in HostSessions, NEW d \in Displays \cup {EphemeralId(s)},
               NEW leased \in BOOLEAN, HostCreate("ioctl", s, d, leased)
        PROVE  LawfulInv'
    <2>1. /\ growth = {} /\ Settled /\ s \in Sessions
          /\ UNCHANGED <<growth, queue, wpc, pool, disk, asked>>
      BY <1>1 DEF HostCreate, MayDispatch, Unlocked, workerVars, Sessions
    <2>2. PICK conn \in Connectors :
            Decide("ioctl", << Plug(s, conn), Persist(reserved', pool) >>)
      BY <1>1 DEF HostCreate
    <2>3. Plug(s, conn) \in KeptEffects /\ Plug(s, conn).kind # "persist"
      BY <2>1, PlugKept, PlugFields
    <2> QED
      BY <1>0, <2>1, <2>2, <2>3, LawfulDecided
  <1>2. ASSUME NEW s \in HostSessions, HostDestroy("ioctl", s)
        PROVE  LawfulInv'
    <2>1. /\ growth = {} /\ Settled /\ {s} \in SUBSET Sessions
          /\ Decide("ioctl", << Unplug({s}), Persist(reserved', pool) >>)
          /\ UNCHANGED <<growth, queue, wpc, pool, disk, asked>>
      BY <1>2 DEF HostDestroy, MayDispatch, Unlocked, workerVars, Sessions
    <2>2. Unplug({s}) \in KeptEffects /\ Unplug({s}).kind # "persist"
      BY <2>1, UnplugKept DEF Unplug
    <2> QED
      BY <1>0, <2>1, <2>2, LawfulDecided
  <1>3. CASE WatchdogTick
    <2> DEFINE left == {m.session : m \in Expired}
    <2>1. /\ growth = {} /\ Settled
          /\ Decide("watchdog", << Unplug(left), Persist(reserved', pool) >>)
          /\ UNCHANGED <<growth, queue, wpc, pool, disk, asked>>
      BY <1>3 DEF WatchdogTick, MayDispatch, Unlocked, workerVars
    <2>2. left \in SUBSET Sessions
      BY DEF Expired, IInv, TableInv, Monitors
    <2> HIDE DEF left
    <2>3. Unplug(left) \in KeptEffects /\ Unplug(left).kind # "persist"
      BY <2>2, UnplugKept DEF Unplug
    <2> QED
      BY <1>0, <2>1, <2>3, LawfulDecided
  <1>4. ASSUME NEW desired \in [count : 0 .. MaxPool, settings : Settings],
               SetPool("ioctl", desired)
        PROVE  LawfulInv'
    <2> DEFINE gone == {m \in monitors :
                          \E i \in ToDestroy(desired) : m.session = PoolSession(i)}
               left == {m.session : m \in gone}
               effects == IF gone = {} THEN << >> ELSE << Unplug(left) >>
               first == IF FirstNew(desired) >= desired.count THEN desired.count ELSE 0
               g == [by |-> "ioctl", desired |-> desired, next |-> FirstNew(desired),
                     created |-> first, effects |-> effects]
    <2>1. /\ growth = {} /\ Settled /\ wpc # "startup"
          /\ UNCHANGED <<queue, held, wpc, pool, disk, asked>>
      BY <1>4 DEF SetPool, MayDispatch, Unlocked, workerVars, BringUpInv
    <2>2. growth' = {g}
      BY <1>4 DEF SetPool
    <2>3. left \in SUBSET Sessions
      BY DEF IInv, TableInv, Monitors
    <2>4. (gone = {} => effects = << >>) /\ (gone # {} => effects = << Unplug(left) >>)
      OBVIOUS
    <2> HIDE DEF gone, left, effects, first
    <2>5. g.effects = effects
      OBVIOUS
    <2> HIDE DEF g
    <2>6. GrowthEffects = << >> /\ GrowthEffects' = effects
      <3>1. (CHOOSE h \in {g} : TRUE) = g
        BY OnlyOne
      <3> QED
        BY <2>1, <2>2, <2>5, <3>1, GrowthEffectsOf DEF GrowthEffects
    <2>7. InForce = pool /\ InForce' = pool
      BY <2>1, InForceWhen DEF InForce
    <2>8. Way \in Seq(Tasks)
      BY AgreeTypes
    <2>9. CASE gone = {}
      <3>1. Ours' = Ours
        BY <2>1, <2>4, <2>6, <2>9 DEF Ours
      <3>2. Way' = Way
        BY <2>1, <3>1, WaySame
      <3> QED
        BY <2>1, <2>7, <3>2, LawfulUnchanged
    <2>10. CASE gone # {}
      <3> DEFINE e == Unplug(left)
      <3>1. e \in KeptEffects /\ e \in Tasks /\ e.kind # "persist"
        BY <2>3, UnplugKept DEF Unplug, Tasks
      <3>2. effects = << e >>
        BY <2>4, <2>10
      <3> HIDE DEF e
      <3>3. << e >> \in Seq(KeptEffects)
        BY <3>1
      <3>4. GrowthEffects' = GrowthEffects \o << e >>
        BY <2>6, <3>2, <3>3, ConcatEmptySeq
      <3>5. Way' = Way \o << e >>
        BY <2>1, <3>3, <3>4, WayCollected
      <3>6. Way' = Append(Way, e)
        BY <2>8, <3>1, <3>5, AppendPair
      <3>7. Lawful(Append(Way, e), disk.pool, pool, asked)
        BY <2>7, <2>8, <3>1, LawfulAppended DEF LawfulInv
      <3> QED
        BY <2>1, <2>7, <3>6, <3>7 DEF LawfulInv
    <2> QED
      BY <2>9, <2>10
  <1> QED
    BY <1>1, <1>2, <1>3, <1>4 DEF HostRequest

LEMMA LawfulGrow ==
  ASSUME IInv, IInv', SerialInv, SerialInv', BringUpInv, LawfulInv, GrowPool
  PROVE  LawfulInv'
  <1>1. UNCHANGED <<queue, held, wpc, pool, disk, asked>>
    BY DEF GrowPool, workerVars
  <1>2. PICK g, h :
           /\ g \in growth /\ growth = {g} /\ growth' = {h} /\ h.by = g.by
           /\ h.desired = g.desired
           /\ \/ h.effects = g.effects
              \/ \E conn \in Connectors :
                   /\ h.effects = Append(g.effects, Plug(PoolSession(g.next), conn))
                   /\ Plug(PoolSession(g.next), conn) \in KeptEffects
    BY GrowCollects
  <1>3. GrowthEffects = g.effects /\ GrowthEffects \in Seq(KeptEffects)
        /\ GrowthEffects' = h.effects /\ InForce' = InForce
    <2>1. (CHOOSE k \in {h} : TRUE) = h
      BY OnlyOne
    <2>2. GrowthEffects = g.effects /\ GrowthEffects \in Seq(KeptEffects)
      BY <1>2, GrowthEffectsOf, GrowthEffectsKept
    <2>3. GrowthEffects' = h.effects
      BY <1>2, <2>1 DEF GrowthEffects
    <2>4. InForce' = IF wpc = "startup" THEN h.desired ELSE pool
      BY <1>1, <1>2, <2>1 DEF InForce
    <2>5. InForce = IF wpc = "startup" THEN g.desired ELSE pool
      BY <1>2, InForceWhen
    <2> QED
      BY <1>2, <2>2, <2>3, <2>4, <2>5
  <1>4. CASE Ours' = Ours
    <2>1. Way' = Way
      BY <1>1, <1>4, WaySame
    <2> QED
      BY <1>1, <1>3, <2>1, LawfulUnchanged
  <1>5. CASE Ours' # Ours
    <2>1. wpc # "startup" /\ h.effects # g.effects
      BY <1>1, <1>3, <1>5 DEF Ours
    <2>2. g.by # "worker"
      BY <1>2, <2>1 DEF IInv, WorkerInv
    <2>3. Settled
      BY <1>2, <2>2 DEF SerialInv
    <2>4. PICK e \in KeptEffects : e.kind = "plug" /\ h.effects = Append(g.effects, e)
      BY <1>2, <2>1, PlugFields
    <2>5. e \in Tasks /\ << e >> \in Seq(KeptEffects) /\ Way \in Seq(Tasks)
      BY AgreeTypes DEF Tasks
    <2>6. GrowthEffects' = GrowthEffects \o << e >>
      BY <1>3, <2>4, AppendPair
    <2>7. Way' = Append(Way, e)
      <3>1. Way' = Way \o << e >>
        BY <1>1, <2>1, <2>3, <2>5, <2>6, WayCollected
      <3> QED
        BY <2>5, <3>1, AppendPair
    <2>8. Lawful(Append(Way, e), disk.pool, InForce, asked)
      BY <2>4, <2>5, LawfulAppended DEF LawfulInv
    <2> QED
      BY <1>1, <1>3, <2>7, <2>8 DEF LawfulInv
  <1> QED
    BY <1>4, <1>5

LEMMA LawfulFinish ==
  ASSUME IInv, IInv', SerialInv, SerialInv', BringUpInv, GrowsInv, LawfulInv, FinishPool
  PROVE  LawfulInv'
  <1>1. PICK g \in growth :
          /\ g.next >= g.desired.count
          /\ pool' = GrownPool(g) /\ growth' = {}
          /\ \/ /\ g.by # "worker"
                /\ Decide(g.by, Append(g.effects, Persist(reserved, pool')))
                /\ asked' = asked \cup {Snapshot({}, pool').pool}
                /\ UNCHANGED wpc
             \/ /\ g.by = "worker"
                /\ wpc' = "publish"
                /\ UNCHANGED <<held, asked>>
          /\ UNCHANGED <<reserved, queue, disk>>
    BY DEF FinishPool, tableVars
  <1>2. g \in [by : Callers \cup {"worker"}, desired : Pools, next : Nat,
               created : Nat, effects : Seq(KeptEffects)]
    BY DEF IInv, GrowthInv
  <1>3. growth = {g}
    BY DEF SerialInv
  <1>4. CASE g.by = "worker"
    <2>1. g.created = g.next /\ g.next <= g.desired.count /\ g.next >= g.desired.count
      BY <1>1, <1>4 DEF GrowsInv
    <2>2. pool' = g.desired
      <3>1. g.desired \in Pools /\ g.created \in Nat
        BY <1>2
      <3>2. g.desired.count \in Nat
        BY <3>1, LimitsAssumption DEF Pools
      <3>3. g.created = g.desired.count
        BY <1>2, <2>1, <3>2
      <3>4. [g.desired EXCEPT !.count = g.desired.count] = g.desired
        BY <3>1 DEF Pools
      <3> QED
        BY <1>1, <3>3, <3>4 DEF GrownPool
    <2>3. wpc = "startup" /\ wpc' = "publish" /\ UNCHANGED <<held, asked, queue, disk>>
      BY <1>1, <1>4 DEF IInv, WorkerInv
    <2>4. InForce = g.desired /\ InForce' = g.desired
      BY <1>3, <2>2, <2>3, InForceWhen DEF InForce
    <2>5. Ours' = Ours
      <3>1. Ours = << >> /\ Ours' = << >>
        BY <1>1, <2>3 DEF Ours, GrowthEffects
      <3> QED
        BY <3>1
    <2>6. Way' = Way
      BY <2>3, <2>5, WaySame
    <2> QED
      BY <2>3, <2>4, <2>6, LawfulUnchanged
  <1>5. CASE g.by # "worker"
    <2>1. /\ Settled /\ wpc # "startup" /\ g.by \in Callers
          /\ Decide(g.by, Append(g.effects, Persist(reserved, pool')))
          /\ asked' = asked \cup {Snapshot({}, pool').pool}
          /\ UNCHANGED <<queue, wpc, disk>> /\ growth' = {}
      BY <1>1, <1>2, <1>3, <1>5 DEF SerialInv, BringUpInv
    <2>2. PICK p : p = pool'
      OBVIOUS
    <2>3. PICK e : e = Persist(reserved, p)
      OBVIOUS
    <2>4. e \in KeptEffects /\ e.kind = "persist" /\ e \in Tasks /\ e.blob.pool = Norm(p)
          /\ asked' = asked \cup {Norm(p)}
      <3>1. p \in Pools
        BY <2>2 DEF IInv, GrowthInv
      <3>2. e \in KeptEffects
        BY <2>3, <3>1, PersistKept DEF IInv, TableInv, Reserved
      <3>3. e.kind = "persist" /\ e.blob.pool = Norm(p) /\ Snapshot({}, p).pool = Norm(p)
        BY <2>3, PersistNorm
      <3> QED
        BY <2>1, <2>2, <3>2, <3>3 DEF Tasks
    <2>5. p.count <= MaxMonitors
      <3>1. g.desired.count <= MaxMonitors
        BY DEF GrowsInv
      <3>2. g.desired \in Pools /\ g.created \in Nat
        BY <1>2
      <3>3. g.desired.count \in Nat
        BY <3>2, LimitsAssumption DEF Pools
      <3>4. p.count = IF g.created < g.desired.count THEN g.created ELSE g.desired.count
        BY <1>1, <2>2, <3>2 DEF GrownPool, Pools
      <3> QED
        BY <3>1, <3>2, <3>3, <3>4, LimitsAssumption
    <2>6. Way' = Append(Way, e)
      <3>1. Decide(g.by, Append(g.effects, e))
        BY <2>1, <2>2, <2>3
      <3> QED
        BY <1>3, <2>1, <2>4, <3>1, WayFinished
    <2>7. Way \in Seq(Tasks)
      BY AgreeTypes
    <2>8. InForce' = p
      BY <2>1, <2>2 DEF InForce
    <2>9. Lawful(Append(Way, e), disk.pool, p, asked \cup {Norm(p)})
      BY <2>4, <2>5, <2>7, LawfulAsked DEF LawfulInv
    <2> QED
      BY <2>1, <2>4, <2>6, <2>8, <2>9 DEF LawfulInv
  <1> QED
    BY <1>4, <1>5

(* A task of the worker: the registry stays as it is, or takes the blob. *)
LEMMA LawfulTask ==
  ASSUME IInv, SerialInv, LawfulInv, queue # << >>, queue' = Tail(queue),
         wpc # "startup", wpc' # "startup", UNCHANGED <<held, growth, pool, asked>>,
         disk' = disk \/ (Head(queue).kind = "persist" /\ disk' = Head(queue).blob)
  PROVE  LawfulInv' /\ (disk'.pool # disk.pool => disk'.pool \in asked)
  <1>1. Ours' = Ours
    BY DEF Ours, GrowthEffects
  <1>2. Way # << >> /\ Head(Way) = Head(queue) /\ Way' = Tail(Way)
    BY <1>1, WayPopped
  <1>3. InForce = pool /\ InForce' = pool
    BY InForceWhen DEF InForce
  <1>4. Way \in Seq(Tasks) /\ Lawful(Way, disk.pool, pool, asked)
    BY <1>3, AgreeTypes DEF LawfulInv
  <1>5. PICK d : d = disk'
    OBVIOUS
  <1>6. d.pool = disk.pool \/ (Head(Way).kind = "persist" /\ d.pool = Head(Way).blob.pool)
    BY <1>2, <1>5
  <1>7. Lawful(Tail(Way), d.pool, pool, asked) /\ (d.pool # disk.pool => d.pool \in asked)
    BY <1>2, <1>4, <1>6, LawfulPopped
  <1>8. Lawful(Way', disk'.pool, InForce', asked')
    BY <1>2, <1>3, <1>5, <1>7
  <1> QED
    BY <1>5, <1>7, <1>8 DEF LawfulInv

LEMMA LawfulPublish ==
  ASSUME IInv, BringUpInv, SerialInv, KeptInv, Publish
  PROVE  LawfulInv'
  <1>1. /\ wpc = "publish" /\ wpc' = "idle" /\ queue # << >>
        /\ UNCHANGED <<held, growth, pool, disk, asked>>
    BY DEF Publish, IInv, WorkerInv, AtHead
  <1>2. InForce = pool /\ InForce' = pool
    BY <1>1, InForceWhen DEF InForce
  <1>3. CASE Head(queue).epoch = epoch
    <2>1. queue' = bringUp \o Tail(queue)
      BY <1>3 DEF Publish
    <2>2. Way' = bringUp
      BY <1>1, <1>3, <2>1, WayPublished
    <2>3. \A i \in 1 .. Len(bringUp) : bringUp[i].kind # "persist"
      BY <1>1 DEF KeptInv, Launch, Writes
    <2>4. /\ Sound(disk.pool) /\ pool.count <= MaxMonitors
          /\ Norm(pool) \in asked \/ Norm(pool) = disk.pool
      BY <1>2 DEF KeptInv, LawfulInv, Lawful
    <2>5. Lawful(bringUp, disk.pool, pool, asked)
      BY <2>3, <2>4, LawfulFresh
    <2> QED
      BY <1>1, <1>2, <2>2, <2>5 DEF LawfulInv
  <1>4. CASE Head(queue).epoch # epoch
    <2>1. queue' = Tail(queue)
      BY <1>4 DEF Publish
    <2> QED
      BY <1>1, <2>1, LawfulTask DEF KeptInv
  <1> QED
    BY <1>3, <1>4

LEMMA LawfulWorker ==
  ASSUME IInv, BringUpInv, SerialInv, KeptInv, Worker
  PROVE  LawfulInv'
  <1>0. LawfulInv
    BY DEF KeptInv
  <1>1. CASE DropPlug \/ EndPlug \/ ApplyUnplug \/ ApplyPersist \/ StaleReady
    <2>1. /\ queue # << >> /\ queue' = Tail(queue) /\ wpc # "startup" /\ wpc' # "startup"
          /\ UNCHANGED <<held, growth, pool, asked>>
      BY <1>1 DEF DropPlug, EndPlug, ApplyUnplug, ApplyPersist, StaleReady, AtHead, IInv,
                  WorkerInv, deviceVars, workerVars
    <2>2. disk' = disk \/ (Head(queue).kind = "persist" /\ disk' = Head(queue).blob)
      BY <1>1 DEF DropPlug, EndPlug, ApplyUnplug, ApplyPersist, StaleReady, AtHead
    <2> QED
      BY <1>0, <2>1, <2>2, LawfulTask
  <1>2. CASE StartPlug
    <2>1. /\ wpc # "startup" /\ wpc' # "startup"
          /\ UNCHANGED <<queue, held, growth, pool, disk, asked>>
      BY <1>2 DEF StartPlug, deviceVars
    <2>2. Ours' = Ours
      BY <2>1 DEF Ours, GrowthEffects
    <2>3. InForce = pool /\ InForce' = pool
      BY <2>1 DEF InForce
    <2>4. Way' = Way
      BY <2>1, <2>2, WaySame
    <2> QED
      BY <1>0, <2>1, <2>3, <2>4, LawfulUnchanged
  <1>3. CASE Startup
    <2>1. growth = {} /\ UNCHANGED <<queue, held, disk, asked>> /\ InForce = pool
      BY <1>3, InForceWhen DEF Startup, Unlocked
    <2>2. Ours = << >>
      BY <2>1, GrowthEffectsOf DEF Ours
    <2>3. CASE pool.count > 0
      <3> DEFINE g == [by |-> "worker", desired |-> pool, next |-> 0, created |-> 0,
                       effects |-> << >>]
      <3>1. growth' = {g} /\ wpc' = "startup"
        BY <1>3, <2>3 DEF Startup, IInv, GrowthInv, Pools
      <3>2. g.desired = pool /\ (CHOOSE h \in {g} : TRUE) = g
        BY OnlyOne
      <3> HIDE DEF g
      <3>3. InForce' = pool /\ Ours' = << >>
        BY <3>1, <3>2 DEF InForce, Ours
      <3>4. Way' = Way
        BY <2>1, <2>2, <3>3, WaySame
      <3> QED
        BY <1>0, <2>1, <3>3, <3>4, LawfulUnchanged
    <2>4. CASE ~(pool.count > 0)
      <3>1. growth' = {} /\ pool' = pool
        BY <1>3, <2>1, <2>4 DEF Startup
      <3>2. InForce' = pool /\ Ours' = << >>
        BY <3>1 DEF InForce, Ours, GrowthEffects
      <3>3. Way' = Way
        BY <2>1, <2>2, <3>2, WaySame
      <3> QED
        BY <1>0, <2>1, <3>2, <3>3, LawfulUnchanged
    <2> QED
      BY <2>3, <2>4
  <1> QED
    BY <1>1, <1>2, <1>3, LawfulPublish DEF Worker

LEMMA LawfulDevice ==
  ASSUME IInv, BringUpInv, SerialInv, LawfulInv, Device \/ Restart
  PROVE  LawfulInv'
  <1>1. CASE DeviceAdd \/ FinalExit \/ DrainMonitors \/ TeardownReset
    <2>1. UNCHANGED <<queue, held, growth, wpc, pool, disk, asked>>
      BY <1>1 DEF DeviceAdd, FinalExit, DrainMonitors, TeardownReset, PoolLeft, deviceVars,
                  workerVars
    <2>2. Way' = Way /\ InForce' = InForce
      BY <2>1 DEF Way, Ours, GrowthEffects, InForce
    <2> QED
      BY <2>1, <2>2, LawfulUnchanged
  <1>2. CASE AdapterInitFinished
    <2> DEFINE task == [kind |-> "ready", epoch |-> mark]
    <2>1. /\ queue' = Append(queue, task) /\ pnp = "starting"
          /\ UNCHANGED <<held, growth, wpc, pool, disk, asked>>
      BY <1>2 DEF AdapterInitFinished, deviceVars, workerVars
    <2>2. ~adapter
      BY <2>1 DEF BringUpInv
    <2>3. task \in Tasks /\ task.kind # "persist"
      BY DEF Tasks, ReadyTasks, IInv, ShellInv
    <2> HIDE DEF task
    <2>4. Way = queue /\ Way \in Seq(Tasks)
      BY <2>2, WayUnpublished, AgreeTypes
    <2>5. Way' = Append(queue, task) /\ InForce' = InForce
      <3>1. held["ioctl"] = << >> /\ held["watchdog"] = << >> /\ Ours = << >>
        <4>1. Settled /\ (growth = {} \/ wpc = "startup")
          BY <2>2 DEF SerialInv, IInv, WorkerInv
        <4> QED
          BY <4>1, GrowthEffectsOf DEF Settled, Callers, Ours
      <3>2. Ours' = Ours /\ InForce' = InForce
        BY <2>1 DEF Ours, GrowthEffects, InForce
      <3>3. Append(queue, task) \in Seq(Tasks)
        BY <2>3, <2>4, AppendProperties
      <3>4. Append(queue, task) \o << >> = Append(queue, task) /\ << >> \o << >> = << >>
        BY <3>3, EmptySeq, ConcatEmptySeq
      <3> QED
        BY <2>1, <3>1, <3>2, <3>4 DEF Way
    <2>6. Lawful(Append(Way, task), disk.pool, InForce, asked)
      BY <2>3, <2>4, LawfulAppended DEF LawfulInv
    <2> QED
      BY <2>1, <2>4, <2>5, <2>6 DEF LawfulInv
  <1>3. CASE Restart
    <2>1. /\ queue' = << >> /\ held' = [c \in Callers |-> << >>] /\ growth' = {}
          /\ wpc' = "idle" /\ pool' = disk.pool /\ UNCHANGED <<disk, asked>>
      BY <1>3 DEF Restart
    <2>2. InForce' = disk.pool /\ Ours' = << >>
      BY <2>1 DEF InForce, Ours, GrowthEffects
    <2>3. Way' = << >>
      <3>1. held'["ioctl"] = << >> /\ held'["watchdog"] = << >>
        BY <2>1 DEF Callers
      <3>2. << >> \o << >> = << >>
        BY EmptySeq, ConcatEmptySeq
      <3> QED
        BY <2>1, <2>2, <3>1, <3>2 DEF Way
    <2>4. Sound(disk.pool)
      BY DEF LawfulInv, Lawful
    <2>5. \A i \in 1 .. Len(<< >>) : << >>[i].kind # "persist"
      OBVIOUS
    <2>6. Lawful(<< >>, disk.pool, disk.pool, asked)
      BY <2>4, <2>5, LawfulFresh DEF Sound
    <2> QED
      BY <2>1, <2>2, <2>3, <2>6 DEF LawfulInv
  <1> QED
    BY <1>1, <1>2, <1>3 DEF Device

LEMMA LawfulStep ==
  ASSUME Serial, IInv, IInv', BringUpInv, SerialInv, SerialInv', KeptInv, [Next]_vars
  PROVE  LawfulInv'
  <1>0. LawfulInv /\ GrowsInv
    BY DEF KeptInv
  <1>1. ASSUME UNCHANGED <<queue, held, growth, wpc, pool, disk, asked>>
        PROVE  LawfulInv'
    <2>1. Way' = Way /\ InForce' = InForce
      BY <1>1 DEF Way, Ours, GrowthEffects, InForce
    <2> QED
      BY <1>0, <1>1, <2>1, LawfulUnchanged
  <1>2. ASSUME (\E s \in HostSessions : Ping(s)) \/ (\E m \in monitors : LeaseRunsOut(m))
               \/ UNCHANGED vars
        PROVE  LawfulInv'
    <2>1. UNCHANGED <<queue, held, growth, wpc, pool, disk, asked>>
      BY <1>2 DEF Ping, LeaseRunsOut, vars, deviceVars, workerVars
    <2> QED
      BY <1>1, <2>1
  <1>3. ASSUME NEW c \in Callers, QueueEffects(c) PROVE LawfulInv'
    <2>1. UNCHANGED <<growth, wpc, pool, disk, asked>>
      BY <1>3 DEF QueueEffects, deviceVars, workerVars
    <2>2. Way' = Way /\ InForce' = InForce
      BY <1>3, <2>1, WayQueued DEF InForce
    <2> QED
      BY <1>0, <2>1, <2>2, LawfulUnchanged
  <1> QED
    BY <1>0, <1>2, <1>3, LawfulHost, LawfulGrow, LawfulFinish, LawfulWorker, LawfulDevice
       DEF Next

KeptOrder == IInv /\ BringUpInv /\ SerialInv /\ EmptyInv /\ EpochInv /\ KeptInv

LEMMA KeptInvariance ==
  ASSUME Serial = TRUE, AdapterLoss = FALSE
  PROVE  Spec => []KeptOrder
  <1>1. Init => KeptOrder
    BY InvInit, BringUpInit, SerialInit, EmptyInit, KeptInit DEF KeptOrder
  <1>2. KeptOrder /\ [Next]_vars => KeptOrder'
    <2> SUFFICES ASSUME KeptOrder, [Next]_vars PROVE KeptOrder'
      OBVIOUS
    <2>1. IInv' /\ BringUpInv'
      BY InvStep, BringUpStep DEF KeptOrder
    <2>2. SerialInv' /\ EmptyInv' /\ EpochInv'
      BY <2>1, SerialStep, EmptyStep, EpochStep DEF KeptOrder
    <2>3. GrowsInv' /\ Writes(Launch') = {}
      BY GrowsStep, LaunchStep DEF KeptOrder
    <2>4. LawfulInv'
      BY <2>1, <2>2, LawfulStep DEF KeptOrder
    <2> QED
      BY <2>1, <2>2, <2>3, <2>4 DEF KeptOrder, KeptInv
  <1> QED
    BY <1>1, <1>2, PTL DEF Spec

(* write_persisted (shell/control.rs) never puts a pool in the registry that
   SET_PERMANENT_POOL has not put in force (core/session.rs, apply_pool): not
   when a handler persists while the pool in force is one an earlier process
   left, nor after a startup, an exit or a restart, nor as an older blob written
   late.  Serial is needed for the last: handlers that overlap may queue their
   blobs in another order than they decided in.  A bring-up that finds no render
   adapter creates no member of the pool and the next blob erases it from the
   registry, so AdapterLoss is assumed away. *)
THEOREM PoolKept ==
  ASSUME Serial = TRUE, AdapterLoss = FALSE
  PROVE  Spec => PoolIsKept
  <1>1. KeptOrder /\ [Next]_vars
          => [disk'.pool # disk.pool => disk'.pool \in asked]_disk
    <2> SUFFICES ASSUME KeptOrder, [Next]_vars, disk' # disk
                 PROVE  disk'.pool # disk.pool => disk'.pool \in asked
      OBVIOUS
    <2>1. ApplyPersist
      BY DEF Next, HostRequest, HostCreate, HostDestroy, SetPool, Ping, LeaseRunsOut,
             WatchdogTick, QueueEffects, GrowPool, FinishPool, Worker, DropPlug, StartPlug,
             EndPlug, ApplyUnplug, StaleReady, Startup, Publish, Device, DeviceAdd,
             AdapterInitFinished, FinalExit, DrainMonitors, TeardownReset, Restart, vars
    <2>2. /\ queue # << >> /\ queue' = Tail(queue) /\ wpc # "startup" /\ wpc' # "startup"
          /\ UNCHANGED <<held, growth, pool, asked>>
          /\ Head(queue).kind = "persist" /\ disk' = Head(queue).blob
      BY <2>1 DEF ApplyPersist, AtHead, deviceVars, workerVars
    <2> QED
      BY <2>2, LawfulTask DEF KeptOrder, KeptInv
  <1> QED
    BY <1>1, KeptInvariance, PTL DEF Spec, PoolIsKept
=============================================================================
