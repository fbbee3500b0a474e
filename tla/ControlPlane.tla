----------------------------- MODULE ControlPlane -----------------------------
(***************************************************************************)
(* The driver's control plane: the session table with its connector        *)
(* reservations and permanent pool (decided under one lock), the effects   *)
(* each decision queues, the effects worker that applies them to the OS,   *)
(* the registry blob, and the bring-up and final exit of the device.       *)
(*                                                                         *)
(* A handler decides in one step, under the device lock, and queues its    *)
(* effects in a later one, after the lock is gone; growing the pool takes  *)
(* a step per member, with the lock held throughout.  Refused requests     *)
(* change nothing and have no step.                                        *)
(***************************************************************************)
EXTENDS Naturals, FiniteSets, Sequences

CONSTANTS
  HostSessions,  \* session ids the host uses
  Displays,      \* display ids the host uses for identities it wants kept
  MaxMonitors,   \* max_monitors, also the number of connectors
  MaxPool,       \* MAX_PERMANENT_DISPLAYS
  Settings,      \* pool settings: mode, size, name
  Serial,        \* a handler's effects are queued before the next handler runs
  AdapterLoss,   \* the DXGI walk may come back without a render adapter
  MaxAge,        \* bound: connector acquisitions of one process
  MaxEpoch,      \* bound: adapter epochs of one process
  MaxQueue       \* bound: effects queued when a handler starts

(* The id ranges of identity.rs and permanent.rs. *)
PermanentBase == 100
EphemeralBase == 200
PermanentId(i) == PermanentBase + i
PoolSession(i) == PermanentBase + 50 + i
EphemeralId(s) == EphemeralBase + s

PoolIndices == 0 .. MaxPool - 1
PoolSessions == {PoolSession(i) : i \in PoolIndices}
PermanentIds == {PermanentId(i) : i \in PoolIndices}
Sessions == HostSessions \cup PoolSessions
Ids == Displays \cup PermanentIds \cup {EphemeralId(s) : s \in Sessions}
Connectors == 0 .. MaxMonitors - 1
Callers == {"ioctl", "watchdog"}

ASSUME IdsAssumption ==
  /\ HostSessions \subseteq (1 .. PermanentBase - 1) \cup PoolSessions
  /\ Displays \subseteq 1 .. PermanentBase - 1
ASSUME LimitsAssumption ==
  /\ MaxMonitors \in Nat \ {0} /\ MaxPool \in 0 .. 49
  /\ Serial \in BOOLEAN /\ AdapterLoss \in BOOLEAN
  /\ MaxAge \in Nat /\ MaxEpoch \in Nat /\ MaxQueue \in Nat

VARIABLES
  \* DeviceState, behind its lock
  monitors,  \* SessionTable.monitors
  reserved,  \* ConnectorTable: display, connector, age of last use
  nextAge,   \* next_age
  pool,      \* the pool in force: count and settings
  adapters,  \* a render adapter was enumerated
  growth,    \* {} or the apply_pool under way; its caller holds the lock
  \* effects
  held,      \* decided by a caller and not yet queued
  queue,     \* the effects worker's FIFO
  wpc,       \* what the worker is in: a plug, a bring-up, or neither
  made,      \* adapter epoch of the monitor object being plugged
  bringUp,   \* effects of the startup being published
  \* the shell
  adapter,   \* the adapter handle is published
  epoch,     \* adapter epoch
  device,    \* the WDF device is set
  pnp,       \* device life cycle
  mark,      \* StartMark.epoch
  plugged,   \* the monitors map
  \* the registry
  disk,
  \* history
  unplugged, \* sessions whose plug was dropped or failed
  asked      \* pools that SET_PERMANENT_POOL has put in force

tableVars  == <<monitors, reserved, nextAge>>
deviceVars == <<tableVars, pool, adapters, growth>>
workerVars == <<wpc, made, bringUp>>
shellVars  == <<adapter, epoch, device, pnp, mark>>
vars == <<deviceVars, held, queue, workerVars, shellVars, plugged, disk,
          unplugged, asked>>

NoSettings == "none"
NoPool == [count |-> 0, settings |-> NoSettings]
Pools == [count : 0 .. MaxPool, settings : Settings \cup {NoSettings}]
Monitors == [session : Sessions, display : Ids, ephemeral : BOOLEAN,
             connector : Connectors, leased : BOOLEAN, stale : BOOLEAN]
Reservations == [display : Ids, connector : Connectors, age : Nat]
Blobs == [reserved : SUBSET [display : Ids, connector : Connectors], pool : Pools]
PlugEffects == [kind : {"plug"}, session : Sessions, connector : Connectors]
UnplugEffects == [kind : {"unplug"}, sessions : SUBSET Sessions]
PersistEffects == [kind : {"persist"}, blob : Blobs]
ReadyTasks == [kind : {"ready"}, epoch : Nat]
Effects == PlugEffects \cup UnplugEffects \cup PersistEffects
Growths == [by : Callers \cup {"worker"}, desired : Pools, next : Nat,
            created : Nat, effects : Seq(Effects)]

DeviceTypes ==
  /\ monitors \subseteq Monitors
  /\ reserved \subseteq Reservations /\ nextAge \in Nat
  /\ pool \in Pools /\ asked \subseteq Pools /\ adapters \in BOOLEAN
  /\ growth \subseteq Growths
EffectTypes ==
  /\ held \in [Callers -> Seq(Effects)]
  /\ queue \in Seq(Effects \cup ReadyTasks)
  /\ wpc \in {"idle", "plug", "startup", "publish"}
  /\ made \in Nat /\ bringUp \in Seq(Effects)
ShellTypes ==
  /\ adapter \in BOOLEAN /\ epoch \in Nat /\ device \in BOOLEAN /\ mark \in Nat
  /\ pnp \in {"absent", "starting", "up", "cleared", "drained"}
  /\ plugged \subseteq [session : Sessions, connector : Connectors, epoch : Nat]
  /\ disk \in Blobs /\ unplugged \subseteq Sessions
TypeOK == DeviceTypes /\ EffectTypes /\ ShellTypes

-----------------------------------------------------------------------------
(* ConnectorTable *)

IsLowest(c, set) == c \in set /\ \A e \in set : c <= e

FreeOfLive == Connectors \ {m.connector : m \in monitors}
Free == Connectors \ {r.connector : r \in reserved}
AnyEvictable == reserved
Throwaways == {r \in reserved : r.display >= EphemeralBase}
Evictable == {r \in reserved : \A m \in monitors : m.display # r.display}
Entry(d, c) == [display |-> d, connector |-> c, age |-> nextAge]

(* acquire: reuse the reservation, else the lowest free connector, else evict
   the least recently used reservation no live monitor has. *)
Acquire(d, c) ==
  /\ nextAge' = nextAge + 1
  /\ \/ \E r \in reserved :
          /\ r.display = d /\ c = r.connector
          /\ reserved' = (reserved \ {r}) \cup {Entry(d, c)}
     \/ /\ \A r \in reserved : r.display # d
        /\ IsLowest(c, Free)
        /\ reserved' = reserved \cup {Entry(d, c)}
     \/ /\ \A r \in reserved : r.display # d
        /\ Free = {}
        /\ \E v \in Evictable :
             /\ c = v.connector /\ \A w \in Evictable : v.age <= w.age
             /\ reserved' = (reserved \ {v}) \cup {Entry(d, c)}

(* release, for the ephemeral monitors among those that leave *)
Released(gone) ==
  {r \in reserved : \A m \in gone : m.ephemeral => m.display # r.display}

(* restore: entries in the order of their display ids, the first one of a
   connector wins. *)
Valid(entries) ==
  {e \in entries : /\ e.connector \in Connectors
                   /\ \A f \in entries : f.connector = e.connector => e.display <= f.display}
Restored(entries) ==
  {[display |-> e.display, connector |-> e.connector,
    age |-> Cardinality({f \in Valid(entries) : f.display < e.display})] :
     e \in Valid(entries)}

-----------------------------------------------------------------------------
(* SessionTable *)

Live == {m.session : m \in monitors}
Unlocked == growth = {}

(* create_trusted, without the checks of modes and adapter names *)
CanCreate(s, d) ==
  /\ s \notin Live
  /\ Cardinality(monitors) < MaxMonitors
  /\ \A m \in monitors : m.display # d
  /\ adapters
Create(s, d, leased, c) ==
  /\ Acquire(d, c)
  /\ monitors' = monitors \cup
       {[session |-> s, display |-> d, ephemeral |-> d >= EphemeralBase,
         connector |-> c, leased |-> leased, stale |-> FALSE]}

(* destroy, destroy_all and the sweep of tick *)
Remove(gone) ==
  /\ monitors' = monitors \ gone
  /\ reserved' = Released(gone)

-----------------------------------------------------------------------------
(* Effects *)

Plug(s, c) == [kind |-> "plug", session |-> s, connector |-> c]
ForgottenUnplug(set) == [kind |-> "unplug", sessions |-> {}]
Unplug(set) == [kind |-> "unplug", sessions |-> set]
Snapshot(res, p) ==
  [reserved |-> {[display |-> r.display, connector |-> r.connector] : r \in res},
   pool |-> IF p.count > 0 THEN p ELSE NoPool]
Persist(res, p) == [kind |-> "persist", blob |-> Snapshot(res, p)]

Settled == \A c \in Callers : held[c] = << >>
(* A handler of caller c may run: the adapter is up and the lock is free. *)
MayDispatch(c) ==
  /\ adapter /\ Unlocked /\ held[c] = << >>
  /\ Serial => Settled
  /\ Len(queue) <= MaxQueue
Decide(c, effects) == held' = [held EXCEPT ![c] = effects]

Init ==
  /\ monitors = {} /\ reserved = {} /\ nextAge = 0 /\ pool = NoPool
  /\ adapters = FALSE /\ growth = {}
  /\ held = [c \in Callers |-> << >>] /\ queue = << >>
  /\ wpc = "idle" /\ made = 0 /\ bringUp = << >>
  /\ adapter = FALSE /\ epoch = 0 /\ device = FALSE /\ pnp = "absent" /\ mark = 0
  /\ plugged = {} /\ disk = [reserved |-> {}, pool |-> NoPool]
  /\ unplugged = {} /\ asked = {}

-----------------------------------------------------------------------------
(* Handlers.  Each runs under the device lock; QueueEffects follows, without
   it. *)

(* CREATE_MONITOR; an identity the host does not want kept is derived from the
   session. *)
HostCreate(c, s, d, leased) ==
  /\ MayDispatch(c) /\ CanCreate(s, d)
  /\ nextAge < MaxAge
  /\ \E conn \in Connectors :
       /\ Create(s, d, leased, conn)
       /\ Decide(c, << Plug(s, conn), Persist(reserved', pool) >>)
  /\ UNCHANGED <<pool, adapters, growth, queue, workerVars, shellVars, plugged,
                 disk, unplugged, asked>>

(* DESTROY_MONITOR *)
HostDestroy(c, s) ==
  /\ MayDispatch(c) /\ s \in Live
  /\ Remove({m \in monitors : m.session = s})
  /\ Decide(c, << Unplug({s}), Persist(reserved', pool) >>)
  /\ UNCHANGED <<nextAge, pool, adapters, growth, queue, workerVars, shellVars,
                 plugged, disk, unplugged, asked>>

(* PING, the only request here that is not gated on the adapter *)
Ping(s) ==
  /\ Unlocked /\ s \in Live
  /\ monitors' = {IF m.session = s THEN [m EXCEPT !.stale = FALSE] ELSE m : m \in monitors}
  /\ UNCHANGED <<reserved, nextAge, pool, adapters, growth, held, queue,
                 workerVars, shellVars, plugged, disk, unplugged, asked>>

(* More than the lease has passed since the last ping. *)
LeaseRunsOut(m) ==
  /\ m.leased
  /\ monitors' = (monitors \ {m}) \cup {[m EXCEPT !.stale = TRUE]}
  /\ UNCHANGED <<reserved, nextAge, pool, adapters, growth, held, queue,
                 workerVars, shellVars, plugged, disk, unplugged, asked>>

(* watchdog_tick *)
ExpiredThrowaways == {m \in monitors : m.stale /\ m.ephemeral}
Expired == {m \in monitors : m.stale}
WatchdogTick ==
  /\ MayDispatch("watchdog") /\ Expired # {}
  /\ Remove(Expired)
  /\ Decide("watchdog",
       << Unplug({m.session : m \in Expired}), Persist(reserved', pool) >>)
  /\ UNCHANGED <<nextAge, pool, adapters, growth, queue, workerVars, shellVars,
                 plugged, disk, unplugged, asked>>

QueueFirst(c) ==
  /\ held[c] # << >>
  /\ queue' = IF wpc = "idle" THEN held[c] \o queue
              ELSE << Head(queue) >> \o held[c] \o Tail(queue)
  /\ held' = [held EXCEPT ![c] = << >>]
  /\ UNCHANGED <<deviceVars, workerVars, shellVars, plugged, disk, unplugged,
                 asked>>
QueueEffects(c) ==
  /\ held[c] # << >>
  /\ queue' = queue \o held[c]
  /\ held' = [held EXCEPT ![c] = << >>]
  /\ UNCHANGED <<deviceVars, workerVars, shellVars, plugged, disk, unplugged,
                 asked>>

-----------------------------------------------------------------------------
(* The permanent pool *)

(* reconcile: the members to destroy, and the first one to create *)
ToDestroy(desired) ==
  {i \in 0 .. pool.count - 1 :
     pool.settings # desired.settings \/ desired.count <= i}
FirstNew(desired) == IF pool.settings # desired.settings THEN 0 ELSE pool.count

(* SET_PERMANENT_POOL: the first part of apply_pool *)
SetPool(c, desired) ==
  LET gone == {m \in monitors :
                 \E i \in ToDestroy(desired) : m.session = PoolSession(i)}
  IN
  /\ MayDispatch(c) /\ desired.count <= MaxMonitors
  /\ nextAge < MaxAge
  /\ Remove(gone)
  /\ growth' = {[by |-> c, desired |-> desired, next |-> FirstNew(desired),
                 created |-> IF FirstNew(desired) >= desired.count THEN desired.count ELSE 0,
                 effects |-> IF gone = {} THEN << >>
                             ELSE << Unplug({m.session : m \in gone}) >>]}
  /\ UNCHANGED <<nextAge, pool, adapters, held, queue, workerVars, shellVars,
                 plugged, disk, unplugged, asked>>

(* apply_pool's loop: a member is created, or the first failure ends it. *)
GrowPool ==
  \E g \in growth :
    /\ g.next < g.desired.count
    /\ LET s == PoolSession(g.next)
           d == PermanentId(g.next)
       IN \/ /\ CanCreate(s, d)
             /\ \E conn \in Connectors :
                  /\ Create(s, d, FALSE, conn)
                  /\ growth' = {[g EXCEPT !.next = @ + 1, !.created = g.next + 1,
                                          !.effects = Append(@, Plug(s, conn))]}
          \/ /\ ~CanCreate(s, d)
             /\ growth' = {[g EXCEPT !.next = g.desired.count]}
             /\ UNCHANGED tableVars
    /\ UNCHANGED <<pool, adapters, held, queue, workerVars, shellVars, plugged,
                   disk, unplugged, asked>>

(* The end of apply_pool.  The handler persists the outcome, startup does
   not. *)
FullPool(g) == g.desired
OneTooMany(g) == [g.desired EXCEPT !.count = g.created + 1]
GrownPool(g) ==
  [g.desired EXCEPT !.count = IF g.created < @ THEN g.created ELSE @]
FinishPool ==
  \E g \in growth :
    /\ g.next >= g.desired.count
    /\ pool' = GrownPool(g)
    /\ growth' = {}
    /\ \/ /\ g.by # "worker"
          /\ Decide(g.by, Append(g.effects, Persist(reserved, pool')))
          /\ asked' = asked \cup {Snapshot({}, pool').pool}
          /\ UNCHANGED <<wpc, bringUp>>
       \/ /\ g.by = "worker"
          /\ bringUp' = g.effects /\ wpc' = "publish"
          /\ UNCHANGED <<held, asked>>
    /\ UNCHANGED <<tableVars, adapters, queue, made, shellVars, plugged, disk,
                   unplugged>>

-----------------------------------------------------------------------------
(* The effects worker *)

AtHead(kind) == queue # << >> /\ Head(queue).kind = kind

(* monitors::plug before the adapter is up, or after it is gone: dropped *)
DropPlug ==
  /\ wpc = "idle" /\ AtHead("plug") /\ ~adapter
  /\ queue' = Tail(queue)
  /\ unplugged' = unplugged \cup {Head(queue).session}
  /\ UNCHANGED <<deviceVars, held, workerVars, shellVars, plugged, disk, asked>>

(* plug reads the adapter and creates the monitor object ... *)
BlindPlug   == TRUE
PlugAllowed == adapter
StartPlug ==
  /\ wpc = "idle" /\ AtHead("plug") /\ PlugAllowed
  /\ wpc' = "plug" /\ made' = epoch
  /\ UNCHANGED <<deviceVars, held, queue, bringUp, shellVars, plugged, disk,
                 unplugged, asked>>

(* ... and enters it into the map, displacing a leaked entry.  The creation or
   the arrival may fail: the session stays, without a monitor. *)
Others(s) == {p \in plugged : p.session # s}
EndPlug ==
  LET e == Head(queue) IN
  /\ wpc = "plug"
  /\ \/ /\ plugged' = Others(e.session) \cup
             {[session |-> e.session, connector |-> e.connector, epoch |-> made]}
        /\ unplugged' = unplugged \ {e.session}
     \/ /\ plugged' \in {plugged, Others(e.session)}
        /\ unplugged' = unplugged \cup {e.session}
  /\ wpc' = "idle" /\ made' = 0 /\ queue' = Tail(queue)
  /\ UNCHANGED <<deviceVars, held, bringUp, shellVars, disk, asked>>

(* monitors::unplug *)
ApplyUnplug ==
  /\ wpc = "idle" /\ AtHead("unplug")
  /\ plugged' = {p \in plugged : p.session \notin Head(queue).sessions}
  /\ queue' = Tail(queue)
  /\ UNCHANGED <<deviceVars, held, workerVars, shellVars, disk, unplugged, asked>>

(* write_persisted: skipped without a device, and it may fail *)
ApplyPersist ==
  /\ wpc = "idle" /\ AtHead("persist")
  /\ disk' \in {disk} \cup (IF device THEN {Head(queue).blob} ELSE {})
  /\ queue' = Tail(queue)
  /\ UNCHANGED <<deviceVars, held, workerVars, shellVars, plugged, unplugged, asked>>

(* run_adapter_ready: a task of an earlier epoch does nothing. *)
StaleReady ==
  /\ wpc = "idle" /\ AtHead("ready") /\ Head(queue).epoch # epoch
  /\ queue' = Tail(queue)
  /\ UNCHANGED <<deviceVars, held, workerVars, shellVars, plugged, disk,
                 unplugged, asked>>

(* The DXGI walk, set_adapters and the start of startup. *)
Startup ==
  /\ wpc = "idle" /\ AtHead("ready") /\ Head(queue).epoch = epoch
  /\ Unlocked
  /\ adapters' \in {TRUE} \cup (IF AdapterLoss THEN {FALSE} ELSE {})
  /\ \/ /\ pool.count > 0
        /\ growth' = {[by |-> "worker", desired |-> pool, next |-> 0,
                       created |-> 0, effects |-> << >>]}
        /\ pool' = [pool EXCEPT !.count = 0]
        /\ wpc' = "startup"
     \/ /\ pool.count = 0
        /\ wpc' = "publish"
        /\ UNCHANGED <<growth, pool>>
  /\ UNCHANGED <<tableVars, held, queue, made, bringUp, shellVars, plugged, disk,
                 unplugged, asked>>

(* set_adapter_if_epoch: published, and the startup's effects applied next, or
   stale, and the table mutations undone. *)
Publish ==
  /\ wpc = "publish"
  /\ \/ /\ Head(queue).epoch = epoch
        /\ adapter' = TRUE
        /\ queue' = bringUp \o Tail(queue)
        /\ UNCHANGED tableVars
     \/ /\ Head(queue).epoch # epoch
        /\ Unlocked
        /\ Remove(monitors)
        /\ queue' = Tail(queue)
        /\ UNCHANGED <<adapter, nextAge>>
  /\ wpc' = "idle" /\ bringUp' = << >>
  /\ UNCHANGED <<pool, adapters, growth, held, made, epoch, device, pnp, mark,
                 plugged, disk, unplugged, asked>>

-----------------------------------------------------------------------------
(* The device *)

(* Device add and D0 entry: the shell keeps the state of an earlier device of
   the same process; the mark captures the epoch. *)
DeviceAdd ==
  /\ pnp = "absent"
  /\ pnp' = "starting" /\ device' = TRUE /\ mark' = epoch
  /\ UNCHANGED <<deviceVars, held, queue, workerVars, adapter, epoch, plugged,
                 disk, unplugged, asked>>

(* EvtIddCxAdapterInitFinished *)
AdapterInitFinished ==
  /\ pnp = "starting"
  /\ pnp' = "up"
  /\ queue' = Append(queue, [kind |-> "ready", epoch |-> mark])
  /\ UNCHANGED <<deviceVars, held, workerVars, adapter, epoch, device, mark,
                 plugged, disk, unplugged, asked>>

(* D3Final: the adapter and the device are cleared first ... *)
FinalExit ==
  /\ pnp \in {"starting", "up"} /\ epoch < MaxEpoch
  /\ Serial => Settled /\ \A g \in growth : g.by = "worker"
  /\ pnp' = "cleared" /\ adapter' = FALSE /\ epoch' = epoch + 1 /\ device' = FALSE
  /\ UNCHANGED <<deviceVars, held, queue, workerVars, mark, plugged, disk,
                 unplugged, asked>>

(* ... then the monitors map is drained ... *)
DrainMonitors ==
  /\ pnp = "cleared"
  /\ pnp' = "drained" /\ plugged' = {}
  /\ UNCHANGED <<deviceVars, held, queue, workerVars, adapter, epoch, device,
                 mark, disk, unplugged, asked>>

(* ... and device_teardown_reset empties the table; the desired pool stays. *)
NoPoolLeft == NoPool
PoolLeft == pool
TeardownReset ==
  /\ pnp = "drained" /\ Unlocked
  /\ pnp' = "absent"
  /\ Remove(monitors) /\ pool' = PoolLeft
  /\ UNCHANGED <<nextAge, adapters, growth, held, queue, workerVars,
                 adapter, epoch, device, mark, plugged, disk, unplugged, asked>>

(* The driver's process ends, at any time; the next one reads the registry. *)
Restart ==
  /\ monitors' = {} /\ reserved' = Restored(disk.reserved)
  /\ nextAge' = Cardinality(Valid(disk.reserved)) /\ pool' = disk.pool
  /\ adapters' = FALSE /\ growth' = {}
  /\ held' = [c \in Callers |-> << >>] /\ queue' = << >>
  /\ wpc' = "idle" /\ made' = 0 /\ bringUp' = << >>
  /\ adapter' = FALSE /\ epoch' = 0 /\ device' = FALSE /\ pnp' = "absent" /\ mark' = 0
  /\ plugged' = {} /\ unplugged' = {}
  /\ UNCHANGED <<disk, asked>>

-----------------------------------------------------------------------------
Worker ==
  \/ DropPlug \/ StartPlug \/ EndPlug \/ ApplyUnplug \/ ApplyPersist
  \/ StaleReady \/ Startup \/ Publish

HostRequest(c) ==
  \/ \E s \in HostSessions, leased \in BOOLEAN :
       \E d \in Displays \cup {EphemeralId(s)} : HostCreate(c, s, d, leased)
  \/ \E s \in HostSessions : HostDestroy(c, s)
  \/ \E desired \in [count : 0 .. MaxPool, settings : Settings] : SetPool(c, desired)

Device == DeviceAdd \/ AdapterInitFinished \/ FinalExit \/ DrainMonitors \/ TeardownReset

Next ==
  \/ HostRequest("ioctl") \/ \E s \in HostSessions : Ping(s)
  \/ \E m \in monitors : LeaseRunsOut(m)
  \/ WatchdogTick
  \/ \E c \in Callers : QueueEffects(c)
  \/ GrowPool \/ FinishPool
  \/ Worker \/ Device \/ Restart

Spec == Init /\ [][Next]_vars

(* Threads run; the watchdog's timer waits for the lock and gets it. *)
FairSpec ==
  /\ Spec
  /\ \A c \in Callers : WF_vars(QueueEffects(c))
  /\ WF_vars(GrowPool) /\ WF_vars(FinishPool)
  /\ WF_vars(Worker) /\ SF_vars(WatchdogTick)

-----------------------------------------------------------------------------
(* Properties *)

(* Every live monitor still holds the reservation of its identity, on the
   connector it was plugged with, and no two identities share a connector:
   eviction, release, restore and restart never take it away. *)
LiveKeepsConnector ==
  /\ \A r, q \in reserved : r.connector = q.connector \/ r.display = q.display => r = q
  /\ \A m \in monitors :
       \E r \in reserved : r.display = m.display /\ r.connector = m.connector

(* Below the monitor cap a connector can always be had, however many
   identities the table remembers. *)
RoomBelowCap ==
  Cardinality(monitors) < MaxMonitors => Free # {} \/ Evictable # {}

Quiet == Settled /\ queue = << >> /\ wpc = "idle" /\ Unlocked
(* Monitors of the adapter in force; the OS destroyed the others with theirs. *)
Arrived == {p \in plugged : p.epoch = epoch}

(* Two arrived monitors never sit on one connector, although a session's
   connector is given away while its unplug is still queued. *)
OneMonitorPerConnector ==
  \A p, q \in Arrived : p.connector = q.connector => p = q

(* Once the worker has caught up, the OS shows exactly the sessions of the
   table, on their connectors, but for those whose plug failed: no phantom
   display, no session silently without one. *)
ShellFollowsTable ==
  Quiet /\ adapter =>
    {<<p.session, p.connector>> : p \in Arrived} =
      {<<m.session, m.connector>> : m \in {n \in monitors : n.session \notin unplugged}}

(* The pool members QUERY_PERMANENT_POOL counts exist. *)
PoolIsTruthful ==
  adapter /\ Unlocked => \A i \in 0 .. pool.count - 1 : PoolSession(i) \in Live

(* The pool in the registry is one the host has put in force: no other request,
   exit or startup shrinks or erases it. *)
PoolIsKept == [][disk'.pool # disk.pool => disk'.pool \in asked]_disk

(* A restart brings back every reservation the registry holds. *)
RestartKeepsIdentities ==
  [][Restart => Snapshot(reserved', NoPool).reserved = disk.reserved]_vars

(* A monitor whose owner stopped pinging is reaped while the adapter is up. *)
AbandonedIsReaped ==
  \A s \in HostSessions :
    (\E m \in monitors : m.session = s /\ m.stale) /\ adapter
      ~> ~(\E m \in monitors : m.session = s /\ m.stale) \/ ~adapter

(* A monitor whose session has left the table leaves the OS. *)
GoneDeparts ==
  \A s \in Sessions :
    (\E p \in Arrived : p.session = s) /\ s \notin Live
      ~> ~(\E p \in Arrived : p.session = s) \/ s \in Live

(* "0 disbands the pool" (luminal-driver-proto, PermanentPoolConfig.count). *)
ZeroIsDisbanded ==
  Unlocked /\ pool.count = 0 => Live \cap PoolSessions = {}
=============================================================================
