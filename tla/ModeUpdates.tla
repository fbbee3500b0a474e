----------------------------- MODULE ModeUpdates -----------------------------
(***************************************************************************)
(* The mode list of one session's monitor: requested by the host, pushed   *)
(* at the OS by the effects worker, recorded in the session table only     *)
(* when the push took.  The same list lives in three places: in the table  *)
(* (mon), in the runtime of the arrived monitor (rt) and, while a duck-out *)
(* has the monitor departed, in its parked copy (parked).  Around the push *)
(* run the OS, which commits modes; the duck-out; and the final exit of    *)
(* the device, which takes the monitor away under the worker.              *)
(*                                                                         *)
(* A handler queues its effect in the step that decides it; ControlPlane   *)
(* looks at what happens when it does not.  LateEffects says whether the   *)
(* worker may still be at effects of a device that is gone, or a duck-out  *)
(* of it go on, when the next comes up: no plug or update names a device.  *)
(* A token is a flag that is lowered when the generation it stands for     *)
(* moves on: CommittedPaths has the counter and the record behind it.      *)
(***************************************************************************)
EXTENDS Naturals, Sequences, FiniteSets, Functions

CONSTANTS
  Modes,      \* modes a host may ask for and the OS may commit
  Supersets,  \* the lists monitors are created with
  Objects,    \* handles of IddCx monitor objects; a dead one may be reissued
  None,
  LateEffects, \* whether effects and duck-outs of one device may outlive it
  MaxModes,   \* MAX_MODES_PER_MONITOR
  MaxSeq,     \* bound: updates the table issues
  MaxQueue,   \* bound: a handler starts only below this many queued effects
  MaxEpoch,   \* bound: final exits
  MaxDucks    \* bound: duck-outs

Lists == {l \in UNION {[1 .. n -> Modes] : n \in 1 .. MaxModes} : IsInjective(l)}

(* What is remembered of a session, its updates and its monitors.          *)
PlugLists == [superset : Lists, targets : Lists]
RuntimeType == [obj : Objects, superset : Lists, targets : Lists]
PendingType == [seq : Nat, targets : Lists]
BlockedType == [targets : Lists, mode : Modes, current : BOOLEAN]
SessionType ==
  [superset : Lists, targets : Lists, pending : PendingType \cup {None},
   blocked : BlockedType \cup {None}, settled : Nat]
OutcomeType ==
  [result : {"applied", "not applied"}] \cup [result : {"blocked"}, mode : Modes]
EffectType ==
  [op : {"plug"}, superset : Lists, targets : Lists] \cup [op : {"unplug"}]
    \cup [op : {"update"}, seq : Nat, targets : Lists] \cup [op : {"duck", "replug"}, epoch : Nat]

ASSUME SupersetsAssumption == Supersets \subseteq Lists
ASSUME NoneAssumption ==
  /\ None \notin Modes /\ None \notin Objects /\ None \notin Nat /\ None \notin Lists
  /\ None \notin SessionType \cup PendingType \cup BlockedType
  /\ None \notin RuntimeType \cup PlugLists \cup OutcomeType
ASSUME BoundsAssumption ==
  /\ LateEffects \in BOOLEAN
  /\ MaxModes \in Nat /\ MaxSeq \in Nat /\ MaxQueue \in Nat /\ MaxEpoch \in Nat /\ MaxDucks \in Nat

VARIABLES
  \* the device lock: the session table
  mon,        \* the session: superset, targets, pending, blocked, settled
  updateSeq,
  \* the effects worker
  queue,      \* effects, the one it works on at the head
  wpc,        \* where in that effect it is
  obj,        \* local: the monitor object it acts on
  lists,      \* local: the lists a monitor is created with, or to be restored
  seenEpoch,  \* local: the epoch read with the adapter
  fresh,      \* local: the token read with the committed mode still holds
  outcome,    \* local: what the push did
  inflight,   \* PUSHES_IN_FLIGHT
  \* the shell
  rt,         \* the arrived monitor: object, superset, targets
  parked,     \* the departed one: superset, targets
  committed,  \* COMMITTED: the mode recorded for each object
  latch,      \* tdr_duck_pending
  poller,     \* the epoch its recovery poller runs under
  ducks,
  \* the device
  adapter, epoch,
  pnp,        \* how far the final exit is
  timedOut,   \* it stopped waiting for a push
  alive       \* objects the OS has not destroyed

table == <<mon, updateSeq>>
locals == <<obj, lists, seenEpoch, fresh, outcome>>
worker == <<queue, wpc, locals, inflight>>
monitors == <<rt, parked, committed>>
duck == <<latch, poller, ducks>>
device == <<adapter, epoch, pnp, timedOut, alive>>
vars == <<table, worker, monitors, duck, device>>

-----------------------------------------------------------------------------
(* Modes: what a request resolves to, and what the OS prefers of it.       *)
Select(superset, request) == SelectSeq(request, LAMBDA m : m \in Range(superset))

Zero(superset, targets) == 1  \* bug: the EDID's preferred mode, offered or not
Preferred(superset, targets) ==
  LET offered == {i \in DOMAIN superset : superset[i] \in Range(targets)}
  IN IF offered = {} THEN 1 ELSE CHOOSE i \in offered : \A j \in offered : i <= j

Arrived == rt # None /\ rt.obj \in alive

(* Effects and tasks.                                                      *)
Plug(superset, targets) == [op |-> "plug", superset |-> superset, targets |-> targets]
Unplug == [op |-> "unplug"]
Update(seq, targets) == [op |-> "update", seq |-> seq, targets |-> targets]
Duck(e) == [op |-> "duck", epoch |-> e]
Replug(e) == [op |-> "replug", epoch |-> e]

Init ==
  /\ mon = None /\ updateSeq = 0
  /\ queue = <<>> /\ wpc = "idle"
  /\ obj = None /\ lists = None /\ seenEpoch = None /\ fresh = FALSE /\ outcome = None
  /\ inflight = FALSE
  /\ rt = None /\ parked = None /\ committed = [o \in Objects |-> None]
  /\ latch = FALSE /\ poller = None /\ ducks = 0
  /\ adapter = TRUE /\ epoch = 0 /\ pnp = "up" /\ timedOut = FALSE /\ alive = {}

(* The generation moves on: no token read before is current.               *)
Expire ==
  /\ mon' = IF mon # None /\ mon.blocked # None
            THEN [mon EXCEPT !.blocked.current = FALSE] ELSE mon
  /\ fresh' = FALSE

Forget(o) == committed' = [committed EXCEPT ![o] = None] /\ Expire

-----------------------------------------------------------------------------
(* The host, through the control device.                                   *)

MayDispatch == adapter /\ Len(queue) < MaxQueue

FromZero(superset) ==  \* bug: the high-water mark starts at zero
  [superset |-> superset, targets |-> superset, pending |-> None, blocked |-> None,
   settled |-> 0]
Created(superset) ==
  [superset |-> superset, targets |-> superset, pending |-> None, blocked |-> None,
   settled |-> updateSeq]

HostCreate(superset) ==
  /\ MayDispatch /\ mon = None
  /\ mon' = Created(superset)
  /\ queue' = Append(queue, Plug(superset, superset))
  /\ UNCHANGED <<updateSeq, wpc, locals, inflight, monitors, duck, device>>

(* DESTROY_MONITOR, or the watchdog's reap of an abandoned lease.          *)
HostDestroy ==
  /\ MayDispatch /\ mon # None
  /\ mon' = None
  /\ queue' = Append(queue, Unplug)
  /\ UNCHANGED <<updateSeq, wpc, locals, inflight, monitors, duck, device>>

TargetBase == IF mon.pending # None THEN mon.pending.targets ELSE mon.targets
Kept == mon.blocked  \* bug: a remembered refusal outlives its evidence
Remembered == IF mon.blocked # None /\ mon.blocked.current THEN mon.blocked ELSE None

(* Refused, answered from a remembered refusal, or nothing to do.  What is *)
(* selected of a list is a list again, unless nothing is left of it.       *)
Answered(targets) ==
  \/ targets \notin Lists
  \/ Remembered # None /\ Remembered.targets = targets
  \/ targets = TargetBase

HostUpdate(request) ==
  /\ MayDispatch /\ mon # None /\ updateSeq < MaxSeq
  /\ LET targets == Select(mon.superset, request) IN
     IF Answered(targets)
     THEN /\ mon' = [mon EXCEPT !.blocked = Remembered]
          /\ UNCHANGED <<updateSeq, queue>>
     ELSE /\ updateSeq' = updateSeq + 1
          /\ mon' = [mon EXCEPT !.blocked = None,
                                !.pending = [seq |-> updateSeq + 1, targets |-> targets]]
          /\ queue' = Append(queue, Update(updateSeq + 1, targets))
  /\ UNCHANGED <<wpc, locals, inflight, monitors, duck, device>>

-----------------------------------------------------------------------------
(* The effects worker.                                                     *)

AtHead(op) == wpc = "idle" /\ queue # <<>> /\ Head(queue).op = op
Task == Head(queue)
Done ==
  /\ queue' = Tail(queue) /\ wpc' = "idle"
  /\ obj' = None /\ lists' = None /\ seenEpoch' = None /\ outcome' = None

(* plug: a parked copy goes first.  replug_ducked takes the parked copy.   *)
StartPlug ==
  /\ AtHead("plug")
  /\ IF adapter
     THEN /\ wpc' = "create" /\ parked' = None
          /\ lists' = [superset |-> Task.superset, targets |-> Task.targets]
          /\ UNCHANGED <<queue, obj, seenEpoch, outcome>>
     ELSE Done /\ UNCHANGED parked
  /\ UNCHANGED <<table, fresh, inflight, rt, committed, duck, device>>

StartReplug ==
  /\ AtHead("replug")
  /\ parked' = None
  /\ IF Task.epoch = epoch /\ adapter /\ parked # None
     THEN /\ wpc' = "create" /\ lists' = parked
          /\ UNCHANGED <<queue, obj, seenEpoch, outcome, latch>>
     ELSE Done /\ latch' = FALSE
  /\ UNCHANGED <<table, fresh, inflight, rt, committed, poller, ducks, device>>

LatchOver == latch' = IF Task.op = "replug" THEN FALSE ELSE latch

CreateFails ==
  /\ wpc = "create"
  /\ Done /\ LatchOver
  /\ UNCHANGED <<table, fresh, inflight, monitors, poller, ducks, device>>

(* The monitor is entered in the map, over an entry that a plug racing a   *)
(* final exit left behind, and arrives.                                    *)
Arrive(o) ==
  /\ wpc = "create" /\ o \notin alive /\ pnp # "gone"
  /\ rt' = [obj |-> o, superset |-> lists.superset, targets |-> lists.targets]
  /\ alive' = alive \cup {o}
  /\ IF rt # None THEN Forget(rt.obj) ELSE UNCHANGED <<committed, mon, fresh>>
  /\ Done /\ LatchOver
  /\ UNCHANGED <<updateSeq, inflight, parked, poller, ducks, adapter, epoch, pnp, timedOut>>

ArrivalFails(o) ==
  /\ wpc = "create" /\ o \notin alive /\ pnp # "gone"
  /\ rt' = None
  /\ IF rt # None THEN Forget(rt.obj) ELSE UNCHANGED <<committed, mon, fresh>>
  /\ Done /\ LatchOver
  /\ UNCHANGED <<updateSeq, inflight, parked, poller, ducks, device>>

(* unplug: the record is forgotten before the departure.                   *)
StartUnplug ==
  /\ AtHead("unplug")
  /\ IF parked # None \/ rt = None
     THEN /\ parked' = None /\ Done
          /\ UNCHANGED <<mon, fresh, committed>>
     ELSE /\ wpc' = "depart" /\ obj' = rt.obj
          /\ Forget(rt.obj)
          /\ UNCHANGED <<queue, lists, seenEpoch, outcome, parked>>
  /\ UNCHANGED <<updateSeq, inflight, rt, duck, device>>

Depart ==
  /\ wpc = "depart"
  /\ alive' = alive \ {obj}
  /\ rt' = None
  /\ Done
  /\ UNCHANGED <<table, fresh, inflight, parked, committed, duck, adapter, epoch, pnp, timedOut>>

-----------------------------------------------------------------------------
(* update_modes: push_targets, then settle_modes.                          *)

Settling(result) == wpc' = "settle" /\ outcome' = result
NotApplied == [result |-> "not applied"]
Applied == [result |-> "applied"]
Blocked(m) == [result |-> "blocked", mode |-> m]

Fits(targets, superset) == Range(targets) \subseteq Range(superset)

(* A parked monitor's copy is patched; a duck-out in flight defers; the    *)
(* mark comes before the look at the adapter.                              *)
StartPush ==
  /\ AtHead("update")
  /\ IF parked # None
     THEN /\ IF Fits(Task.targets, parked.superset)
             THEN parked' = [parked EXCEPT !.targets = Task.targets] /\ Settling(Applied)
             ELSE Settling(NotApplied) /\ UNCHANGED parked
          /\ UNCHANGED inflight
     ELSE /\ IF latch THEN Settling(NotApplied) /\ UNCHANGED inflight
                      ELSE wpc' = "adapter" /\ inflight' = TRUE /\ UNCHANGED outcome
          /\ UNCHANGED parked
  /\ UNCHANGED <<table, queue, obj, lists, seenEpoch, fresh, rt, committed, duck, device>>

ReadAdapter ==
  /\ wpc = "adapter"
  /\ IF adapter
     THEN wpc' = "publish" /\ seenEpoch' = epoch /\ UNCHANGED <<inflight, outcome>>
     ELSE Settling(NotApplied) /\ inflight' = FALSE /\ UNCHANGED seenEpoch
  /\ UNCHANGED <<table, queue, obj, lists, fresh, monitors, duck, device>>

(* live_gate: the committed mode, where the superset has it, stays.        *)
Evicts(o, superset, targets) ==
  /\ committed[o] \in Range(superset)
  /\ committed[o] \notin Range(targets)
Pushable == rt # None /\ Fits(Task.targets, rt.superset)

Refuse ==
  /\ wpc = "publish"
  /\ \/ ~ Pushable /\ Settling(NotApplied) /\ UNCHANGED fresh
     \/ /\ Pushable /\ Evicts(rt.obj, rt.superset, Task.targets)
        /\ Settling(Blocked(committed[rt.obj])) /\ fresh' = TRUE
  /\ inflight' = FALSE
  /\ UNCHANGED <<table, queue, obj, lists, seenEpoch, monitors, duck, device>>

Publish ==
  /\ wpc = "publish" /\ Pushable
  /\ ~ Evicts(rt.obj, rt.superset, Task.targets)
  /\ obj' = rt.obj /\ lists' = [superset |-> rt.superset, targets |-> rt.targets]
  /\ rt' = [rt EXCEPT !.targets = Task.targets]
  /\ wpc' = "epoch"
  /\ UNCHANGED <<table, queue, seenEpoch, fresh, outcome, inflight, parked, committed, duck, device>>

(* restore_targets: only what this push wrote, and on the same monitor.    *)
Restore ==
  rt' = IF rt # None /\ rt.obj = obj /\ rt.targets = Task.targets
        THEN [rt EXCEPT !.targets = lists.targets] ELSE rt

CheckEpoch ==
  /\ wpc = "epoch"
  /\ IF epoch = seenEpoch
     THEN wpc' = "call" /\ UNCHANGED <<rt, outcome, inflight>>
     ELSE Restore /\ Settling(NotApplied) /\ inflight' = FALSE
  /\ UNCHANGED <<table, queue, obj, lists, seenEpoch, fresh, parked, committed, duck, device>>

(* IddCxMonitorUpdateModes2 returns.                                       *)
OSAccepts ==
  /\ wpc = "call"
  /\ Settling(Applied) /\ inflight' = FALSE
  /\ UNCHANGED <<table, queue, obj, lists, seenEpoch, fresh, monitors, duck, device>>

OSRefuses ==
  /\ wpc = "call"
  /\ Restore /\ Settling(NotApplied) /\ inflight' = FALSE
  /\ UNCHANGED <<table, queue, obj, lists, seenEpoch, fresh, parked, committed, duck, device>>

(* settle_modes, on the pending update or on one that was superseded.      *)
\* bug: an update that was deferred stays pending
StaysPending ==
  IF outcome.result = "applied"
  THEN [mon EXCEPT !.settled = Task.seq, !.pending = None, !.targets = Task.targets]
  ELSE [mon EXCEPT !.settled = Task.seq]
Decided ==
  CASE outcome.result = "applied" ->
         [mon EXCEPT !.settled = Task.seq, !.pending = None, !.blocked = None,
                     !.targets = Task.targets]
    [] outcome.result = "not applied" ->
         [mon EXCEPT !.settled = Task.seq, !.pending = None]
    [] OTHER ->
         [mon EXCEPT !.settled = Task.seq, !.pending = None,
                     !.blocked = [targets |-> mon.pending.targets, mode |-> outcome.mode,
                                  current |-> fresh]]
Superseded ==
  IF outcome.result = "applied"
  THEN [mon EXCEPT !.settled = Task.seq, !.blocked = None, !.targets = Task.targets]
  ELSE [mon EXCEPT !.settled = Task.seq]

Settle ==
  /\ wpc = "settle"
  /\ mon' = IF mon = None \/ Task.seq <= mon.settled THEN mon
            ELSE IF mon.pending # None /\ mon.pending.seq = Task.seq THEN Decided
            ELSE Superseded
  /\ fresh' = FALSE
  /\ Done
  /\ UNCHANGED <<updateSeq, inflight, monitors, duck, device>>

-----------------------------------------------------------------------------
(* The duck-out, as far as it touches the lists: TdrDuck has the rest.     *)

(* A frame worker saw its device removed.                                  *)
ArmDuck ==
  /\ ~ latch /\ Arrived /\ ducks < MaxDucks
  /\ latch' = TRUE /\ ducks' = ducks + 1
  /\ queue' = Append(queue, Duck(epoch))
  /\ UNCHANGED <<table, wpc, locals, inflight, monitors, poller, device>>

(* The duck is stale, or the monitor is gone, or the OS refuses to depart it. *)
DuckNothing ==
  /\ AtHead("duck")
  /\ latch' = FALSE
  /\ Done
  /\ UNCHANGED <<table, fresh, inflight, monitors, poller, ducks, device>>

(* The device alone is ducked: the monitor stays, somebody watches it.     *)
DuckDevice ==
  /\ AtHead("duck") /\ Task.epoch = epoch /\ Arrived
  /\ poller' = epoch
  /\ Done
  /\ UNCHANGED <<table, fresh, inflight, monitors, latch, ducks, device>>

(* The display is ducked: it departs and is parked.                        *)
DuckDepart ==
  /\ AtHead("duck") /\ Task.epoch = epoch /\ Arrived
  /\ wpc' = "park" /\ obj' = rt.obj
  /\ alive' = alive \ {rt.obj}
  /\ UNCHANGED <<table, queue, lists, seenEpoch, fresh, outcome, inflight, monitors, duck,
                 adapter, epoch, pnp, timedOut>>

Park ==
  /\ wpc = "park"
  /\ rt' = None
  /\ IF rt # None THEN Forget(rt.obj) ELSE UNCHANGED <<committed, mon, fresh>>
  /\ IF Task.epoch = epoch /\ rt # None
     THEN /\ parked' = [superset |-> rt.superset, targets |-> rt.targets]
          /\ poller' = epoch /\ UNCHANGED latch
     ELSE parked' = None /\ latch' = FALSE /\ UNCHANGED poller
  /\ Done
  /\ UNCHANGED <<updateSeq, inflight, ducks, device>>

PollerReplugs ==
  /\ poller = epoch /\ parked # None
  /\ queue' = Append(queue, Replug(poller)) /\ poller' = None
  /\ UNCHANGED <<table, wpc, locals, inflight, monitors, latch, ducks, device>>

(* Recovered without a departure, given up, or stale.                      *)
PollerEnds ==
  /\ poller # None
  /\ parked' = None /\ poller' = None /\ latch' = FALSE
  /\ UNCHANGED <<table, worker, rt, committed, ducks, device>>

-----------------------------------------------------------------------------
(* The OS and the final exit.                                              *)

(* Every commit replaces the record; it may also be lost.                  *)
Commit(m) ==
  /\ committed' = [o \in Objects |-> IF Arrived /\ o = rt.obj THEN m ELSE None]
  /\ Expire
  /\ UNCHANGED <<updateSeq, queue, wpc, obj, lists, seenEpoch, outcome, inflight, rt, parked,
                 duck, device>>

ClearAdapter ==
  /\ pnp = "up" /\ epoch < MaxEpoch
  /\ adapter' = FALSE /\ epoch' = epoch + 1 /\ pnp' = "cleared"
  /\ UNCHANGED <<table, worker, monitors, duck, timedOut, alive>>

Unawaited == TRUE  \* bug: the exit does not wait for a push in flight
NoPush == ~ inflight
DrainPushes ==
  /\ pnp = "cleared" /\ NoPush
  /\ pnp' = "waited"
  /\ UNCHANGED <<table, worker, monitors, duck, adapter, epoch, timedOut, alive>>

DrainTimesOut ==
  /\ pnp = "cleared" /\ inflight
  /\ pnp' = "waited" /\ timedOut' = TRUE
  /\ UNCHANGED <<table, worker, monitors, duck, adapter, epoch, alive>>

ForgetAll ==
  /\ pnp = "waited"
  /\ pnp' = "forgot"
  /\ committed' = [o \in Objects |-> None] /\ Expire
  /\ UNCHANGED <<updateSeq, queue, wpc, obj, lists, seenEpoch, outcome, inflight, rt, parked,
                 duck, adapter, epoch, timedOut, alive>>

DrainMonitors ==
  /\ pnp = "forgot"
  /\ pnp' = "drained" /\ rt' = None
  /\ UNCHANGED <<table, worker, parked, committed, duck, adapter, epoch, timedOut, alive>>

DrainParked ==
  /\ pnp = "drained"
  /\ pnp' = "unparked" /\ parked' = None
  /\ UNCHANGED <<table, worker, rt, committed, duck, adapter, epoch, timedOut, alive>>

TeardownReset ==
  /\ pnp = "unparked"
  /\ pnp' = "reset" /\ mon' = None
  /\ UNCHANGED <<updateSeq, worker, monitors, duck, adapter, epoch, timedOut, alive>>

(* The OS destroys the adapter with its monitors; a new one may come.      *)
DestroyAdapter ==
  /\ pnp = "reset"
  /\ pnp' = "gone" /\ alive' = {}
  /\ UNCHANGED <<table, worker, monitors, duck, adapter, epoch, timedOut>>

BringUp ==
  /\ pnp = "gone" /\ (LateEffects \/ (queue = <<>> /\ ~ latch))
  /\ pnp' = "up" /\ adapter' = TRUE /\ timedOut' = FALSE
  /\ UNCHANGED <<table, worker, monitors, duck, epoch, alive>>

-----------------------------------------------------------------------------
Host ==
  \/ \E l \in Supersets : HostCreate(l)
  \/ HostDestroy
  \/ \E l \in Lists : HostUpdate(l)
CreateMonitor == CreateFails \/ \E o \in Objects : Arrive(o) \/ ArrivalFails(o)
Push ==
  \/ StartPush \/ ReadAdapter \/ Refuse \/ Publish \/ CheckEpoch
  \/ OSAccepts \/ OSRefuses \/ Settle
Worker ==
  \/ StartPlug \/ StartReplug \/ CreateMonitor \/ StartUnplug \/ Depart \/ Push
  \/ DuckNothing \/ DuckDevice \/ DuckDepart \/ Park
Exit ==
  \/ ClearAdapter \/ DrainPushes \/ DrainTimesOut \/ ForgetAll \/ DrainMonitors
  \/ DrainParked \/ TeardownReset \/ DestroyAdapter \/ BringUp

Next ==
  \/ Host \/ Worker \/ ArmDuck \/ PollerReplugs \/ PollerEnds
  \/ \E m \in Modes \cup {None} : Commit(m)
  \/ Exit

Spec == Init /\ [][Next]_vars /\ WF_vars(Worker)

-----------------------------------------------------------------------------
TableTypes == mon \in SessionType \cup {None} /\ updateSeq \in Nat
QueueTypes == queue \in Seq(EffectType)
WorkerTypes ==
  /\ wpc \in {"idle", "create", "depart", "adapter", "publish", "epoch", "call", "settle", "park"}
  /\ obj \in Objects \cup {None} /\ lists \in PlugLists \cup {None}
  /\ seenEpoch \in Nat \cup {None} /\ fresh \in BOOLEAN /\ outcome \in OutcomeType \cup {None}
  /\ inflight \in BOOLEAN
MonitorTypes ==
  /\ rt \in RuntimeType \cup {None} /\ parked \in PlugLists \cup {None}
  /\ committed \in [Objects -> Modes \cup {None}]
DeviceTypes ==
  /\ latch \in BOOLEAN /\ poller \in Nat \cup {None} /\ ducks \in Nat
  /\ adapter \in BOOLEAN /\ epoch \in Nat
  /\ pnp \in {"up", "cleared", "waited", "forgot", "drained", "unparked", "reset", "gone"}
  /\ timedOut \in BOOLEAN /\ alive \in SUBSET Objects
TypeOK == TableTypes /\ QueueTypes /\ WorkerTypes /\ MonitorTypes /\ DeviceTypes

(* The plug of the session in the table has not been carried out.          *)
PlugDue == \E i \in DOMAIN queue : queue[i].op = "plug"

(* With no update outstanding, the list the table says is in force is the  *)
(* one the monitor publishes or will come back with: the answer "already   *)
(* published" is true (settle_modes after every push, a superseded one,    *)
(* one that failed, one on a parked monitor, one from an earlier session   *)
(* of the same id).                                                        *)
InForceIsTruthful ==
  mon # None /\ mon.pending = None /\ ~ PlugDue =>
    /\ Arrived => rt.targets = mon.targets
    /\ parked # None => parked.targets = mon.targets

(* plug's comment on the entry it displaces: "its monitor object died with *)
(* the old adapter, so no departure call".                                 *)
DisplacedIsDead ==
  [][ rt # None /\ rt' # None /\ rt'.obj # rt.obj => rt.obj \notin alive ]_vars

(* Whatever happens to a push, the monitor offers modes it really has, and *)
(* the preferred mode reported to the OS is one of those offered (Windows  *)
(* shows the intersection of the two lists).                               *)
Activatable(m) ==
  /\ m.targets # <<>> /\ Range(m.targets) \subseteq Range(m.superset)
  /\ m.superset[Preferred(m.superset, m.targets)] \in Range(m.targets)
AlwaysActivatable ==
  (rt # None => Activatable(rt)) /\ (parked # None => Activatable(parked))

(* A refusal that would be answered from memory is still true: the mode it *)
(* names is the one recorded for the monitor that is there now, and the    *)
(* refused list lacks it.                                                  *)
RefusalIsTrue ==
  mon # None /\ Remembered # None =>
    /\ Remembered.mode \notin Range(Remembered.targets)
    /\ rt # None => committed[rt.obj] = Remembered.mode

(* A monitor the OS has been called on is not destroyed before the call    *)
(* returns, unless the exit stopped waiting (PushInFlight::begin against   *)
(* drain_mode_pushes).                                                     *)
NotDestroyedInCall ==
  [][ wpc = "call" /\ obj \in alive /\ ~ timedOut => obj \in alive' ]_vars

(* Every update is settled, superseded, or gone with its session, through  *)
(* duck-outs and final exits: the reply's "pending" ends.                  *)
Outstanding(n) == mon # None /\ mon.pending # None /\ mon.pending.seq = n
EveryUpdateSettles == \A n \in 1 .. MaxSeq : Outstanding(n) ~> ~ Outstanding(n)
=============================================================================
