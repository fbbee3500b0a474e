------------------------------ MODULE TdrDuck ------------------------------
(***************************************************************************)
(* What the driver does when a GPU resets (shell/control.rs, tdr.rs,       *)
(* shell/swapchain.rs, shell/monitors.rs).                                 *)
(*                                                                         *)
(* A frame worker that sees its D3D device removed arms a duck: one latch  *)
(* lets a single duck be in flight.  In "device" mode the monitors stay    *)
(* arrived and a poller watches the lock-free mirrors of their rings until *)
(* the OS has assigned new swapchains; if the GPU answers and the OS does  *)
(* not come back, one forced departure and re-arrival (the requalify) is   *)
(* made.  In "display" mode every monitor departs at once and is parked    *)
(* until a poller sees the GPU answer.  Frame workers, pollers, the        *)
(* effects worker and the final exit of the device all run concurrently.   *)
(*                                                                         *)
(* Time is abstract: the grace period and the recovery budget may run out  *)
(* at any tick of a poller.                                                *)
(***************************************************************************)
EXTENDS Naturals, Sequences, FiniteSets, SequencesExt

CONSTANTS
  Sessions,
  Luids,      \* adapters a monitor may render on,
  Placements, \* and which one each does: a set of functions
  DuckModes,  \* subset of {"device", "display"}: the registry's policy
  MaxCycles,  \* TDR_MAX_DUCK_CYCLES
  MaxResets,  \* bounds: GPU resets,
  MaxEpoch,   \* final exits,
  MaxRequests \* and the host's requests

ASSUME MachineAssumption ==
  Placements \subseteq [Sessions -> Luids] /\ DuckModes \subseteq {"device", "display"}
ASSUME BoundsAssumption ==
  MaxCycles \in Nat /\ MaxResets \in Nat /\ MaxEpoch \in Nat /\ MaxRequests \in Nat

VARIABLES
  \* the machine
  mode,       \* the policy in force
  luid,       \* the adapter each monitor renders on
  gpu,        \* "ok" or "gone", per adapter
  resets,     \* how often each adapter was reset
  \* the monitors
  where,      \* "none", "map" (arrived), "hand" (between the map and the parked set), "parked"
  ring,       \* RingLive.state of its ring
  frame,      \* its frame worker
  wanted,     \* the session table has it
  requests,   \* how many the host has made
  \* the duck
  latch,      \* tdr_duck_pending
  cycles,     \* tdr_duck_cycles
  recovery,   \* age of tdr_last_recovery_ms
  pollers,    \* recovery threads alive
  rechecked,  \* sessions of the last duck that ended by the good exit
  \* the effects worker
  queue, job,
  \* the device
  adapter, epoch, pnp

machine == <<mode, luid, gpu, resets>>
table == <<wanted, requests>>
monitors == <<where, ring, frame, table>>
duck == <<latch, cycles, recovery, pollers, rechecked>>
device == <<adapter, epoch, pnp>>
vars == <<machine, monitors, duck, queue, job, device>>

Idle == [at |-> "idle"]

Init ==
  /\ mode \in DuckModes /\ luid \in Placements
  /\ gpu = [l \in Luids |-> "ok"] /\ resets = [l \in Luids |-> 0]
  /\ where = [s \in Sessions |-> "map"] /\ ring = [s \in Sessions |-> "REBUILDING"]
  /\ frame = [s \in Sessions |-> "none"] /\ wanted = [s \in Sessions |-> TRUE]
  /\ requests = 0
  /\ latch = FALSE /\ cycles = 0 /\ recovery = "never" /\ pollers = <<>> /\ rechecked = {}
  /\ queue = <<>> /\ job = Idle
  /\ adapter = TRUE /\ epoch = 0 /\ pnp = "up"

Arrived(s) == where[s] = "map" /\ ~ (job.at \in {"depart", "remove"} /\ job.cur = s)
Parked == {s \in Sessions : where[s] = "parked"}
Settled(s) == ring[s] # "REBUILDING"
Publishing(s) == frame[s] = "running" /\ ring[s] = "ACTIVE"
Unrecovered(covered) == {s \in covered : where[s] = "map" /\ ~ Settled(s)}

(* Leave the driver for good, the ring marked DEAD for the host.           *)
Gone(S, w) == [s \in Sessions |-> IF s \in S THEN "none" ELSE w[s]]
Dead(S, r) == [s \in Sessions |-> IF s \in S THEN "DEAD" ELSE r[s]]

-----------------------------------------------------------------------------
(* The GPUs and the OS.                                                    *)

ResetsLeft == FoldFunction(+, 0, resets) < MaxResets

(* A device removed stays removed for the worker that holds it.            *)
GpuResets(l) ==
  /\ l \in Range(luid) /\ gpu[l] = "ok" /\ ResetsLeft
  /\ gpu' = [gpu EXCEPT ![l] = "gone"] /\ resets' = [resets EXCEPT ![l] = @ + 1]
  /\ frame' = [s \in Sessions |->
                 IF luid[s] = l /\ frame[s] = "running" THEN "removed" ELSE frame[s]]
  /\ UNCHANGED <<mode, luid, where, ring, table, duck, queue, job, device>>

GpuAnswers(l) ==
  /\ gpu[l] = "gone"
  /\ gpu' = [gpu EXCEPT ![l] = "ok"]
  /\ UNCHANGED <<mode, luid, resets, monitors, duck, queue, job, device>>

(* evt_assign: a new frame worker, which starts by creating its device.    *)
Assign(s) ==
  /\ Arrived(s) /\ frame[s] \in {"none", "lost"} /\ pnp = "up"
  /\ frame' = [frame EXCEPT ![s] = "creating"]
  /\ UNCHANGED <<machine, where, ring, table, duck, queue, job, device>>

(* evt_unassign, or a creation that failed without a device loss.          *)
Unassign(s) ==
  /\ frame[s] \in {"creating", "running", "removed"}
  /\ frame' = [frame EXCEPT ![s] = "none"]
  /\ UNCHANGED <<machine, where, ring, table, duck, queue, job, device>>

(* The incident window runs out; with no cycle used it makes no difference. *)
TimePasses ==
  /\ recovery = "recent" /\ cycles > 0
  /\ recovery' = "old"
  /\ UNCHANGED <<machine, monitors, latch, cycles, pollers, rechecked, queue, job, device>>

-----------------------------------------------------------------------------
(* A frame worker (frame_loop).                                            *)

DeviceCreated(s) ==
  /\ frame[s] = "creating" /\ gpu[luid[s]] = "ok"
  /\ frame' = [frame EXCEPT ![s] = "running"] /\ ring' = [ring EXCEPT ![s] = "REBUILDING"]
  /\ UNCHANGED <<machine, where, table, duck, queue, job, device>>

(* The re-arm site: only in device mode, and the mirror first.             *)
DeviceCreateFails(s) ==
  /\ frame[s] = "creating" /\ gpu[luid[s]] = "gone"
  /\ IF mode = "device"
     THEN /\ ring' = [ring EXCEPT ![s] = "REBUILDING"]
          /\ frame' = [frame EXCEPT ![s] = "arming"]
     ELSE frame' = [frame EXCEPT ![s] = "none"] /\ UNCHANGED ring
  /\ UNCHANGED <<machine, where, table, duck, queue, job, device>>

FirstFrame(s) ==
  /\ frame[s] = "running" /\ ring[s] = "REBUILDING"
  /\ ring' = [ring EXCEPT ![s] = "ACTIVE"]
  /\ UNCHANGED <<machine, where, frame, table, duck, queue, job, device>>

(* An acquire or a publish failed: the state first, then the duck.         *)
SwapchainLost(s) ==
  /\ frame[s] \in {"running", "removed"}
  /\ ring' = [ring EXCEPT ![s] = "REBUILDING"]
  /\ frame' = [frame EXCEPT ![s] = IF frame[s] = "removed" THEN "arming" ELSE "none"]
  /\ UNCHANGED <<machine, where, table, duck, queue, job, device>>

(* queue_tdr_duck: the compare-exchange on the latch, then the task.       *)
TaskFor(s) ==
  IF mode = "display" THEN [op |-> "duck", epoch |-> epoch, sessions |-> {}]
  ELSE [op |-> "device duck", epoch |-> epoch, sessions |-> {s}]
QueueDuck(s) ==
  IF latch THEN UNCHANGED <<latch, queue, rechecked>>
  ELSE latch' = TRUE /\ queue' = Append(queue, TaskFor(s)) /\ rechecked' = {}

Arm(s) ==
  /\ frame[s] = "arming" /\ QueueDuck(s)
  /\ frame' = [frame EXCEPT ![s] = "lost"]
  /\ UNCHANGED <<machine, where, ring, table, cycles, recovery, pollers, job, device>>

-----------------------------------------------------------------------------
(* The effects worker.                                                     *)

Serving(op) == job = Idle /\ queue # <<>> /\ Head(queue).op = op
Task == Head(queue)
Stale(e) == e # epoch
Done == queue' = Tail(queue)

(* Worker::stop: bounded, so a worker already past its stop check arms its *)
(* duck after its monitor is gone.                                         *)
Stop(S) ==
  frame' = [s \in Sessions |-> IF s \in S /\ frame[s] # "arming" THEN "none" ELSE frame[s]]

(* finish_device_duck, and the same store on the legacy paths.             *)
Release == latch' = FALSE

(* A duck is dropped or handed over; nothing departs.                      *)
Quietly == UNCHANGED <<machine, monitors, job, device>>

(* reset_cycles_if_new_incident                                            *)
CyclesNow == IF recovery = "old" THEN 0 ELSE cycles
BudgetLeft == cycles < MaxCycles

(* abandon_ducked: the parked set is drained, its rings dead.              *)
Abandon == where' = Gone(Parked, where) /\ ring' = Dead(Parked, ring)

DropStale ==
  /\ Serving("duck") \/ Serving("device duck") \/ Serving("requalify") \/ Serving("deadline")
  /\ Stale(Task.epoch)
  /\ Done /\ Release /\ Quietly
  /\ UNCHANGED <<cycles, recovery, pollers, rechecked>>

(* run_tdr_duck, up to duck_all.                                           *)
StartDuck ==
  /\ Serving("duck") /\ ~ Stale(Task.epoch)
  /\ Done /\ cycles' = CyclesNow
  /\ job' = [at |-> "next", op |-> "duck", epoch |-> Task.epoch, cur |-> "none", parked |-> FALSE,
             todo |-> {s \in Sessions : where[s] = "map"}]
  /\ UNCHANGED <<machine, monitors, latch, recovery, pollers, rechecked, device>>

Poller(kind, e, l, covers) ==
  [kind |-> kind, at |-> "watch", epoch |-> e, luid |-> l, covers |-> covers, seen |-> FALSE]

(* run_tdr_device_duck: nothing departs; a poller watches every monitor of *)
(* the adapter that was lost.                                              *)
EveryMonitor(s) == {t \in Sessions : where[t] = "map"}  \* bug: the duck is not scoped
SameAdapter(s) == {t \in Sessions : where[t] = "map" /\ luid[t] = luid[s]}
StartDeviceDuck ==
  /\ Serving("device duck") /\ ~ Stale(Task.epoch)
  /\ Done /\ cycles' = CyclesNow
  /\ \E s \in Task.sessions :
       \/ /\ where[s] # "map" /\ Release
          /\ UNCHANGED <<where, ring, pollers>>
       \/ /\ where[s] = "map"
          /\ pollers' = Append(pollers, Poller("device", epoch, luid[s], SameAdapter(s)))
          /\ UNCHANGED <<where, ring, latch>>
       \/ /\ where[s] = "map"  \* no thread: depart_fallback
          /\ where' = Gone(Parked, where)
          /\ ring' = Dead(Parked \cup Unrecovered(SameAdapter(s)), ring)
          /\ Release /\ UNCHANGED pollers
  /\ UNCHANGED <<machine, frame, table, recovery, rechecked, job, device>>

(* run_tdr_requalify, up to duck_sessions: the mirrors are read again.     *)
StillLost(covered) == Unrecovered(covered)
SkipAndReturn ==  \* bug: an early return that keeps the latch
  /\ Serving("requalify") /\ ~ Stale(Task.epoch) /\ StillLost(Task.sessions) = {}
  /\ Done /\ Quietly /\ recovery' = "recent"
  /\ UNCHANGED <<latch, cycles, pollers, rechecked>>
SkipRequalify ==
  /\ Serving("requalify") /\ ~ Stale(Task.epoch) /\ StillLost(Task.sessions) = {}
  /\ Done /\ Release /\ Quietly
  /\ recovery' = "recent"
  /\ UNCHANGED <<cycles, pollers, rechecked>>

CapRequalify ==
  /\ Serving("requalify") /\ ~ Stale(Task.epoch) /\ StillLost(Task.sessions) # {}
  /\ ~ BudgetLeft
  /\ Done /\ Release /\ Quietly
  /\ UNCHANGED <<cycles, recovery, pollers, rechecked>>

StartRequalify ==
  /\ Serving("requalify") /\ ~ Stale(Task.epoch) /\ StillLost(Task.sessions) # {}
  /\ BudgetLeft
  /\ Done /\ cycles' = cycles + 1
  /\ job' = [at |-> "next", op |-> "requalify", epoch |-> Task.epoch, cur |-> "none",
             parked |-> FALSE, todo |-> StillLost(Task.sessions)]
  /\ UNCHANGED <<machine, monitors, latch, recovery, pollers, rechecked, device>>

(* run_tdr_deadline_depart: the transport is retired, nothing departs.     *)
GiveUp ==
  /\ Serving("deadline") /\ ~ Stale(Task.epoch)
  /\ Done /\ Release
  /\ where' = Gone(Parked, where)
  /\ ring' = Dead(Parked \cup Unrecovered(Task.sessions), ring)
  /\ UNCHANGED <<machine, frame, table, cycles, recovery, pollers, rechecked, job, device>>

(* duck_selected, one monitor after the other: the mirror is marked and    *)
(* the monitor left in the map while the OS departs it.                    *)
DuckNext(s) ==
  /\ job.at = "next" /\ s \in job.todo
  /\ IF where[s] = "map"
     THEN /\ ring' = [ring EXCEPT ![s] = "REBUILDING"]
          /\ job' = [job EXCEPT !.at = "depart", !.cur = s, !.todo = @ \ {s}]
     ELSE job' = [job EXCEPT !.todo = @ \ {s}] /\ UNCHANGED ring
  /\ UNCHANGED <<machine, where, frame, table, duck, queue, device>>

Departs ==
  /\ job.at = "depart"
  /\ Stop({job.cur})
  /\ job' = [job EXCEPT !.at = "remove"]
  /\ UNCHANGED <<machine, where, ring, table, duck, queue, device>>

DepartureFails ==
  /\ job.at = "depart"
  /\ job' = [job EXCEPT !.at = "next"]
  /\ UNCHANGED <<machine, monitors, duck, queue, device>>

(* Out of the map, unless the final exit drained it meanwhile.             *)
Unmap ==
  /\ job.at = "remove"
  /\ IF where[job.cur] = "map"
     THEN /\ where' = [where EXCEPT ![job.cur] = "hand"]
          /\ job' = [job EXCEPT !.at = "park"]
     ELSE job' = [job EXCEPT !.at = "next"] /\ UNCHANGED where
  /\ UNCHANGED <<machine, ring, frame, table, duck, queue, device>>

Park ==
  /\ job.at = "park"
  /\ where' = [where EXCEPT ![job.cur] = "parked"]
  /\ job' = [job EXCEPT !.at = "next", !.parked = TRUE]
  /\ UNCHANGED <<machine, ring, frame, table, duck, queue, device>>

(* The end of duck_selected: a final exit that raced the loop has drained  *)
(* the parked set too early, so what the loop parked since is drained.     *)
TornDown == Stale(job.epoch)
DuckedAll == job.at = "next" /\ job.todo = {}

DuckNone ==
  /\ DuckedAll /\ (TornDown \/ ~ job.parked)
  /\ IF TornDown THEN Abandon ELSE UNCHANGED <<where, ring>>
  /\ Release /\ job' = Idle
  /\ UNCHANGED <<machine, frame, table, cycles, recovery, pollers, rechecked, queue, device>>

(* run_tdr_duck after duck_all: a poller, or nobody when the incident's    *)
(* budget is used up or no thread can be had.                              *)
DuckGivesUp ==
  /\ DuckedAll /\ ~ TornDown /\ job.parked /\ job.op = "duck"
  /\ Abandon /\ Release
  /\ cycles' = IF BudgetLeft THEN cycles + 1 ELSE cycles
  /\ job' = Idle
  /\ UNCHANGED <<machine, frame, table, recovery, pollers, rechecked, queue, device>>

DuckWaits ==
  /\ DuckedAll /\ ~ TornDown /\ job.parked /\ job.op = "duck" /\ BudgetLeft
  /\ cycles' = cycles + 1
  /\ \E s \in Sessions :
       /\ s \in Parked \/ Parked = {}
       /\ pollers' = Append(pollers, Poller("display", job.epoch, luid[s], {}))
  /\ job' = Idle
  /\ UNCHANGED <<machine, monitors, latch, recovery, rechecked, queue, device>>

(* replug_ducked: the parked set is taken, then arrives again one by one.  *)
DropReplug ==
  /\ Serving("replug") /\ Stale(Task.epoch)
  /\ Done /\ Abandon /\ Release
  /\ UNCHANGED <<machine, frame, table, cycles, recovery, pollers, rechecked, job, device>>

TakeParked(op, e) ==
  /\ IF adapter
     THEN /\ where' = [s \in Sessions |-> IF where[s] = "parked" THEN "hand" ELSE where[s]]
          /\ UNCHANGED ring
     ELSE Abandon
  /\ job' = [at |-> "arrive", op |-> op, epoch |-> e, cur |-> "none", parked |-> FALSE,
             todo |-> IF adapter THEN Parked ELSE {}]
  /\ UNCHANGED <<machine, frame, table, duck, device>>

StartReplug == Serving("replug") /\ ~ Stale(Task.epoch) /\ Done /\ TakeParked("replug", Task.epoch)
RequalifyReplugs ==
  /\ DuckedAll /\ ~ TornDown /\ job.parked /\ job.op = "requalify"
  /\ TakeParked("requalify", job.epoch) /\ UNCHANGED queue

(* The monitor is in the map before it arrives; if it does not, its ring   *)
(* is dead.                                                                *)
Arrive(s) ==
  /\ job.at = "arrive" /\ s \in job.todo
  /\ job' = [job EXCEPT !.todo = @ \ {s}]
  /\ \/ where' = [where EXCEPT ![s] = "map"] /\ UNCHANGED ring
     \/ where' = Gone({s}, where) /\ ring' = Dead({s}, ring)
  /\ UNCHANGED <<machine, frame, table, duck, queue, device>>

Replugged ==
  /\ job.at = "arrive" /\ job.todo = {}
  /\ job' = Idle /\ recovery' = "recent" /\ Release
  /\ UNCHANGED <<machine, monitors, cycles, pollers, rechecked, queue, device>>

(* monitors::plug and monitors::unplug; both purge a parked monitor of the *)
(* session first.                                                          *)
ServePlug ==
  /\ Serving("plug") /\ Done
  /\ \E s \in Task.sessions :
       /\ Stop({s})
       /\ rechecked' = rechecked \ {s}
       /\ IF adapter
          THEN where' = [where EXCEPT ![s] = "map"] /\ ring' = [ring EXCEPT ![s] = "REBUILDING"]
          ELSE UNCHANGED <<where, ring>>
  /\ UNCHANGED <<machine, table, latch, cycles, recovery, pollers, job, device>>

ServeUnplug ==
  /\ Serving("unplug") /\ Done
  /\ \E s \in Task.sessions :
       /\ Stop({s})
       /\ where' = Gone({s}, where) /\ ring' = Dead({s}, ring)
  /\ UNCHANGED <<machine, table, duck, job, device>>

(* run_adapter_ready                                                       *)
AdapterReady ==
  /\ Serving("ready") /\ Done
  /\ adapter' = (adapter \/ ~ Stale(Task.epoch))
  /\ UNCHANGED <<machine, monitors, duck, job, epoch, pnp>>

-----------------------------------------------------------------------------
(* A recovery poller.  One tick is one step: it looks for a reason to end, *)
(* in the order of the code, before it looks at its probe and its clock.   *)
(* It sleeps before every tick, longer than a re-check by its predecessor. *)

Kind(p, kind) ==
  /\ pollers[p].kind = kind /\ pollers[p].at = "watch"
  /\ \A q \in DOMAIN pollers : pollers[q].at # "recheck"
Ends(p) == pollers' = RemoveAt(pollers, p)
Current(p) == ~ Stale(pollers[p].epoch)
Watched(p) == {s \in pollers[p].covers : where[s] = "map"}
ToWorker(op, p, S) ==
  queue' = Append(queue, [op |-> op, epoch |-> pollers[p].epoch, sessions |-> S])

(* The probe of the adapter, on a thread of its own: the poller learns the *)
(* answer later, and a hung probe is one not answered yet.                 *)
ProbeAnswers(p) ==
  /\ pollers[p].at = "watch" /\ ~ pollers[p].seen /\ gpu[pollers[p].luid] = "ok"
  /\ pollers' = [pollers EXCEPT ![p].seen = TRUE]
  /\ UNCHANGED <<machine, monitors, latch, cycles, recovery, rechecked, queue, job, device>>

(* The poller of run_tdr_duck.                                             *)
LeftToTheExit == UNCHANGED <<where, ring>>  \* bug: the exit's own drain is trusted
DrainStale == Abandon
DisplayPollerEnds(p) ==
  /\ Kind(p, "display") /\ (~ Current(p) \/ Parked = {})
  /\ IF Current(p) THEN UNCHANGED <<where, ring>> ELSE DrainStale
  /\ Release /\ Ends(p)
  /\ UNCHANGED <<machine, frame, table, cycles, recovery, rechecked, queue, job, device>>

DisplayRecovered(p) ==
  /\ Kind(p, "display") /\ Current(p) /\ Parked # {} /\ pollers[p].seen
  /\ ToWorker("replug", p, {}) /\ Ends(p)
  /\ UNCHANGED <<machine, monitors, latch, cycles, recovery, rechecked, job, device>>

DisplayDeadline(p) ==
  /\ Kind(p, "display") /\ Current(p) /\ Parked # {}
  /\ Abandon /\ Release /\ Ends(p)
  /\ UNCHANGED <<machine, frame, table, cycles, recovery, rechecked, queue, job, device>>

(* device_duck_poller                                                      *)
DevicePollerEnds(p) ==
  /\ Kind(p, "device") /\ (~ Current(p) \/ Watched(p) = {})
  /\ Release /\ Ends(p)
  /\ UNCHANGED <<machine, monitors, cycles, recovery, rechecked, queue, job, device>>

Pending(p) == {s \in Watched(p) : ~ Settled(s)}

(* The good exit, in three steps: every covered ring was found settled;    *)
(* the latch is released; the mirrors are read once more, because a worker *)
(* that failed in between found the latch held.                            *)
AllSettled(p) ==
  /\ Kind(p, "device") /\ Current(p) /\ Watched(p) # {} /\ Pending(p) = {}
  /\ pollers' = [pollers EXCEPT ![p].at = "release", ![p].covers = Watched(p)]
  /\ UNCHANGED <<machine, monitors, latch, cycles, recovery, rechecked, queue, job, device>>

GoodExit(p) ==
  /\ pollers[p].at = "release"
  /\ Release /\ recovery' = "recent" /\ rechecked' = pollers[p].covers
  /\ pollers' = [pollers EXCEPT ![p].at = "recheck"]
  /\ UNCHANGED <<machine, monitors, cycles, queue, job, device>>

NotAgain(p) == {}  \* bug: the tally made before the release is trusted
Failed(p) == {s \in pollers[p].covers : ~ Settled(s)}
Recheck(p) ==
  /\ pollers[p].at = "recheck"
  /\ IF Failed(p) = {} THEN UNCHANGED <<latch, queue, rechecked>>
     ELSE \E s \in Failed(p) : QueueDuck(s)
  /\ Ends(p)
  /\ UNCHANGED <<machine, monitors, cycles, recovery, job, device>>

(* The GPU answers and the OS did not come back within the grace period.   *)
Requalify(p) ==
  /\ Kind(p, "device") /\ Current(p) /\ Pending(p) # {} /\ pollers[p].seen
  /\ ToWorker("requalify", p, Unrecovered(pollers[p].covers)) /\ Ends(p)
  /\ UNCHANGED <<machine, monitors, latch, cycles, recovery, rechecked, job, device>>

Deadline(p) ==
  /\ Kind(p, "device") /\ Current(p) /\ Pending(p) # {}
  /\ ToWorker("deadline", p, Unrecovered(pollers[p].covers)) /\ Ends(p)
  /\ UNCHANGED <<machine, monitors, latch, cycles, recovery, rechecked, job, device>>

-----------------------------------------------------------------------------
(* The final exit (evt_d0_exit, D3Final): the epoch first, then the drains.*)

ClearAdapter ==
  /\ pnp = "up" /\ epoch < MaxEpoch
  /\ pnp' = "cleared" /\ adapter' = FALSE /\ epoch' = epoch + 1 /\ cycles' = 0
  /\ UNCHANGED <<machine, monitors, latch, recovery, pollers, rechecked, queue, job>>

DrainMonitors ==
  /\ pnp = "cleared"
  /\ LET S == {s \in Sessions : where[s] = "map"}
     IN where' = Gone(S, where) /\ ring' = Dead(S, ring) /\ Stop(S)
  /\ pnp' = "drained"
  /\ UNCHANGED <<machine, table, duck, queue, job, adapter, epoch>>

DrainParked ==
  /\ pnp = "drained"
  /\ Abandon /\ wanted' = [s \in Sessions |-> FALSE]
  /\ pnp' = "down"
  /\ UNCHANGED <<machine, frame, requests, duck, queue, job, adapter, epoch>>

(* A replacement device: evt_adapter_init_finished.                        *)
BringUp ==
  /\ pnp = "down"
  /\ pnp' = "up" /\ queue' = Append(queue, [op |-> "ready", epoch |-> epoch, sessions |-> {}])
  /\ UNCHANGED <<machine, monitors, duck, job, adapter, epoch>>

(* CREATE_MONITOR and DESTROY_MONITOR, as far as the worker is concerned.  *)
Request(s, op) ==
  /\ adapter /\ requests < MaxRequests /\ requests' = requests + 1
  /\ wanted[s] = (op = "unplug") /\ wanted' = [wanted EXCEPT ![s] = op = "plug"]
  /\ queue' = Append(queue, [op |-> op, epoch |-> epoch, sessions |-> {s}])
  /\ UNCHANGED <<machine, where, ring, frame, duck, job, device>>

-----------------------------------------------------------------------------
Machine ==
  \/ \E l \in Luids : GpuResets(l) \/ GpuAnswers(l)
  \/ \E s \in Sessions : Assign(s) \/ Unassign(s)
  \/ \E s \in Sessions, op \in {"plug", "unplug"} : Request(s, op)
  \/ TimePasses \/ ClearAdapter
FrameWorker(s) ==
  \/ DeviceCreated(s) \/ DeviceCreateFails(s) \/ FirstFrame(s) \/ SwapchainLost(s)
EffectsWorker ==
  \/ DropStale \/ StartDuck \/ StartDeviceDuck
  \/ SkipRequalify \/ CapRequalify \/ StartRequalify \/ GiveUp
  \/ (\E s \in Sessions : DuckNext(s)) \/ Departs \/ DepartureFails \/ Unmap \/ Park
  \/ DuckNone \/ DuckGivesUp \/ DuckWaits
  \/ DropReplug \/ StartReplug \/ RequalifyReplugs \/ (\E s \in Sessions : Arrive(s)) \/ Replugged
  \/ ServePlug \/ ServeUnplug \/ AdapterReady
PollerStep ==
  \E p \in DOMAIN pollers :
    \/ DisplayPollerEnds(p) \/ DisplayRecovered(p) \/ DisplayDeadline(p)
    \/ DevicePollerEnds(p) \/ AllSettled(p) \/ GoodExit(p) \/ Recheck(p)
    \/ Requalify(p) \/ Deadline(p)
FinalExit == DrainMonitors \/ DrainParked \/ BringUp

Next ==
  \/ Machine \/ FinalExit \/ EffectsWorker \/ PollerStep
  \/ \E s \in Sessions : FrameWorker(s) \/ Arm(s)
  \/ \E p \in DOMAIN pollers : ProbeAnswers(p)

(* Threads that are not waiting run: the effects worker, a worker arming a *)
(* duck, and a poller, whose budget ends.  Nothing is asked of the OS, of  *)
(* the GPU or of the host.                                                 *)
Spec ==
  /\ Init /\ [][Next]_vars
  /\ WF_vars(EffectsWorker) /\ WF_vars(PollerStep)
  /\ \A s \in Sessions : WF_vars(Arm(s))

-----------------------------------------------------------------------------
TaskOps == {"duck", "device duck", "requalify", "deadline", "replug"}
TaskType ==
  [op : TaskOps \cup {"plug", "unplug", "ready"}, epoch : 0 .. MaxEpoch, sessions : SUBSET Sessions]
PollerType ==
  [kind : {"device", "display"}, at : {"watch", "release", "recheck"}, epoch : 0 .. MaxEpoch,
   luid : Luids, covers : SUBSET Sessions, seen : BOOLEAN]
JobType ==
  [at : {"next", "depart", "remove", "park", "arrive"}, op : {"duck", "requalify", "replug"},
   epoch : 0 .. MaxEpoch, cur : Sessions \cup {"none"}, parked : BOOLEAN, todo : SUBSET Sessions]

MachineTypes ==
  /\ mode \in DuckModes /\ luid \in [Sessions -> Luids]
  /\ gpu \in [Luids -> {"ok", "gone"}] /\ resets \in [Luids -> Nat]
MonitorTypes ==
  /\ where \in [Sessions -> {"none", "map", "hand", "parked"}]
  /\ ring \in [Sessions -> {"REBUILDING", "ACTIVE", "DEAD"}]
  /\ frame \in [Sessions -> {"none", "creating", "running", "removed", "arming", "lost"}]
  /\ wanted \in [Sessions -> BOOLEAN] /\ requests \in 0 .. MaxRequests
DuckTypes ==
  /\ latch \in BOOLEAN /\ cycles \in 0 .. MaxCycles
  /\ recovery \in {"never", "recent", "old"}
  /\ pollers \in Seq(PollerType) /\ rechecked \subseteq Sessions
WorkerTypes == queue \in Seq(TaskType) /\ job \in JobType \cup {Idle}
DeviceTypes ==
  /\ adapter \in BOOLEAN /\ epoch \in 0 .. MaxEpoch
  /\ pnp \in {"up", "cleared", "drained", "down"}
TypeOK == MachineTypes /\ MonitorTypes /\ DuckTypes /\ WorkerTypes /\ DeviceTypes

(* The latch is held exactly while one party has the duck: a task in the   *)
(* queue, the effects worker, or a poller.  Two parties would run two      *)
(* incidents at once; none would leave every later GPU reset ignored.      *)
Queued == {i \in DOMAIN queue : queue[i].op \in TaskOps}
Polling == {p \in DOMAIN pollers : pollers[p].at # "recheck"}
Parties ==
  {<<"queue", i>> : i \in Queued} \cup {<<"poller", p>> : p \in Polling}
    \cup (IF job = Idle THEN {} ELSE {<<"worker", 1>>})
OneDuck ==
  /\ latch <=> Parties # {}
  /\ \A a, b \in Parties : a = b

(* A parked monitor always has a duck that will bring it back or abandon   *)
(* it, whatever final exits and destroys happen meanwhile.                 *)
ParkedHasDuck == Parked # {} => latch

DuckOwnsItsState == OneDuck /\ ParkedHasDuck

(* "The only order that can" close the window: when a duck ends by the     *)
(* good exit no monitor it covered is left behind a REBUILDING ring with   *)
(* its worker gone and nothing watching it.                                *)
Stranded(s) == where[s] = "map" /\ frame[s] = "lost" /\ ~ Settled(s)
GoodExitStrandsNone ==
  ~ latch /\ pollers = <<>> => \A s \in rechecked : ~ Stranded(s)

(* In device mode a monitor is never departed by a duck unless its own     *)
(* adapter was reset: a healthy second GPU keeps its displays.             *)
DepartedByDuck(s) == where[s] = "map" /\ where'[s] = "hand"
HealthyAdapterKept ==
  [][ \A s \in Sessions : DepartedByDuck(s) /\ mode = "device" => resets[luid[s]] > 0 ]_vars

(* "Departs NOTHING that has come back": the requalify never takes a       *)
(* display that is publishing.                                             *)
NoPublisherDeparted ==
  [][ \A s \in Sessions :
        job.at = "next" /\ job'.at = "depart" /\ job.op = "requalify" /\ job'.cur = s
          => ~ Publishing(s) ]_vars

(* Every duck ends: a GPU that never answers, hung probes, a final exit or *)
(* a failure of the OS never leaves the latch held for ever.               *)
EveryDuckEnds == latch ~> ~ latch
=============================================================================
