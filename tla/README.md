# LuminalVGD: a TLA+ verification development

LuminalVGD is a Windows virtual-display driver (an IddCx user-mode driver, in
Rust) and the host-side library with which a streaming host drives it. The
driver plugs virtual monitors, takes the frames the OS composes for them and
hands the textures to the host over a ring in shared memory; the host decides
whether the stream is encoded straight from that ring or falls back to the
OS's capture interfaces.

This directory models the parts of that system whose correctness depends on
*order*: which side touches a shared slot when, what a late answer does, what a
command, a watchdog tick and a worker thread leave behind when they interleave.
Everything is TLA+ (no PlusCal), checked with TLC and, where the argument does
not depend on liveness, proved with TLAPS.

## 1. Inventory

Paths are below `src/crates/`; *core* is `luminal-vgd-core/src`, *driver* is
`luminal-vgd-driver/src`, *host* is `luminal-vgd-host/src`.

| Component | State it keeps | Operations | Talks to |
| --- | --- | --- | --- |
| Frame ring (core `ring.rs`; driver `shell/ring.rs`, `shell/swapchain.rs`, `tdr.rs`; host `device.rs`) | the writer's policy, slot states and header in shared memory, a lock-free mirror of the ring's state | acquire a slot, copy, publish, retire, disable; scan, claim, release | OS swapchain, GPU textures; the host's encoder |
| Capture controller (host `controller.rs`, `ring_watch.rs`) | mode, restore track, ladder rung | session start, ring signal, probe result, direct frame, WGC trip, rung result | the capture thread, which performs the actions it returns |
| Session table (core `session.rs`) | live sessions with their mode lists, leases, pending and settled mode updates | create, update modes, settle, destroy, ping, query, tick | dispatch |
| Connectors and display identities (core `identity.rs`) | reservations of OS connectors by display id | restore, acquire, release | session table; persisted |
| Permanent pool (core `permanent.rs`) | count and mode of the always-on displays | validate, reconcile | dispatch, session table; persisted |
| Dispatch and the control gate (driver `dispatch.rs`, `shell/control.rs`) | table + pool + handle, behind one lock; the contexts of open handles | file create and close, authorization of a caller, one handler per IOCTL, startup, teardown reset, watchdog tick | session table; returns effects |
| Persistence (core `persist.rs`) | a versioned blob in the registry | serialize, parse | written by an effect, read at start |
| Effects thread (driver `shell/control.rs`) | a FIFO of effects | plug, unplug, push modes, persist | monitors |
| Monitors (driver `shell/monitors.rs`) | the live monitor of each session and its OS objects, parked (ducked) monitors | plug, unplug, duck, replug, commit modes | the OS, the frame worker |
| Mode updates (driver `modepush.rs`, `shell/monitors.rs`, core `modes.rs`, `session.rs`) | requested list against the list the OS took; pushes in flight | preflight, publish, call, roll back, settle, patch a parked copy | OS, session table, committed paths |
| Committed paths (driver `modepush.rs`) | a fixed array of seqlock slots, a writer token, a generation | apply a commit, forget a monitor, read with a token | OS commit callbacks; mode updates |
| Driver entry (driver `shell/entry.rs`) | start mark, adapter handle, watchdog timer | D0 entry and exit, adapter init, D3Final teardown | all the driver |
| TDR duck (driver `shell/control.rs`, `tdr.rs`, `shell/monitors.rs`) | one-in-flight latch, cycles of an incident, recovery pollers, parked monitors | arm on device loss, duck the device or the displays, poll, replug, requalify or give up | monitors, ring mirror |
| Hardware cursor (driver `shell/cursor.rs`, host `device.rs`) | a worker per arrived monitor; a section with a shape generation | set up, wait, query, write a shape; stop, detach, close; copy a shape | monitors; host |
| EDID, adapter choice, protocol layouts, OS bindings, C interface, tools, packaging | none that matters to order | pure functions, declarations or I/O | — |

`PROJECT.json` lists each with its status and, when it is not modelled, why.

### What is hard, and what must hold

* **Shared memory without a lock.** Driver and host meet on the slot states by
  compare-and-swap. No texture may be written while the host holds it, what the
  host claims must be one frame's slot, sequence and generation, and the writer
  must never wait for a consumer.
* **Answers that arrive late.** A restore probe, a ladder rung or a mode push
  reports after the world has changed: it must not multiply probes, strand a
  fallback, or settle a session that has been replaced.
* **Effects after the lock.** A handler decides under the device lock and queues
  effects after it released it; the OS sees the effects in queue order.
* **Identity across time.** A display must come back on the connector Windows
  remembers it by, through restarts, lease expiry and a cap on connectors.
* **Partial failure.** A pool that grows by three and fails at the second, a
  monitor whose plug fails after its table entry exists, a lock that fails after
  a slot was taken.

The full list, line by line, is `PROJECT.json` "hazards".

## 2. The modules

| Module | Models | Composed with |
| --- | --- | --- |
| `FrameMailbox` | what the ring promises: a mailbox that drops its oldest frame | abstract specification of `FrameRing` |
| `FrameRing` | `ring.rs` on both sides, `frame_loop`, `publish_frame`, `claim_latest`, `release` | refines `FrameMailbox` (`IsMailbox`) |
| `CaptureController` | `controller.rs` and `ring_watch::classify`, closed with the capture thread and the driver | |
| `ControlPlane` | session table, connectors, pool, dispatch, effects worker, blob, device life cycle | |
| `ControlGate` | what a request passes before its handler runs: handle table, authorization, adapter check, handshake, buffers | stands in front of `ControlPlane` and `ModeUpdates` |
| `ModeUpdates` | one session's mode list, from the request to the OS and back | summarises `CommittedPaths` by a token and `TdrDuck` by a duck-out |
| `CommittedPaths` | the record of committed modes and its lock-free writers | used by `ModeUpdates` |
| `TdrDuck` | everything the driver does when a GPU resets | |
| `CursorSection` | the cursor worker, its bounded stop, the shape in shared memory | |
| `..._proofs` | theorems about a module, for every value of its constants | |
| `MC...` | instances for TLC | |

### FrameRing

One step is one access to shared memory by one of the two sides; what a side
does to its private state travels with the access before or after it. `pol`,
`nextSeq`, `gen` are `RingPolicy`; `transport` to `key` are `FrameRing` (the
struct behind the worker's mutex); `shState`, `shSeq` the slot metadata and
`hdr...` the header in the section; `live`, `workerLive` the lock-free mirror
`RingLive`; `hpc` to `claims` one consumer thread inside `RingView`. The writer's
program counter `wpc` names where `frame_loop` and `publish_frame` are: the loop
head (`idle`), the texture creation (`textures`), the reconcile loop, the
take-CAS (`take`), the mutex (`lock`), the copy, the two publishing stores
(`state`, `header`), and the slot-by-slot reset of `retire_textures` and
`disable_transport` (`reset`, `setgen`, `dead`).

Memory is sequentially consistent in the model. The code stores slot states and
the header with release and takes slots with acquire-release exchanges, so a
claim's second read of the metadata, under `READING`, sees what was published;
the scan's read of a whole `SlotMetadata` is not atomic and is modelled as the
state first and the sequence in a later step. Left out: the fences' work on the
GPU, the drain-only loop of a monitor without a ring, and a worker whose thread
never returns; none of them touches a slot.

### CaptureController

The controller's fields are `mode` to `lastGen`. Every call is an action, and
the actions it returns are performed in the same step by the capture thread,
whose state is `source`, `opened`, `wgcAlive`, `probes`, `answers` and `rung`.
The driver is external: it rebuilds its ring, stalls, dies and recovers at any
time. A probe is three things, each a step: scheduled, made (the answer
is what is true *then*) and reported. When a session ends the host drops its
backends, timers and attempts; `LateRungs` says whether the thread that attempts
a rung lets other calls through meanwhile.

### ControlPlane

`monitors`, `reserved`, `nextAge`, `pool`, `adapters` are `DeviceState`, changed
only under its lock. A handler decides in one step and leaves its effects in
`held`; `QueueEffects` moves them to the worker's `queue` after the lock is
released, as `evt_ioctl` and `evt_watchdog_tick` do. `apply_pool` is the one
handler of several steps: `growth` is the loop in progress, and while it is
non-empty nobody else has the lock. The worker takes one effect at a time; a
plug is two steps (`StartPlug` reads the adapter, `EndPlug` enters the monitor
in the map) because the final exit may drain the map between them. `pnp` is the
device's life cycle, with the final exit split where another thread may come
between (`cleared`, `drained`); `epoch` and `mark` are what make a late bring-up
stale. `Restart` is the end of the host process of the driver at any point:
everything but the registry (`disk`) is lost.

Abstractions: identifiers are small numbers whose ranges stand for the ranges of
`identity.rs` and `permanent.rs`; a lease is a flag that goes stale at any time
after a ping instead of a clock; requests the code refuses change nothing and
have no action; the gate check and the dispatch of a request are one step (the
framework stops the request queue before `D0Exit`); the unplug of several
sessions in one effect is one step.

`Serial` states that a handler's effects are queued before the next handler
runs and before the final exit. The code does not force that; it is the assumption of the passing
runs, and `control_overlap` shows what happens without it. `AdapterLoss` lets
the DXGI walk come back without an adapter.

### CommittedPaths

One step is one atomic access of `CommittedPaths`: `state` are the bits of the
writer token, `generation` and each slot's `version` and `payload` the record.
A writer's `pc` is where `begin_write`, the slot stores, `release_writer` and
`surrender` are; `update` is a commit's paths or a monitor to forget. The worker
also reads (`get_with_token`: `token`, `seen`, `copy`, `answer`). The relaxed
stores of a payload happen in any order between the fences around them, so one
load may meet any mixture of two payloads. The stores themselves are taken in
program order, as x86 makes them: reordering by a weaker machine is not
explored, nor the wrap of the 32-bit generation. `turnedAway` is history.

### ModeUpdates

One session after another on one monitor. `mon` is the table's entry, changed
by `update_modes` and `settle_modes`; `queue`, `wpc` and the locals are the effects
worker in `plug`, `unplug`, `push_targets` and the TDR tasks; `rt` is the `MonitorRt`,
`parked` the copy of a departed monitor, `inflight` is `PUSHES_IN_FLIGHT` and `pnp` the
final exit, step by step where the worker can come between. The token of a
remembered refusal is a flag that falls when the generation it was read under
moves on. `LateEffects` says whether effects and duck-outs of one device may
still be carried out on the next: no plug or update names a device, so the
code allows it. The handler queues its effect in the step that decides it;
`ControlPlane` looks at what happens when it does not.

### TdrDuck

`where` is which collection a monitor is in, `ring` and `frame` its mirror and its
worker, `latch`, `cycles` and `recovery` the shell's fields, `pollers` the
recovery threads, `queue` and `job` the effects worker with the monitor it is at. A
duck or a replug is one step per monitor, because frame workers, pollers and the
final exit run between two of them. A grace period or a budget may run out at
any tick of a poller; an OS that comes back, or does not, is a choice.

### ControlGate

A request is at `lookup`, `caller`, `grant`, `ready` or `dispatch`: the handle table is
looked at three times, each under its lock, with the lock free between, and the
device state may change in between. The authorization ladder
(`authorize_request`, `inspect_token`) is a function of which calls work
and who the caller is. Of the device state there is what the gate can spoil:
which sessions exist, the list each was last given, and what the effects handed
over so far leave of both. `earned`, `offered` and `missed` are history.

### CursorSection

`pc` to `todo` are `cursor_loop` of each worker, `stopped`, `join` and `closed` the
`CursorRt`, `at` and `held` the two threads that start and stop workers (the effects
worker and the power callback), `gen` and `part` the section, `hpc` to `hleft` one try of
`CursorView::shape`. A stop that times out detaches its thread, which may go on
at any later time. Position and visibility, which no protocol guards, are
left out.

## 3. The runs

| Run | Question | Instance |
| --- | --- | --- |
| `ring_safety` | Do the sides ever meet on a slot, is a claim coherent and fresh, is the latest frame never lost, are losses counted, does the ring refine the mailbox? | 3 slots, 4 frames, 2 generations, 1 claim |
| `ring_liveness` | Does the worker finish every frame when the consumer never does anything? | 2 slots, 2 claims, 3 frames |
| `ring_label` | Is the texture a claim *names* left alone? (no) | 2 slots, 1 claim |
| `capture` | Is there one probe, is the ladder worked, is WGC accounted for, is a relapse probed soon and a teardown earned; does a trip end, is a dead ring left and direct encoding restored? | backoff 1, cap 3, 2 stable frames, 2 generations |
| `capture_late_rungs` | Does a late rung leave direct encoding alone? (no) | `LateRungs` |
| `control_identity` | Do connectors stay with identities and does the OS show what the table holds? | 2 host sessions, 1 kept identity, 2 connectors, pool of 1 |
| `control_pool` | Is the pool truthful and kept, is an abandoned session reaped, does a removed session leave the OS? | 1 host session, pool of 2 in 2 settings |
| `control_overlap` | The same as `control_identity` when handlers overlap between decision and queue. (no) | `Serial = FALSE` |
| `control_disband` | Does a count of 0 mean there is no pool? (no) | pool of 2 on 2 connectors |
| `committed` | Is a read never torn, is the record what one commit left, does a lost write clear it, does a token expire with what it was read under? | 2 monitors, 2 modes, 2 slots, 3 threads, 2 and 1 attempts, 2 retries, 2 generations |
| `mode_updates` | Does the table say truthfully which list is in force and why an update is refused, is the offer always usable, is no monitor destroyed in the OS's call, does every update settle? | 2 modes, 2 lists to create with, 2 monitor objects, 2 updates, 1 duck-out, 1 final exit |
| `tdr_duck` | Has one party the duck and every parked monitor a duck, does the good exit strand nobody, does a healthy adapter keep its displays, does every duck end? | 2 monitors on 1 or 2 GPUs, both modes, 1 cycle, 1 reset, 1 request, 1 final exit |

**Why the bounds are enough.** Three slots let one be written, one be held and one
be published at once, the production value; two slots make the "all held" case
reachable with two claims. Four frames wrap the slots once and overwrite
once more; two generations contain every order of one retire against a scan, a
claim, a write and a release, and a second retire finds the state the first one
left. Backoff 1 with cap 3 doubles once below the cap and once past it.
In `ControlPlane` two connectors against three identities force eviction, two
sessions and a watchdog give a plug, an unplug and a second plug of the same connector
in flight together, `MaxAge` 3 allows one acquisition more than
there are connectors, and `MaxEpoch` 1 contains a final exit in every phase of a
bring-up followed by a second device. `MaxQueue` limits how much a handler may
find unserved when it starts, not what it or the worker adds; at 2 an unplug is
still in the queue when the next handler gives its connector away.
In `CommittedPaths` a commit callback, the power callback and the worker are the three
kinds of writer there are; two attempts let a writer lose the token once and
still get it, or give up; two slots are enough for a commit of two paths and
one that overflows into a clear; two generations let a read that
began before a write end after the next. In `ModeUpdates` two updates are one that is
superseded while the other is pushed, one duck-out and one final exit meet a
push at each of its steps, and two objects let the handle of a dead monitor be
given to the next. In `TdrDuck` two monitors are one that is ducked
and one that is not, whose arm the latch may drop; a monitor re-checked when the first duck
ends starts a second one in the same incident, which meets the cycle limit of 1. The proofs of these modules (section 4) do not depend on the bounds.

Deadlock is checked in every run but `tdr_duck`: once the bounded resets, requests and
final exits are spent and no duck is under way, nothing is left to happen
there, which is not an error. Symmetry is used in `committed` alone, over monitors and
modes, which only its safety properties see.

**Fairness.** In `FrameRing` only the worker thread is fair, and only for its own
steps: `WriterNeverWaits` holds although the host, the OS and the GPU may stop
for ever. In `CaptureController` the capture thread samples the ring, makes the
probes it scheduled and reports rungs (weak fairness); reporting a probe has strong
fairness because a WGC session that trips again and again disables it for
the length of each ladder and not for good. In `ControlPlane` the handlers'
second half, the pool loop and the worker are threads that run (weak); the
watchdog has strong fairness since its timer waits for a lock that others take
and release. In `ModeUpdates` only the effects worker is fair, and in `TdrDuck` the
effects worker, the pollers and a frame worker's arming, each weakly: they are threads that
run once they can. The OS, the GPU, the host and the final exit owe nothing.
`CommittedPaths`, `ControlGate` and `CursorSection` state safety only.

**Modules without a run.** `ControlGate` and `CursorSection` are proved about for every value
of their constants (section 4), and what their theorems say was first explored with TLC: `ControlGate` with
2 handles, 1 request, 1 session, 1 pool member, 2 lists and 2 host versions (7.7 million
states), `CursorSection` with 2 arrivals, 1 shape of 1 part and 1 generation (8.3
million states) and with 1 arrival, 2 shapes of 2 parts and 3 generations (616,228
states). To repeat it, write a configuration with `SPECIFICATION Spec`, those constants
and the module's last definitions.

## 4. What is proved

The theorems hold for every value of the constants, from the named assumptions of the
modules; the few that suppose more say so in an `ASSUME` of their own, and below is why. They need TLAPS with its SMT, Zenon and LS4 backends. Each proof has one
lemma for the initial states, one for a step with a case per action, and a temporal
theorem that combines them.

| Module | Theorems (the run's property they prove) |
| --- | --- |
| `FrameRing` | `TypeCorrect` (`TypeOK`), `HeldUntouched` (`HeldTextureUntouched`), `SequencesGrow` (`SequencesAdvance`), `KeysNeverDisagree` (`KeyAgrees`), `NoLossUncounted` (`LossesAreCounted`), `ClaimsSound` (`ClaimsAreSound`), `ClaimsAreFresh`, `NewestNeverLost` (`FreshestSurvives`), `RingIsMailbox` (`IsMailbox`) |
| `CaptureController` | `TypeCorrect`, `WgcIsAccounted` (`WgcAccounted`), `RelapsesProbeSoon`, `TeardownsAreEarned`, `LadderWorks` (`LadderIsWorked`), `OneProbeAtATime` (`OneProbe`) |
| `ControlPlane` | `TypeCorrect` (`TypeOK`), `ConnectorsKept` (`LiveKeepsConnector`), `RoomForAll` (`RoomBelowCap`), `IdentitiesReturn` (`RestartKeepsIdentities`), `PoolTruthful` (`PoolIsTruthful`), `OneEach` (`OneMonitorPerConnector`), `ShellFollows` (`ShellFollowsTable`), `PoolKept` (`PoolIsKept`) |
| `CommittedPaths` | `TypeCorrect`, `ReadsAreWhole` (`ReadIsCurrent`), `RecordIsWhole` (`RecordIsOneCommit`), `LossesClear` (`LossClears`), `TokensExpire` (`TokenExpires`) |
| `ModeUpdates` | `TypeCorrect`, `OfferStands` (`AlwaysActivatable`), `RefusalsAreTrue` (`RefusalIsTrue`), `KeptThroughTheCall` (`NotDestroyedInCall`), `ListsAreTrue` (`InForceIsTruthful`), `PendingHasEffect`, `DisplacedAreDead` |
| `TdrDuck` | `TypeCorrect`, `OneOwner` (`DuckOwnsItsState`), `GoodExitWatches` (`GoodExitStrandsNone`), `HealthyAdapters` (`HealthyAdapterKept`) |
| `ControlGate` | `LadderIsSound`, `LadderReaches`, `TypeCorrect`, `HandlesStartAfresh`, `OnlyGatedChanges`, `EffectsFollowTable`, `NoSilentUpdate` |
| `CursorSection` | `TypeCorrect`, `DepartedAreQuiet`, `EventsOutlive`, `ShapesAreWhole` |

**FrameRing.** Types alone are not inductive: local
variables are typed only at the control points that use them (`Control`).
`SequencesGrow` needs that every sequence in the ring has been issued and that
the one being published lies beyond the header's (`Sequenced`). `HeldUntouched`
needs what the take-CAS leaves true at every later step: the slot of a claim of
the current generation is marked `READING` unless the transport is disabled
(`Guarded`), the slot being written is marked `WRITING` (`WriterMarked`), the
header's generation trails the policy's only while the slots are being reset and
no claim is of a later one (`Generations`), and at most one claim stands
(`OneClaim`). `KeysNeverDisagree` needs that no slot has a history while there are no
textures (`TexturesHeld`).

What a claim carries takes more: every published slot is one the policy knows
(`PolicyKnows`), no sequence stands in two slots (`Distinct`), none is claimed twice
(`TakenOnce`), and nothing is available once the reset loop has passed (`Cleared`).
`ClaimsAreFresh` follows each frame that was visible when the scan began: it lies ahead
of the scan or is bettered by the candidate (`Coming`), or it has been overwritten and then all
that is available is newer (`Overtaken`). `NewestNeverLost` counts: one pass of
the worker over the slots meets at most one being read while the newest is available
(`OneSeenReading`), so with three slots or more it finds another one to write.
`RingIsMailbox` gives for each step of the ring the one step of the mailbox it makes, or
none, and the bound on the number of available frames. `HeldUntouched`,
`ClaimsSound` and `NewestNeverLost` assume `MaxClaims = 1`: a consumer that releases
each claim before it takes the next, as the repository's own consumers do (with two,
section 5 names what can go wrong). The other theorems, the refinement among them, hold for any
number of claims and of slots.

**CaptureController.** The track of a restored stream starts over and counts no more
frames than were delivered (`Track`), and a session that is over leaves nothing behind
(`Over`): that gives the WGC accounting, also with late rungs. `LadderWorks` and
`OneProbeAtATime` suppose `LateRungs = FALSE`, without which they are false.

**ControlPlane.** The
invariant adds three things to the types: the reservations name no connector and
no identity twice and live monitors have distinct identities, or a release
would take another monitor's reservation (`Reserved`); no blob anywhere between a
decision and the registry names one twice, or a restart would drop an entry (the
types of the effects are narrowed to such blobs, `KeptEffects`); and the worker
leaves its task at the head of the queue, whatever handlers add behind it
(`WorkerInv`). `RoomForAll` is a pigeonhole argument: if no reservation could be
evicted, choosing for each connector the live monitor that holds it would be an
injection of the connectors into fewer monitors. `Serial` and `AdapterLoss` are
arbitrary in these proofs: connectors are safe although the order of effects is not.

`PoolTruthful` is of that kind too. Whoever grows the pool has created the members below
its count, and outside of a growth those below the pool's exist (`MembersInv`); that the
startup of a device finds no other startup of its epoch before or behind it is a fact of its own (one
ready task per epoch, `BringUpInv`). The theorem assumes
`HostSessions \cap PoolSessions = {}`: `create` does not refuse a host the lease key of
a member (hazard `session.rs:450`), and a host that used one would close the member with its own session.

The other three assume `Serial = TRUE`, and `control_overlap` shows what becomes of
`ShellFollowsTable` without. Their subject is everything on its way to the worker, in the order it
will be carried out (`Way`): the queue, what a growth has collected, what a caller has
in hand; `SerialInv` makes that one sequence, to which a decision appends and from which the worker takes the
head. `Agree` then relates three things, the monitors shown, the way and the table: a session that is
shown or to be plugged leaves before its session or its connector is plugged again
(`Apart`), leaves at some point or is in the table with that connector (`Lasting`), and each
session of the table comes and stays, or its plug has failed (`Due`). With nothing on
the way, that is `ShellFollowsTable`; at the head of the way it is `OneMonitorPerConnector`. A
device must start with nothing of the one before (`EmptyInv`, `EpochInv`), and until the adapter is
published the way is that of the startup itself.
`PoolKept` looks at the blobs on the same way: each holds a pool that was asked for,
or the one of the registry with nothing but that one before it, and so does the next one
to be written (`Lawful`). It also assumes `AdapterLoss = FALSE`: a bring-up that finds no
adapter counts no members, and the next blob erases the pool (section 5). With an
adapter, a startup has the table to itself and creates them all (`GrowsInv`).

**CommittedPaths.** One thread at most is past its win of the token (`OneWriter`); a slot's
version is odd exactly while its holder stores (`Parity`), so what a reader has
copied under one even version is what the slot holds (`ReadsStable`); what is not yet
overwritten or cleared comes from one commit (`OneCommit`); an update that was turned
away leaves its flag or a clear in progress (`LossIsSeen`), however the writer that lost reached it;
and an answer whose token is current is still recorded unless somebody holds the token
(`AnswerStands`).

**ModeUpdates.** The worker finds its task at the head of the queue at every step
(`Serving`). `KeptThroughTheCall` is the argument of the hand-shake: the push is marked before
the look at the adapter, the exit lowers the adapter before its look at the mark
(`PushMarked`). `OfferStands` follows the lists wherever they are, in the queue, the worker's
locals, the runtime and the parked copy (`MonitorsOffered`, `PlugsOffered`), and rests on
the least of a non-empty set of indices. `RefusalsAreTrue` needs that an update in the queue
is the one its number stands for in the table (`QueueKnown`), that a refusal on its
way from the worker to the table is as true as one that arrived (`RefusalKnown`), and that none is
carried over a departure or a device (`NotCarriedOver`). `PendingHasEffect` needs that the updates in
the queue are in the order of their numbers (`Numbered`), so that settling the head
settles no later one. These leave `LateEffects` arbitrary.

`ListsAreTrue` and `DisplacedAreDead` assume `LateEffects = FALSE`; with it set, TLC
refutes the second, and a late plug brings back the list of a session that is gone. The queue is then a
history of sessions of one id (`Orderly`): plugs and unplugs alternate; before a plug, what there is
of an earlier session is unplugged (`Cleared`); an update that comes before the
session's plug is one the table will not settle, as its number is not above the mark the session was
created with, and every later one is waited for (`Owned`). One duck-out is at work at a time, as task,
poller or replug (`OneDuck`), which is why nothing is parked when a device comes up; the worker's
locals at each of its places are `Placed`. What `ListsAreTrue` says is not inductive: while a push is
between its store and its settlement the monitor is ahead of the table, with the list of the
task at the head, and in between a restore would bring back the table's (`Truthful`).

**TdrDuck.** The latch is up exactly while one of a queued task, a job and a
watching poller exists, never two (`OneParty`); only a device poller ends by the good exit
(`GoodExitIsDevice`); parked monitors have a job that will drain them, a display poller or a
queued replug (`ParkedIsOwned`). Queue and pollers are sequences filtered by kind, so the lemmas
about one element more or less come first. `GoodExitWatches` follows a monitor that was let go
until the latch is free and it has been looked at again (`Watchful`). `HealthyAdapters` follows
the reset of an adapter through everything that may carry a monitor of it to a departure:
the frame worker, the arm's task, the poller's list and the job (`MachineEarned`, `DuckEarned`);
a count of resets never falls.

**ControlGate.** The ladder lets in only SYSTEM and administrators whatever call fails,
and refuses neither. A handle's authorization and handshake date from this open of it, because the OS
closes a handle only when its requests are complete. `EffectsFollowTable` and
`NoSilentUpdate` relate the table to what the effects carry, with the exceptions of section 5
as the history variable `missed`.

**CursorSection.** For every `CursorRt` not yet joined or detached, one of the entry and the
two threads holds it (`Cursors`), whatever a final exit does between two steps of
the effects worker (`Halfway`): `DepartedAreQuiet` and `EventsOutlive` follow. `ShapesAreWhole` is a
seqlock argument that needs one worker writing; its two exceptions are in section 5.

**Only model-checked.** The liveness properties, which rest on fairness and are out of the
prover's reach: `WriterNeverWaits`, `TripEnds`, `DeadRingIsLeft`, `DirectIsRestored`,
`AbandonedIsReaped`, `GoneDeparts`, `EveryUpdateSettles`, `EveryDuckEnds`. Every other property of a
passing run is a theorem, `AlwaysActivatable` and `RoomBelowCap` included, whose
arguments are about sets of any size.

## 5. Findings

Four disagreements between the code and what it says, each with the run that shows it
(`PROJECT.json` "findings" quotes the lines):

* `ring_label`: `claim_latest` reads the header generation after its CAS; a
  retire between the two labels the claim with the new generation, whose texture
  the driver then writes while the claim is held.
* `capture_late_rungs`: a restore does not clear the ladder, so a rung that ends
  after it still moves or fails a healthy direct session.
* `control_overlap`: effects are queued after the lock is released, so two
  handlers' effects may reach the worker in the reverse order of their
  decisions, and a phantom display stays.
* `control_disband`: a growth whose first new member fails counts zero members
  while the old ones live on.

Properties that are stated in the modules, that a comment of the code promises, and that TLC
refutes; no run is kept for them:

* `NothingStale` of `CommittedPaths` (a writer that loses the race "can only ever CLEAR the
  record"): a writer that has used up its attempts flags the record
  after the holder has let go, so what it gave up on stays until the next
  write. Refuted with `AcquireAttempts = ReleaseAttempts = 4`, one slot, one
  monitor, one mode, `MaxGeneration = 6`.
* `DisplacedIsDead` of `ModeUpdates` (the entry a plug displaces is of a dead adapter, `monitors.rs:136`):
  refuted with `LateEffects = TRUE`, when a plug of the previous device is
  carried out on the next.
* `NoPublisherDeparted` of `TdrDuck` (the requalify "departs NOTHING that has come back",
  `control.rs:1335`): the monitors are looked at once and departed one after the other; refuted
  with the constants of `TdrDuck.cfg`.

Smaller observations met on the way, most of them notes of the hazards in `PROJECT.json`:

* Ring and control: the reuse of a slot index by `release` with two claims across a retire, DEAD
  overwritten by a reassignment, a lost take-CAS counted twice, a pool zeroed by a
  bring-up without an adapter, throwaway reservations in the blob.
* Monitors: `unplug` forgets the committed mode before the departure (`monitors.rs:241`), so a
  commit between the two records the departing object again, until the next commit replaces it; a plug whose
  arrival fails removes its entry without marking the ring dead (`monitors.rs:160`).
* Duck: while one duck holds the latch, arms of monitors on another adapter are dropped, and
  only the good exit looks for them again.
* Gate: a reply buffer that is too short drops the effects of a DESTROY_MONITOR, CREATE_MONITOR or
  SET_PERMANENT_POOL whose change to the table stands; a request past its adapter
  check that is dispatched after a final exit has reset the table leaves sessions
  without monitors, which the next bring-up does not plug. `HandleCtx.authorized` is
  documented as set when the handle is opened (`dispatch.rs:88`) and is set on its first
  request.
* Cursor: a copy that overlaps the zeroing of a re-created section may be accepted
  half zeroed, and so may one of a section whose detached worker still writes it: the two
  exceptions of `CopyIsWhole`. A detached worker may still query a departed monitor
  (against the comment at `cursor.rs:396`). The worker re-checks its flag after waits of up to 1000 ms in the set-up retry,
  longer than the 500 ms a stop waits and than the 100 ms of its comment (`cursor.rs:168`). A duck-out the OS refuses hands
  a stopped cursor back to the monitor that stays.

## 6. Not modelled, and what is left

The following have no state whose order matters: EDID bytes, adapter enumeration and choice, protocol layouts, and the OS
bindings are pure functions, declarations or queries; the C interface forwards to the host
library, whose device handle marshals requests; the probe and stress tools and the packaging are
not part of the running system. `PROJECT.json` gives the reason component by component.

Two components are modelled in part: of the persistence blob its contents and its times, not its bytes;
of the driver entry the bring-up and the final exit, not the tracing of D0 entry or `StartMark`.

What could be added:

| Next | What it would show |
| --- | --- |
| `ShellFollowsTable` for handlers that overlap only on different sessions | how much of `Serial` the code could enforce |
| `ModeUpdates` and `TdrDuck` on the queue of `ControlPlane` | settle and duck while handlers overlap |
| a late `InitFinished` against the mark of `entry.rs` (212 and 324) | a late callback never publishes a destroyed adapter |
| the stores of `CommittedPaths` and `FrameRing` on a machine that reorders them | ARM |
