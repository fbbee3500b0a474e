------------------------------ MODULE FrameRing ------------------------------
(***************************************************************************)
(* The shared frame ring of one monitor: the driver's frame worker (the    *)
(* writer) and the host's capture backend (the reader) over one section of *)
(* shared memory.                                                          *)
(*                                                                         *)
(* The writer decides with a private RingPolicy and executes against the   *)
(* shared slot states; the reader claims the freshest published slot by a  *)
(* compare-and-swap on the same states.  Every step below is one access to *)
(* shared memory (private work of a thread is merged into the access next  *)
(* to it), so all interleavings of the two sides are explored.             *)
(***************************************************************************)
EXTENDS Naturals, FiniteSets

CONSTANTS
  NSlots,     \* slots of the ring; RingPolicy::new clamps it to 2..8
  MaxFrames,  \* bound: frames the worker publishes
  MaxGen,     \* bound: ring generations
  MaxClaims   \* claims the consumer holds at a time

ASSUME NSlotsAssumption == NSlots \in Nat /\ NSlots >= 2
ASSUME BoundsAssumption == MaxFrames \in Nat /\ MaxGen \in Nat \ {0}
ASSUME MaxClaimsAssumption == MaxClaims \in Nat \ {0}

Slots == 0 .. NSlots - 1
NoSlot == NSlots

VARIABLES
  \* RingPolicy, private to the writer
  pol,        \* slot -> the policy's view of the slot
  nextSeq,    \* next_sequence
  gen,        \* generation
  \* FrameRing, private to the worker that holds its mutex
  transport,  \* active_transport_flags: keyed mutex, fence, or fence required
  textures,   \* textures of the current generation exist
  everPub,    \* ever_published
  assigned,   \* assigned_before
  retired,    \* retired_for_reassign
  disabled,   \* transport_disabled
  key,        \* slot -> key its texture's keyed mutex was last released at
  \* the worker
  stop,       \* its stop flag
  gone,       \* the monitor was unplugged
  firstFrame, \* first_frame_published, local to frame_loop
  wpc,        \* where the worker is
  widx,       \* loop index over the slots
  wslot,      \* the slot being written
  wnext,      \* where the worker goes once the slots are reset
  wres,       \* what publish_frame returned
  \* the shared section
  shState,    \* SlotMetadata.state
  shSeq,      \* SlotMetadata.sequence
  hdrState,   \* RingHeader.state
  hdrGen,     \* RingHeader.ring_generation
  hdrLatest,  \* RingHeader.latest_sequence
  \* RingLive, the lock-free mirror
  live,       \* mirrored ring state
  workerLive, \* worker_live
  \* the host
  hpc, hidx,
  cand,       \* slot of the best candidate of the scan, then of the claim
  candSeq,    \* sequence seen there by the scan
  tries,      \* scans begun in this claim_latest
  claimSeq,   \* sequence re-read for the claim
  claims,     \* the ClaimedFrames not yet released
  delivered,  \* greatest sequence the consumer has used
  \* history
  counted,    \* what this frame has added to frames_dropped
  lost,       \* frames this one has really cost the reader
  truth,      \* sequence and generation of the frame the claim CAS took
  visible     \* frames that were available when the current scan began

policyVars == <<pol, nextSeq, gen>>
ringVars   == <<transport, textures, everPub, assigned, retired, disabled, key>>
lifeVars   == <<stop, gone, firstFrame>>
pcVars     == <<wpc, widx, wslot, wnext, wres>>
slotVars   == <<shState, shSeq>>
hdrVars    == <<hdrState, hdrGen, hdrLatest>>
liveVars   == <<live, workerLive>>
tallyVars  == <<counted, lost>>
hostVars   == <<hpc, hidx, cand, candSeq, tries, claimSeq, claims, delivered,
                truth, visible>>
vars == <<policyVars, ringVars, lifeVars, pcVars, slotVars, hdrVars, liveVars,
          tallyVars, hostVars>>

RingStates == {"REBUILDING", "ACTIVE", "DEAD"}
SlotStates == {"FREE", "WRITING", "PUBLISHED", "READING"}
PolicyStates == {"Free", "Writing", "Published", "Reading"}
Transports == {"keyed", "fence", "required"}
Results == {"none", "published", "error", "lost"}
AfterReset == {"none", "start", "textures", "exit", "dead", "quiet"}
WorkerPcs == {"none", "start", "idle", "reset", "setgen", "exit", "dead",
              "textures", "reconcile", "take", "lock", "copy", "state",
              "header", "return"}
HostPcs == {"idle", "scan", "scanSeq", "reread", "regen"}
Claims == [slot : Slots, seq : Nat, gen : Nat, truth : [seq : Nat, gen : Nat]]

PolicyTypes ==
  /\ pol \in [Slots -> PolicyStates]
  /\ nextSeq \in Nat \ {0} /\ gen \in Nat \ {0}
RingTypes ==
  /\ transport \in Transports
  /\ everPub \in [Slots -> BOOLEAN] /\ key \in [Slots -> {0, 1}]
  /\ textures \in BOOLEAN /\ assigned \in BOOLEAN
  /\ retired \in BOOLEAN /\ disabled \in BOOLEAN
WorkerTypes ==
  /\ stop \in BOOLEAN /\ gone \in BOOLEAN /\ firstFrame \in BOOLEAN
  /\ wpc \in WorkerPcs /\ widx \in Slots /\ wslot \in Slots \cup {NoSlot}
  /\ wnext \in AfterReset /\ wres \in Results
SectionTypes ==
  /\ shState \in [Slots -> SlotStates] /\ shSeq \in [Slots -> Nat]
  /\ hdrState \in RingStates /\ hdrGen \in Nat \ {0} /\ hdrLatest \in Nat
  /\ live \in RingStates /\ workerLive \in BOOLEAN
HostTypes ==
  /\ hpc \in HostPcs /\ hidx \in 0 .. NSlots
  /\ cand \in Slots \cup {NoSlot} /\ candSeq \in Nat /\ tries \in 0 .. NSlots + 1
  /\ claimSeq \in Nat /\ claims \subseteq Claims /\ delivered \in Nat
  /\ truth \in [seq : Nat, gen : Nat] /\ visible \subseteq Nat
TypeOK ==
  /\ PolicyTypes /\ RingTypes /\ WorkerTypes /\ SectionTypes /\ HostTypes
  /\ counted \in Nat /\ lost \in Nat

(* RingPolicy::new, RingSection::create, FrameRing::new, RingLive::new.  The
   transport is what create asked for. *)
Init ==
  /\ pol = [i \in Slots |-> "Free"] /\ nextSeq = 1 /\ gen = 1
  /\ transport \in Transports
  /\ textures = FALSE /\ everPub = [i \in Slots |-> FALSE]
  /\ assigned = FALSE /\ retired = FALSE /\ disabled = FALSE
  /\ key = [i \in Slots |-> 0]
  /\ stop = FALSE /\ gone = FALSE /\ firstFrame = FALSE
  /\ wpc = "none" /\ widx = 0 /\ wslot = NoSlot /\ wnext = "none" /\ wres = "none"
  /\ shState = [i \in Slots |-> "FREE"] /\ shSeq = [i \in Slots |-> 0]
  /\ hdrState = "REBUILDING" /\ hdrGen = 1 /\ hdrLatest = 0
  /\ live = "REBUILDING" /\ workerLive = FALSE
  /\ hpc = "idle" /\ hidx = 0 /\ cand = NoSlot /\ candSeq = 0 /\ tries = 0
  /\ claimSeq = 0 /\ claims = {} /\ delivered = 0
  /\ counted = 0 /\ lost = 0 /\ truth = [seq |-> 0, gen |-> 0] /\ visible = {}

-----------------------------------------------------------------------------
(* RingPolicy.  The payload of Published(seq) is shSeq: one step (Copy)
   writes both, and nobody else writes either. *)

FreeSlots      == {i \in Slots : pol[i] = "Free"}
PublishedSlots == {i \in Slots : pol[i] = "Published"}

(* writer_acquire: the first free slot ... *)
IsFirstFree(i) == i \in FreeSlots /\ \A j \in FreeSlots : i <= j
(* ... else the published slot with the lowest sequence. *)
IsNewest(i) ==
  i \in PublishedSlots /\ \A j \in PublishedSlots : shSeq[j] <= shSeq[i]
IsOldest(i) ==
  i \in PublishedSlots /\ \A j \in PublishedSlots : shSeq[i] <= shSeq[j]

(* reconcile_shared *)
RawReconciled(p, shared) == IF shared = "READING" THEN shared ELSE p
Reconciled(p, shared) ==
  IF shared = "READING" /\ p \in {"Published", "Free"} THEN "Reading"
  ELSE IF shared = "FREE" /\ p \in {"Published", "Reading"} THEN "Free"
  ELSE p

(* writer_abort *)
Aborted(i) == [pol EXCEPT ![i] = "Free"]

(* rebuild leaves next_sequence alone *)
RestartedSeq == 1
ContinuedSeq == nextSeq

-----------------------------------------------------------------------------
(* Pieces of the worker's steps *)

(* Enter the loop over the slots at control point pc. *)
Loop(pc) == wpc' = pc /\ widx' = 0
(* Advance the loop; after the last slot go to pc. *)
Advance(pc) ==
  IF widx + 1 = NSlots THEN wpc' = pc /\ widx' = 0
                       ELSE widx' = widx + 1 /\ UNCHANGED wpc

(* FrameRing::retire_textures: textures and per-slot history dropped and the
   policy rebuilt here; ResetSlot and SetGeneration store the rest. *)
KeptHistory  == everPub
ClearHistory == [i \in Slots |-> FALSE]
Retire(next) ==
  /\ gen < MaxGen
  /\ textures' = FALSE
  /\ everPub' = ClearHistory
  /\ pol' = [i \in Slots |-> "Free"]
  /\ gen' = gen + 1
  /\ nextSeq' = ContinuedSeq
  /\ wnext' = next
  /\ Loop("reset")

(* FrameRing::disable_transport: ResetSlot and MarkDead store the rest. *)
DisableTransport(next) ==
  /\ disabled' = TRUE
  /\ textures' = FALSE
  /\ wnext' = next
  /\ Loop("reset")

(* Return from publish_frame. *)
Return(result) == wpc' = "return" /\ wres' = result /\ wslot' = NoSlot

(* An error is either a device loss or a failure of the transport alone. *)
Errors == {"error"} \cup (IF gen < MaxGen THEN {"lost"} ELSE {})

(* writer_abort and reset_slot_free: the slot taken is given back. *)
QuietAbort(result) ==
  /\ pol' = Aborted(wslot)
  /\ shState' = [shState EXCEPT ![wslot] = "FREE"]
  /\ lost' = lost + 1 /\ UNCHANGED counted
  /\ Return(result)
AbortWrite(result) ==
  /\ pol' = Aborted(wslot)
  /\ shState' = [shState EXCEPT ![wslot] = "FREE"]
  /\ counted' = counted + 1
  /\ lost' = lost + 1
  /\ Return(result)

-----------------------------------------------------------------------------
(* The worker: assignment and the reset of the slots *)

FreshLoop ==
  /\ assigned' = TRUE /\ retired' = FALSE /\ stop' = FALSE
  /\ firstFrame' = FALSE

(* frame_loop holds a device and the ring mutex: a first assignment, or one
   whose predecessor already retired the textures. *)
Assign ==
  /\ wpc = "none" /\ ~gone
  /\ ~assigned \/ retired
  /\ FreshLoop
  /\ wpc' = "start"
  /\ UNCHANGED <<policyVars, transport, textures, everPub, disabled, key, gone,
                 widx, wslot, wnext, wres, slotVars, hdrVars, liveVars,
                 tallyVars, hostVars>>

(* A reassignment retires the previous device's textures first. *)
Reassign ==
  /\ wpc = "none" /\ ~gone
  /\ assigned /\ ~retired
  /\ Retire("start")
  /\ FreshLoop
  /\ UNCHANGED <<transport, disabled, key, gone, wslot, wres, slotVars, hdrVars,
                 liveVars, tallyVars, hostVars>>

(* Device creation fails with a device loss (device-duck mode):
   mark_ring_rebuilding_arc, and the worker ends. *)
DeviceCreateFails ==
  /\ wpc = "none" /\ ~gone
  /\ live' = "REBUILDING" /\ hdrState' = "REBUILDING"
  /\ UNCHANGED <<policyVars, ringVars, lifeVars, pcVars, slotVars, hdrGen,
                 hdrLatest, workerLive, tallyVars, hostVars>>

StartLoop ==
  /\ wpc = "start"
  /\ hdrState' = "REBUILDING" /\ live' = "REBUILDING" /\ workerLive' = TRUE
  /\ wpc' = "idle"
  /\ UNCHANGED <<policyVars, ringVars, lifeVars, widx, wslot, wnext, wres,
                 slotVars, hdrGen, hdrLatest, tallyVars, hostVars>>

(* RingSection::reset_slots, one store per slot. *)
ResetSlot ==
  /\ wpc = "reset"
  /\ shState' = [shState EXCEPT ![widx] = "FREE"]
  /\ Advance(IF wnext \in {"dead", "quiet"} THEN "dead" ELSE "setgen")
  /\ UNCHANGED <<policyVars, ringVars, lifeVars, wslot, wnext, wres, shSeq,
                 hdrVars, liveVars, tallyVars, hostVars>>

SetGeneration ==
  /\ wpc = "setgen"
  /\ hdrGen' = gen
  /\ wpc' = wnext /\ wnext' = "none"
  /\ UNCHANGED <<policyVars, ringVars, lifeVars, widx, wslot, wres, slotVars,
                 hdrState, hdrLatest, liveVars, tallyVars, hostVars>>

(* The end of disable_transport.  frame_loop follows it with publish_state;
   publish_frame ("quiet") does not. *)
MarkDead ==
  /\ wpc = "dead"
  /\ hdrState' = "DEAD"
  /\ \/ /\ wnext = "dead"
        /\ live' = "DEAD" /\ wpc' = "idle"
        /\ UNCHANGED <<wres, wslot>>
     \/ /\ wnext = "quiet"
        /\ Return("none")
        /\ UNCHANGED live
  /\ wnext' = "none"
  /\ UNCHANGED <<policyVars, ringVars, lifeVars, widx, slotVars, hdrGen,
                 hdrLatest, workerLive, tallyVars, hostVars>>

(* Device loss in frame_loop, and its end once the textures are retired. *)
AbandonSwapchain ==
  /\ hdrState' = "REBUILDING"
  /\ Retire("exit")
  /\ wslot' = NoSlot /\ wres' = "none" /\ counted' = 0 /\ lost' = 0

AcquireFails ==
  /\ wpc = "idle" /\ ~stop
  /\ AbandonSwapchain
  /\ UNCHANGED <<transport, assigned, retired, disabled, key, lifeVars, slotVars,
                 hdrGen, hdrLatest, liveVars, hostVars>>

ExitLost ==
  /\ wpc = "exit"
  /\ retired' = TRUE
  /\ live' = "REBUILDING" /\ workerLive' = FALSE
  /\ wpc' = "none"
  /\ UNCHANGED <<policyVars, transport, textures, everPub, assigned, disabled,
                 key, lifeVars, widx, wslot, wnext, wres, slotVars, hdrVars,
                 tallyVars, hostVars>>

-----------------------------------------------------------------------------
(* The worker: publish_frame *)

TransportOff == disabled

(* A frame is acquired; "changed" says its size or format is a new one. *)
FrameReady(changed) ==
  /\ wpc = "idle" /\ ~stop
  /\ nextSeq <= MaxFrames
  /\ \/ /\ TransportOff
        /\ Return("none")
        /\ UNCHANGED <<policyVars, textures, everPub, widx, wnext>>
     \/ /\ ~TransportOff /\ textures /\ changed
        /\ Retire("textures")
        /\ UNCHANGED <<wslot, wres>>
     \/ /\ ~TransportOff /\ textures /\ ~changed
        /\ Loop("reconcile")
        /\ UNCHANGED <<policyVars, textures, everPub, wslot, wnext, wres>>
     \/ /\ ~TransportOff /\ ~textures
        /\ wpc' = "textures"
        /\ UNCHANGED <<policyVars, textures, everPub, widx, wslot, wnext, wres>>
  /\ UNCHANGED <<transport, assigned, retired, disabled, key, lifeVars, slotVars,
                 hdrVars, liveVars, tallyVars, hostVars>>

(* The textures, and the fence of a fence transport, are provisioned.  A
   fence that was only preferred falls back to keyed mutexes. *)
CreateTextures ==
  /\ wpc = "textures"
  /\ transport' \in {transport} \cup (IF transport = "fence" THEN {"keyed"} ELSE {})
  /\ textures' = TRUE
  /\ key' = [i \in Slots |-> 0]
  /\ Loop("reconcile")
  /\ UNCHANGED <<policyVars, everPub, assigned, retired, disabled, lifeVars,
                 wslot, wnext, wres, slotVars, hdrVars, liveVars, tallyVars,
                 hostVars>>

CreateTexturesFails ==
  /\ wpc = "textures"
  /\ \/ /\ transport = "required"
        /\ DisableTransport("quiet")
        /\ UNCHANGED <<transport, wslot, wres>>
     \/ /\ transport # "required"
        /\ transport' = "keyed"
        /\ \E e \in Errors : Return(e)
        /\ UNCHANGED <<textures, disabled, widx, wnext>>
  /\ UNCHANGED <<policyVars, everPub, assigned, retired, key, lifeVars, slotVars,
                 hdrVars, liveVars, tallyVars, hostVars>>

ReconcileSlot ==
  /\ wpc = "reconcile"
  /\ pol' = [pol EXCEPT ![widx] = Reconciled(pol[widx], shState[widx])]
  /\ Advance("take")
  /\ UNCHANGED <<nextSeq, gen, ringVars, lifeVars, wslot, wnext, wres, slotVars,
                 hdrVars, liveVars, tallyVars, hostVars>>

(* writer_acquire's choice, and what it says of the slot. *)
Chosen(i) == IsFirstFree(i) \/ (FreeSlots = {} /\ IsOldest(i))
Expected(i) == IF pol[i] = "Free" THEN "FREE" ELSE "PUBLISHED"
Overwritten(i) == IF pol[i] = "Free" THEN 0 ELSE 1

(* try_take_slot_writing: the take-CAS.  If the host claimed the slot after it
   was reconciled the write is aborted, which counts a drop on top of the one
   counted for the overwrite. *)
BlindTake(i) == TRUE
CanTake(i)   == shState[i] = Expected(i)
Take(i) ==
  /\ wpc = "take" /\ Chosen(i)
  /\ \/ /\ CanTake(i)
        /\ pol' = [pol EXCEPT ![i] = "Writing"]
        /\ shState' = [shState EXCEPT ![i] = "WRITING"]
        /\ counted' = counted + Overwritten(i) /\ lost' = lost + Overwritten(i)
        /\ wslot' = i /\ wpc' = "lock"
        /\ UNCHANGED wres
     \/ /\ ~CanTake(i)
        /\ pol' = Aborted(i)
        /\ counted' = counted + Overwritten(i) + 1 /\ lost' = lost + 1
        /\ Return("none")
        /\ UNCHANGED shState
  /\ UNCHANGED <<nextSeq, gen, ringVars, lifeVars, widx, wnext, shSeq, hdrVars,
                 liveVars, hostVars>>

(* No slot is free or published: the frame is dropped, the writer goes on. *)
WaitForReader == FALSE
NothingToTake == FreeSlots = {} /\ PublishedSlots = {}
DropFrame ==
  /\ wpc = "take"
  /\ NothingToTake
  /\ counted' = counted + 1 /\ lost' = lost + 1
  /\ Return("none")
  /\ UNCHANGED <<policyVars, ringVars, lifeVars, widx, wnext, slotVars, hdrVars,
                 liveVars, hostVars>>

(* acquire_mutex at the key the slot must be at, then the stop re-check. *)
ExpectedKey(i) == IF everPub[i] THEN 1 ELSE 0
LockSlot ==
  /\ wpc = "lock"
  /\ transport = "keyed" => key[wslot] = ExpectedKey(wslot)
  /\ IF stop THEN AbortWrite("none")
             ELSE wpc' = "copy" /\ UNCHANGED <<pol, shState, tallyVars, wres, wslot>>
  /\ UNCHANGED <<nextSeq, gen, ringVars, lifeVars, widx, wnext, shSeq, hdrVars,
                 liveVars, hostVars>>

(* acquire_mutex times out, or reports the device lost. *)
LockFails ==
  /\ wpc = "lock"
  /\ transport = "keyed"
  /\ \E r \in {"none"} \cup (Errors \cap {"lost"}) : AbortWrite(r)
  /\ UNCHANGED <<nextSeq, gen, ringVars, lifeVars, widx, wnext, shSeq, hdrVars,
                 liveVars, hostVars>>

(* CopyResource, then the fence signal or ReleaseSync at key 1, then the
   policy's publish and the first stores of slot_published. *)
Copy ==
  /\ wpc = "copy"
  /\ key' = IF transport = "keyed" THEN [key EXCEPT ![wslot] = 1] ELSE key
  /\ everPub' = [everPub EXCEPT ![wslot] = TRUE]
  /\ pol' = [pol EXCEPT ![wslot] = "Published"]
  /\ nextSeq' = nextSeq + 1
  /\ shSeq' = [shSeq EXCEPT ![wslot] = nextSeq]
  /\ wpc' = "state"
  /\ UNCHANGED <<gen, transport, textures, assigned, retired, disabled, lifeVars,
                 widx, wslot, wnext, wres, shState, hdrVars, liveVars, tallyVars,
                 hostVars>>

(* A failed ReleaseSync gives the slot back; a failed fence signal returns
   with the slot still WRITING. *)
CopyFails ==
  /\ wpc = "copy"
  /\ \E e \in Errors :
       \/ transport = "keyed" /\ AbortWrite(e)
       \/ /\ transport # "keyed"
          /\ Return(e)
          /\ lost' = lost + 1
          /\ UNCHANGED <<pol, shState, counted>>
  /\ UNCHANGED <<nextSeq, gen, ringVars, lifeVars, widx, wnext, shSeq, hdrVars,
                 liveVars, hostVars>>

(* The release store of PUBLISHED, last of the slot's metadata ... *)
MarkPublished ==
  /\ wpc = "state"
  /\ shState' = [shState EXCEPT ![wslot] = "PUBLISHED"]
  /\ wpc' = "header"
  /\ UNCHANGED <<policyVars, ringVars, lifeVars, widx, wslot, wnext, wres, shSeq,
                 hdrVars, liveVars, tallyVars, hostVars>>

(* ... and the header after it. *)
StoreLatest ==
  /\ wpc = "header"
  /\ hdrLatest' = shSeq[wslot]
  /\ Return("published")
  /\ UNCHANGED <<policyVars, ringVars, lifeVars, widx, wnext, slotVars, hdrState,
                 hdrGen, liveVars, tallyVars, hostVars>>

(* The rest of the loop body of frame_loop. *)
FinishFrame ==
  /\ wpc = "return"
  /\ \/ /\ stop
        /\ wpc' = "none" /\ workerLive' = FALSE
        /\ UNCHANGED <<policyVars, textures, everPub, disabled, firstFrame, widx,
                       wnext, hdrState, live>>
     \/ /\ ~stop /\ wres \in {"none", "published"}
        /\ wpc' = "idle"
        /\ firstFrame' = (firstFrame \/ wres = "published")
        /\ IF firstFrame' # firstFrame
             THEN hdrState' = "ACTIVE" /\ live' = "ACTIVE"
             ELSE UNCHANGED <<hdrState, live>>
        /\ UNCHANGED <<policyVars, textures, everPub, disabled, widx, wnext,
                       workerLive>>
     \/ /\ ~stop /\ wres = "lost"
        /\ AbandonSwapchain
        /\ UNCHANGED <<disabled, firstFrame, liveVars>>
     \/ /\ ~stop /\ wres = "error"
        /\ DisableTransport("dead")
        /\ UNCHANGED <<policyVars, everPub, firstFrame, hdrState, liveVars>>
  /\ wslot' = NoSlot /\ wres' = "none" /\ counted' = 0 /\ lost' = 0
  /\ UNCHANGED <<transport, assigned, retired, key, stop, gone, slotVars, hdrGen,
                 hdrLatest, hostVars>>

-----------------------------------------------------------------------------
(* What other driver threads do to the worker *)

(* Worker::stop, from an unassign or a replacement assignment. *)
RequestStop ==
  /\ wpc # "none" /\ ~stop
  /\ stop' = TRUE
  /\ UNCHANGED <<policyVars, ringVars, gone, firstFrame, pcVars, slotVars,
                 hdrVars, liveVars, tallyVars, hostVars>>

(* The loop head sees the flag, and LiveMark is dropped. *)
WorkerStops ==
  /\ wpc = "idle" /\ stop
  /\ wpc' = "none" /\ workerLive' = FALSE
  /\ UNCHANGED <<policyVars, ringVars, lifeVars, widx, wslot, wnext, wres,
                 slotVars, hdrVars, live, tallyVars, hostVars>>

(* The monitor is unplugged: mark_ring_dead_arc.  The section is marked only
   if the worker has let go of the ring mutex. *)
Unplug ==
  /\ ~gone
  /\ gone' = TRUE
  /\ stop' = TRUE
  /\ live' = "DEAD"
  /\ hdrState' = IF wpc = "none" THEN "DEAD" ELSE hdrState
  /\ UNCHANGED <<policyVars, ringVars, firstFrame, pcVars, slotVars, hdrGen,
                 hdrLatest, workerLive, tallyVars, hostVars>>

-----------------------------------------------------------------------------
(* The host: RingView::claim_latest and release *)

Available == {i \in Slots : shState[i] = "PUBLISHED"}

BeginScan ==
  /\ hpc' = "scan" /\ hidx' = 0 /\ cand' = NoSlot /\ candSeq' = 0
  /\ tries' = tries + 1
  /\ visible' = {shSeq[i] : i \in Available}

ClaimOver ==
  /\ hpc' = "idle" /\ hidx' = 0 /\ cand' = NoSlot /\ candSeq' = 0 /\ tries' = 0
  /\ claimSeq' = 0 /\ truth' = [seq |-> 0, gen |-> 0] /\ visible' = {}

driverVars == <<policyVars, ringVars, lifeVars, pcVars, shSeq, hdrVars, liveVars,
                tallyVars>>

BeginClaim ==
  /\ hpc = "idle"
  /\ Cardinality(claims) < MaxClaims
  /\ BeginScan
  /\ UNCHANGED <<driverVars, shState, claimSeq, claims, delivered, truth>>

(* The state of a slot is read, and only later its sequence. *)
ScanState ==
  /\ hpc = "scan" /\ hidx < NSlots
  /\ IF shState[hidx] = "PUBLISHED" THEN hpc' = "scanSeq" /\ UNCHANGED hidx
                                    ELSE hidx' = hidx + 1 /\ UNCHANGED hpc
  /\ UNCHANGED <<driverVars, shState, cand, candSeq, tries, claimSeq, claims,
                 delivered, truth, visible>>

Fresher(s) == cand = NoSlot \/ s > candSeq
ScanSeq ==
  /\ hpc = "scanSeq"
  /\ IF Fresher(shSeq[hidx]) THEN cand' = hidx /\ candSeq' = shSeq[hidx]
                             ELSE UNCHANGED <<cand, candSeq>>
  /\ hpc' = "scan" /\ hidx' = hidx + 1
  /\ UNCHANGED <<driverVars, shState, tries, claimSeq, claims, delivered, truth,
                 visible>>

NothingPublished ==
  /\ hpc = "scan" /\ hidx = NSlots
  /\ cand = NoSlot
  /\ ClaimOver
  /\ UNCHANGED <<driverVars, shState, claims, delivered>>

(* PUBLISHED -> READING; if the driver took the slot, rescan at most once
   per slot. *)
ClaimCas ==
  /\ hpc = "scan" /\ hidx = NSlots
  /\ cand # NoSlot
  /\ \/ /\ shState[cand] = "PUBLISHED"
        /\ shState' = [shState EXCEPT ![cand] = "READING"]
        /\ truth' = [seq |-> shSeq[cand], gen |-> hdrGen]
        /\ hpc' = "reread"
        /\ UNCHANGED <<hidx, cand, candSeq, tries, claimSeq, visible>>
     \/ /\ shState[cand] # "PUBLISHED"
        /\ tries <= NSlots
        /\ BeginScan
        /\ UNCHANGED <<shState, claimSeq, truth>>
     \/ /\ shState[cand] # "PUBLISHED"
        /\ tries > NSlots
        /\ ClaimOver
        /\ UNCHANGED shState
  /\ UNCHANGED <<driverVars, claims, delivered>>

(* The metadata is read again under READING ... *)
ScannedLabel == candSeq
ClaimLabel == shSeq[cand]
RereadSlot ==
  /\ hpc = "reread"
  /\ claimSeq' = ClaimLabel
  /\ hpc' = "regen"
  /\ UNCHANGED <<driverVars, shState, hidx, cand, candSeq, tries, claims,
                 delivered, truth, visible>>

(* ... then the header generation, and the claim is returned. *)
ReadGeneration ==
  /\ hpc = "regen"
  /\ claims' = claims \cup
       {[slot |-> cand, seq |-> claimSeq, gen |-> hdrGen, truth |-> truth]}
  /\ ClaimOver
  /\ UNCHANGED <<driverVars, shState, delivered>>

(* release: READING -> FREE, if the slot is still READING.  The consumer uses
   the frame first unless the header generation has moved on. *)
Release(c) ==
  /\ hpc = "idle"
  /\ claims' = claims \ {c}
  /\ delivered' = IF c.gen = hdrGen /\ c.seq > delivered THEN c.seq ELSE delivered
  /\ shState' = IF shState[c.slot] = "READING"
                  THEN [shState EXCEPT ![c.slot] = "FREE"] ELSE shState
  /\ UNCHANGED <<driverVars, hpc, hidx, cand, candSeq, tries, claimSeq, truth, visible>>

-----------------------------------------------------------------------------
WorkerStep ==
  \/ StartLoop \/ ResetSlot \/ SetGeneration \/ MarkDead \/ ExitLost
  \/ CreateTextures \/ CreateTexturesFails
  \/ ReconcileSlot
  \/ (\E i \in Slots : Take(i)) \/ DropFrame
  \/ LockSlot \/ LockFails \/ Copy \/ CopyFails
  \/ MarkPublished \/ StoreLatest \/ FinishFrame \/ WorkerStops

SystemStep ==
  \/ Assign \/ Reassign \/ DeviceCreateFails \/ AcquireFails
  \/ \E changed \in BOOLEAN : FrameReady(changed)
  \/ RequestStop \/ Unplug

HostStep ==
  \/ BeginClaim \/ ScanState \/ ScanSeq \/ NothingPublished \/ ClaimCas
  \/ RereadSlot \/ ReadGeneration
  \/ \E c \in claims : Release(c)

Next == WorkerStep \/ SystemStep \/ HostStep

Spec == Init /\ [][Next]_vars

(* The worker thread runs whenever it has a step of its own; nothing is
   assumed of the host, the OS or the GPU. *)
FairSpec == Spec /\ WF_vars(WorkerStep)

-----------------------------------------------------------------------------
(* Properties *)

(* The frames the host has claimed and not released: slot, and the sequence
   and generation the claim CAS really took.  The last may still be on its
   way to a ClaimedFrame. *)
InClaim == hpc \in {"reread", "regen"}
Held == {[slot |-> c.slot, truth |-> c.truth] : c \in claims}
          \cup (IF InClaim THEN {[slot |-> cand, truth |-> truth]} ELSE {})

(* The writer owns a slot, from the take-CAS until it is published. *)
Writing == wpc \in {"lock", "copy", "state"}

(* "A slot the host holds is never touched by the writer" (core/ring.rs,
   invariant 3): while the textures the host claimed from are the current
   ones, the writer is not between taking and publishing that slot. *)
HeldTextureUntouched ==
  Writing => \A h \in Held : h.truth.gen = gen => h.slot # wslot

(* A claim is labelled with the sequence of the frame the CAS really took,
   whatever the scan saw before it (RingView::claim_latest re-reads the slot),
   unless the ring was retired under the claim. *)
ClaimCoherent ==
  \A c \in claims : c.truth.gen = gen => c.seq = c.truth.seq

(* A claim never yields a frame older than the freshest that was available
   when its scan began ("streams want freshness"), even though the writer
   overwrites slots behind the scan. *)
ClaimIsFresh ==
  InClaim /\ truth.gen = gen /\ ~disabled => \A s \in visible : truth.seq >= s

(* A claim is what it says it is: that one frame, and none older than it need
   be (RingView::claim_latest). *)
ClaimsAreSound == ClaimCoherent /\ ClaimIsFresh

(* With two slots more than the consumer holds at a time, the frame the header
   names as latest can always still be claimed once the worker is idle, unless
   the consumer has it: aborted writes and lost races cost older frames only. *)
FreshestSurvives ==
  /\ NSlots >= MaxClaims + 2
  /\ wpc = "idle" /\ hpc = "idle" /\ claims = {} /\ ~disabled
  /\ \E i \in Slots : everPub[i]
  /\ hdrLatest > delivered
  => \E i \in Slots : shState[i] = "PUBLISHED" /\ shSeq[i] = hdrLatest

(* The key publish_frame asks each keyed mutex for is the key it was last
   released at, so an acquire can time out only because the host holds it. *)
KeyAgrees ==
  textures /\ transport = "keyed" => \A i \in Slots : key[i] = ExpectedKey(i)

(* Sequences are monotonic across drops and across generation bumps
   (core/ring.rs, invariant 2): the header's latest_sequence never returns to
   a value it has had. *)
SequencesAdvance ==
  [][hdrLatest' # hdrLatest => hdrLatest' > hdrLatest]_hdrLatest

(* The writer never waits for the reader (core/ring.rs, invariant 1): a frame
   being published is finished by the worker's own steps, with no fairness
   assumed of the host. *)
WriterNeverWaits ==
  wpc \in {"reconcile", "take", "lock", "copy", "state", "header"}
    ~> wpc \in {"return", "idle", "none"}

(* The ring is a mailbox that drops its oldest frame (FrameMailbox): a frame
   is published by the store of PUBLISHED, available until its slot leaves that
   state and held while it is claimed, and the mailbox is shut while the slots
   are being reset. *)
LastFrame  == IF wpc = "state" THEN nextSeq - 2 ELSE nextSeq - 1
AvailableFrames == {shSeq[i] : i \in Available}
HeldFrames == {h.truth.seq : h \in Held}
Publishing == wpc \notin {"reset", "setgen", "dead"}

Mailbox == INSTANCE FrameMailbox WITH
  Capacity <- NSlots, last <- LastFrame, avail <- AvailableFrames,
  held <- HeldFrames, open <- Publishing

(* Every step of the ring is a step of the mailbox or none: frames become
   available in order, only the oldest is ever overwritten, each is taken at
   most once, and the rest go only when the ring is retired or disabled. *)
IsMailbox == Mailbox!Spec

(* frames_dropped misses no loss: what a frame cost the reader, by overwriting
   an older frame or by not being published, is counted by the time
   publish_frame returns without an error.  (It may count more: a lost take-CAS
   leaves the overwrite it did not make counted.) *)
LossesAreCounted ==
  wpc = "return" /\ wres \in {"none", "published"} /\ ~disabled => lost <= counted

(* "A ring slot the host has checked out: the driver will not touch its
   texture until release" (ClaimedFrame, whose generation is "at claim time"):
   the texture a claim names is not being written.  The code does not keep
   this one: see the README's findings. *)
ClaimedTextureUntouched ==
  Writing => \A c \in claims : c.gen = gen => c.slot # wslot
=============================================================================
