--------------------------- MODULE FrameRing_proofs ---------------------------
(* Theorems about FrameRing, for every number of slots and every bound. *)
EXTENDS FrameRing, FiniteSetTheorems, TLAPS

(* What each control point of the two sides says of the rest of the state:
   the typing of local variables, and which resets are under way. *)
Control ==
  /\ wpc \in {"lock", "copy", "state", "header"} => wslot \in Slots
  /\ wpc = "reset" => wnext # "none"
  /\ wpc = "setgen" => wnext \in {"start", "textures", "exit"}
  /\ hpc = "idle" => tries = 0
  /\ hpc = "scanSeq" => hidx < NSlots
  /\ InClaim => cand \in Slots

(* Every sequence in the ring has been issued, and the one being published is
   beyond the header's. *)
Sequenced ==
  /\ \A i \in Slots : shSeq[i] < nextSeq
  /\ hdrLatest < nextSeq
  /\ wpc \in {"state", "header"} => hdrLatest < shSeq[wslot]

(* The loops over the slots have a first slot to begin at. *)
LEMMA ZeroSlot == 0 \in Slots
  BY NSlotsAssumption DEF Slots

LEMMA TypingInit == Init => TypeOK /\ Control /\ Sequenced
  <1> SUFFICES ASSUME Init PROVE TypeOK /\ Control /\ Sequenced
    OBVIOUS
  <1> USE ZeroSlot
      DEF Init, NoSlot, PolicyStates, Transports, RingStates,
          SlotStates, Results, AfterReset, WorkerPcs, HostPcs, Claims, InClaim
  <1>0. nextSeq \in Nat \ {0} /\ gen \in Nat \ {0} /\ hdrGen \in Nat \ {0}
    OBVIOUS
  <1>1. PolicyTypes /\ RingTypes
    <2>1. pol \in [Slots -> PolicyStates]
      OBVIOUS
    <2>2. everPub \in [Slots -> BOOLEAN]
      BY Zenon
    <2>3. key \in [Slots -> {0, 1}]
      OBVIOUS
    <2> QED
      BY <2>1, <2>2, <2>3, <1>0 DEF PolicyTypes, RingTypes
  <1>2. WorkerTypes
    BY DEF WorkerTypes
  <1>3. SectionTypes
    <2>1. shState \in [Slots -> SlotStates]
      OBVIOUS
    <2>2. shSeq \in [Slots -> Nat]
      OBVIOUS
    <2> QED
      BY <2>1, <2>2, <1>0 DEF SectionTypes
  <1>4. HostTypes
    BY NSlotsAssumption DEF HostTypes
  <1>5. Control /\ Sequenced
    BY DEF Control, Sequenced
  <1> QED
    BY <1>1, <1>2, <1>3, <1>4, <1>5 DEF TypeOK

LEMMA TypingStep == TypeOK /\ Control /\ [Next]_vars => TypeOK'
  <1> SUFFICES ASSUME TypeOK, Control, [Next]_vars PROVE TypeOK'
    OBVIOUS
  <1> USE ZeroSlot, NSlotsAssumption
      DEF TypeOK, Control, Slots, NoSlot, PolicyStates, Transports, RingStates,
          SlotStates, Results, AfterReset, WorkerPcs, HostPcs, Claims, InClaim,
          policyVars, ringVars, lifeVars, pcVars, slotVars, hdrVars, liveVars,
          tallyVars, hostVars, driverVars
  <1>1. CASE Assign
    <2>1. PolicyTypes'
      BY <1>1 DEF PolicyTypes, Assign, FreshLoop
    <2>2. RingTypes'
      BY <1>1 DEF RingTypes, Assign, FreshLoop
    <2>3. WorkerTypes'
      BY <1>1 DEF WorkerTypes, Assign, FreshLoop
    <2>4. SectionTypes'
      BY <1>1 DEF SectionTypes, PolicyTypes, WorkerTypes, Assign, FreshLoop
    <2>5. HostTypes'
      BY <1>1 DEF HostTypes, SectionTypes, Assign, FreshLoop
    <2>6. counted' \in Nat /\ lost' \in Nat
      BY <1>1 DEF Assign, FreshLoop
    <2> QED
      BY <2>1, <2>2, <2>3, <2>4, <2>5, <2>6 DEF TypeOK
  <1>2. CASE Reassign
    <2>1. PolicyTypes'
      BY <1>2 DEF PolicyTypes, Reassign, FreshLoop, Retire, Loop, ClearHistory,
         ContinuedSeq
    <2>2. RingTypes'
      BY <1>2 DEF RingTypes, Reassign, FreshLoop, Retire, Loop, ClearHistory,
         ContinuedSeq
    <2>3. WorkerTypes'
      <3>1. /\ wpc' = "reset" /\ widx' = 0 /\ wnext' = "start"
            /\ stop' = FALSE /\ firstFrame' = FALSE
            /\ UNCHANGED <<gone, wslot, wres>>
        BY <1>2 DEF Reassign, FreshLoop, Retire, Loop
      <3> QED
        BY <3>1 DEF WorkerTypes
    <2>4. SectionTypes'
      BY <1>2 DEF SectionTypes, PolicyTypes, WorkerTypes, Reassign, FreshLoop, Retire,
         Loop, ClearHistory, ContinuedSeq
    <2>5. HostTypes'
      BY <1>2 DEF HostTypes, SectionTypes, Reassign, FreshLoop, Retire, Loop,
         ClearHistory, ContinuedSeq
    <2>6. counted' \in Nat /\ lost' \in Nat
      BY <1>2 DEF Reassign, FreshLoop, Retire, Loop, ClearHistory, ContinuedSeq
    <2> QED
      BY <2>1, <2>2, <2>3, <2>4, <2>5, <2>6 DEF TypeOK
  <1>3. CASE DeviceCreateFails
    BY <1>3 DEF PolicyTypes, RingTypes, WorkerTypes, SectionTypes, HostTypes,
      DeviceCreateFails
  <1>4. CASE StartLoop
    BY <1>4 DEF PolicyTypes, RingTypes, WorkerTypes, SectionTypes, HostTypes,
      StartLoop
  <1>5. CASE ResetSlot
    BY <1>5 DEF PolicyTypes, RingTypes, WorkerTypes, SectionTypes, HostTypes,
      ResetSlot, Advance
  <1>6. CASE SetGeneration
    BY <1>6 DEF PolicyTypes, RingTypes, WorkerTypes, SectionTypes, HostTypes,
      SetGeneration
  <1>7. CASE MarkDead
    BY <1>7 DEF PolicyTypes, RingTypes, WorkerTypes, SectionTypes, HostTypes,
      MarkDead, Return
  <1>8. CASE AcquireFails
    <2>1. PolicyTypes'
      BY <1>8 DEF PolicyTypes, AcquireFails, AbandonSwapchain, Retire, Loop,
         ClearHistory, ContinuedSeq
    <2>2. RingTypes'
      BY <1>8 DEF RingTypes, AcquireFails, AbandonSwapchain, Retire, Loop,
         ClearHistory, ContinuedSeq
    <2>3. WorkerTypes'
      BY <1>8 DEF WorkerTypes, AcquireFails, AbandonSwapchain, Retire, Loop,
         ClearHistory, ContinuedSeq
    <2>4. SectionTypes'
      BY <1>8 DEF SectionTypes, PolicyTypes, WorkerTypes, AcquireFails,
         AbandonSwapchain, Retire, Loop, ClearHistory, ContinuedSeq
    <2>5. HostTypes'
      BY <1>8 DEF HostTypes, SectionTypes, AcquireFails, AbandonSwapchain, Retire,
         Loop, ClearHistory, ContinuedSeq
    <2>6. counted' \in Nat /\ lost' \in Nat
      BY <1>8 DEF AcquireFails, AbandonSwapchain, Retire, Loop, ClearHistory,
         ContinuedSeq
    <2> QED
      BY <2>1, <2>2, <2>3, <2>4, <2>5, <2>6 DEF TypeOK
  <1>9. CASE ExitLost
    <2>1. PolicyTypes'
      BY <1>9 DEF PolicyTypes, ExitLost
    <2>2. RingTypes'
      BY <1>9 DEF RingTypes, ExitLost
    <2>3. WorkerTypes'
      BY <1>9 DEF WorkerTypes, ExitLost
    <2>4. SectionTypes'
      BY <1>9 DEF SectionTypes, PolicyTypes, WorkerTypes, ExitLost
    <2>5. HostTypes'
      BY <1>9 DEF HostTypes, SectionTypes, ExitLost
    <2>6. counted' \in Nat /\ lost' \in Nat
      BY <1>9 DEF ExitLost
    <2> QED
      BY <2>1, <2>2, <2>3, <2>4, <2>5, <2>6 DEF TypeOK
  <1>10. ASSUME NEW changed \in BOOLEAN, FrameReady(changed) PROVE TypeOK'
    <2>1. PolicyTypes'
      BY <1>10 DEF PolicyTypes, FrameReady, Return, Retire, Loop, ClearHistory,
         ContinuedSeq
    <2>2. RingTypes'
      BY <1>10 DEF RingTypes, FrameReady, Return, Retire, Loop, ClearHistory,
         ContinuedSeq
    <2>3. WorkerTypes'
      BY <1>10 DEF WorkerTypes, FrameReady, Return, Retire, Loop, ClearHistory,
         ContinuedSeq
    <2>4. SectionTypes'
      BY <1>10 DEF SectionTypes, PolicyTypes, WorkerTypes, FrameReady, Return, Retire,
         Loop, ClearHistory, ContinuedSeq
    <2>5. HostTypes'
      BY <1>10 DEF HostTypes, SectionTypes, FrameReady, Return, Retire, Loop,
         ClearHistory, ContinuedSeq
    <2>6. counted' \in Nat /\ lost' \in Nat
      BY <1>10 DEF FrameReady, Return, Retire, Loop, ClearHistory, ContinuedSeq
    <2> QED
      BY <2>1, <2>2, <2>3, <2>4, <2>5, <2>6 DEF TypeOK
  <1>11. CASE CreateTextures
    BY <1>11 DEF PolicyTypes, RingTypes, WorkerTypes, SectionTypes, HostTypes,
      CreateTextures, Loop
  <1>12. CASE CreateTexturesFails
    <2>1. PolicyTypes'
      BY <1>12 DEF PolicyTypes, CreateTexturesFails, DisableTransport, Loop, Return,
         Errors
    <2>2. RingTypes'
      BY <1>12 DEF RingTypes, CreateTexturesFails, DisableTransport, Loop, Return,
         Errors
    <2>3. WorkerTypes'
      BY <1>12 DEF WorkerTypes, CreateTexturesFails, DisableTransport, Loop, Return,
         Errors
    <2>4. SectionTypes'
      BY <1>12 DEF SectionTypes, PolicyTypes, WorkerTypes, CreateTexturesFails,
         DisableTransport, Loop, Return, Errors
    <2>5. HostTypes'
      BY <1>12 DEF HostTypes, SectionTypes, CreateTexturesFails, DisableTransport,
         Loop, Return, Errors
    <2>6. counted' \in Nat /\ lost' \in Nat
      BY <1>12 DEF CreateTexturesFails, DisableTransport, Loop, Return, Errors
    <2> QED
      BY <2>1, <2>2, <2>3, <2>4, <2>5, <2>6 DEF TypeOK
  <1>13. CASE ReconcileSlot
    BY <1>13 DEF PolicyTypes, RingTypes, WorkerTypes, SectionTypes, HostTypes,
      ReconcileSlot, Reconciled, Advance
  <1>14. ASSUME NEW i \in Slots, Take(i) PROVE TypeOK'
    <2>1. PolicyTypes'
      BY <1>14 DEF PolicyTypes, Take, Overwritten, Aborted, Return
    <2>2. RingTypes'
      BY <1>14 DEF RingTypes, Take, Overwritten, Aborted, Return
    <2>3. WorkerTypes'
      BY <1>14 DEF WorkerTypes, Take, Overwritten, Aborted, Return
    <2>4. SectionTypes'
      BY <1>14 DEF SectionTypes, PolicyTypes, WorkerTypes, Take, Overwritten, Aborted,
         Return
    <2>5. HostTypes'
      BY <1>14 DEF HostTypes, SectionTypes, Take, Overwritten, Aborted, Return
    <2>6. counted' \in Nat /\ lost' \in Nat
      BY <1>14 DEF Take, Overwritten, Aborted, Return
    <2> QED
      BY <2>1, <2>2, <2>3, <2>4, <2>5, <2>6 DEF TypeOK
  <1>15. CASE DropFrame
    BY <1>15 DEF PolicyTypes, RingTypes, WorkerTypes, SectionTypes, HostTypes,
      DropFrame, Return
  <1>16. CASE LockSlot
    <2>1. PolicyTypes'
      BY <1>16 DEF PolicyTypes, LockSlot, AbortWrite, Aborted, Return
    <2>2. RingTypes'
      BY <1>16 DEF RingTypes, LockSlot, AbortWrite, Aborted, Return
    <2>3. WorkerTypes'
      BY <1>16 DEF WorkerTypes, LockSlot, AbortWrite, Aborted, Return
    <2>4. SectionTypes'
      BY <1>16 DEF SectionTypes, PolicyTypes, WorkerTypes, LockSlot, AbortWrite,
         Aborted, Return
    <2>5. HostTypes'
      BY <1>16 DEF HostTypes, SectionTypes, LockSlot, AbortWrite, Aborted, Return
    <2>6. counted' \in Nat /\ lost' \in Nat
      BY <1>16 DEF LockSlot, AbortWrite, Aborted, Return
    <2> QED
      BY <2>1, <2>2, <2>3, <2>4, <2>5, <2>6 DEF TypeOK
  <1>17. CASE LockFails
    BY <1>17 DEF PolicyTypes, RingTypes, WorkerTypes, SectionTypes, HostTypes,
      LockFails, AbortWrite, Aborted, Return, Errors
  <1>18. CASE Copy
    BY <1>18 DEF PolicyTypes, RingTypes, WorkerTypes, SectionTypes, HostTypes,
      Copy
  <1>19. CASE CopyFails
    <2>1. PolicyTypes'
      BY <1>19 DEF PolicyTypes, CopyFails, AbortWrite, Aborted, Return, Errors
    <2>2. RingTypes'
      BY <1>19 DEF RingTypes, CopyFails, AbortWrite, Aborted, Return, Errors
    <2>3. WorkerTypes'
      BY <1>19 DEF WorkerTypes, CopyFails, AbortWrite, Aborted, Return, Errors
    <2>4. SectionTypes'
      BY <1>19 DEF SectionTypes, PolicyTypes, WorkerTypes, CopyFails, AbortWrite,
         Aborted, Return, Errors
    <2>5. HostTypes'
      BY <1>19 DEF HostTypes, SectionTypes, CopyFails, AbortWrite, Aborted, Return,
         Errors
    <2>6. counted' \in Nat /\ lost' \in Nat
      BY <1>19 DEF CopyFails, AbortWrite, Aborted, Return, Errors
    <2> QED
      BY <2>1, <2>2, <2>3, <2>4, <2>5, <2>6 DEF TypeOK
  <1>20. CASE MarkPublished
    BY <1>20 DEF PolicyTypes, RingTypes, WorkerTypes, SectionTypes, HostTypes,
      MarkPublished
  <1>21. CASE StoreLatest
    BY <1>21 DEF PolicyTypes, RingTypes, WorkerTypes, SectionTypes, HostTypes,
      StoreLatest, Return
  <1>22. CASE FinishFrame
    <2>1. PolicyTypes'
      BY <1>22 DEF PolicyTypes, FinishFrame, AbandonSwapchain, DisableTransport,
         Retire, Loop, ClearHistory, ContinuedSeq
    <2>2. RingTypes'
      BY <1>22 DEF RingTypes, FinishFrame, AbandonSwapchain, DisableTransport, Retire,
         Loop, ClearHistory, ContinuedSeq
    <2>3. WorkerTypes'
      <3>1. /\ wpc' \in {"none", "idle", "reset"} /\ widx' \in {0, widx}
            /\ wnext' \in {wnext, "exit", "dead"}
            /\ firstFrame' \in {firstFrame, firstFrame \/ wres = "published"}
            /\ wslot' = NoSlot /\ wres' = "none" /\ UNCHANGED <<stop, gone>>
        BY <1>22 DEF FinishFrame, AbandonSwapchain, DisableTransport, Retire, Loop
      <3> QED
        BY <3>1 DEF WorkerTypes
    <2>4. SectionTypes'
      BY <1>22 DEF SectionTypes, PolicyTypes, WorkerTypes, FinishFrame,
         AbandonSwapchain, DisableTransport, Retire, Loop, ClearHistory, ContinuedSeq
    <2>5. HostTypes'
      BY <1>22 DEF HostTypes, SectionTypes, FinishFrame, AbandonSwapchain,
         DisableTransport, Retire, Loop, ClearHistory, ContinuedSeq
    <2>6. counted' \in Nat /\ lost' \in Nat
      BY <1>22 DEF FinishFrame, AbandonSwapchain, DisableTransport, Retire, Loop,
         ClearHistory, ContinuedSeq
    <2> QED
      BY <2>1, <2>2, <2>3, <2>4, <2>5, <2>6 DEF TypeOK
  <1>23. CASE RequestStop
    BY <1>23 DEF PolicyTypes, RingTypes, WorkerTypes, SectionTypes, HostTypes,
      RequestStop
  <1>24. CASE WorkerStops
    <2>1. PolicyTypes'
      BY <1>24 DEF PolicyTypes, WorkerStops
    <2>2. RingTypes'
      BY <1>24 DEF RingTypes, WorkerStops
    <2>3. WorkerTypes'
      BY <1>24 DEF WorkerTypes, WorkerStops
    <2>4. SectionTypes'
      BY <1>24 DEF SectionTypes, PolicyTypes, WorkerTypes, WorkerStops
    <2>5. HostTypes'
      BY <1>24 DEF HostTypes, SectionTypes, WorkerStops
    <2>6. counted' \in Nat /\ lost' \in Nat
      BY <1>24 DEF WorkerStops
    <2> QED
      BY <2>1, <2>2, <2>3, <2>4, <2>5, <2>6 DEF TypeOK
  <1>25. CASE Unplug
    BY <1>25 DEF PolicyTypes, RingTypes, WorkerTypes, SectionTypes, HostTypes,
      Unplug
  <1>26. CASE BeginClaim
    BY <1>26 DEF PolicyTypes, RingTypes, WorkerTypes, SectionTypes, HostTypes,
      BeginClaim, BeginScan, Available
  <1>27. CASE ScanState
    BY <1>27 DEF PolicyTypes, RingTypes, WorkerTypes, SectionTypes, HostTypes,
      ScanState
  <1>28. CASE ScanSeq
    BY <1>28 DEF PolicyTypes, RingTypes, WorkerTypes, SectionTypes, HostTypes,
      ScanSeq
  <1>29. CASE NothingPublished
    BY <1>29 DEF PolicyTypes, RingTypes, WorkerTypes, SectionTypes, HostTypes,
      NothingPublished, ClaimOver
  <1>30. CASE ClaimCas
    <2>1. PolicyTypes'
      BY <1>30 DEF PolicyTypes, ClaimCas, BeginScan, ClaimOver, Available
    <2>2. RingTypes'
      BY <1>30 DEF RingTypes, ClaimCas, BeginScan, ClaimOver, Available
    <2>3. WorkerTypes'
      BY <1>30 DEF WorkerTypes, ClaimCas, BeginScan, ClaimOver, Available
    <2>4. SectionTypes'
      BY <1>30 DEF SectionTypes, PolicyTypes, WorkerTypes, ClaimCas, BeginScan,
         ClaimOver, Available
    <2>5. HostTypes'
      <3>1. CASE hpc' = "reread"
        <4>1. /\ truth' = [seq |-> shSeq[cand], gen |-> hdrGen]
              /\ cand \in Slots
              /\ UNCHANGED <<hidx, cand, candSeq, tries, claimSeq, visible,
                             claims, delivered>>
          BY <1>30, <3>1 DEF HostTypes, ClaimCas, BeginScan, ClaimOver
        <4>2. truth' \in [seq : Nat, gen : Nat]
          BY <4>1 DEF SectionTypes
        <4> QED
          BY <3>1, <4>1, <4>2 DEF HostTypes
      <3>2. CASE hpc' = "scan"
        BY <1>30, <3>2 DEF HostTypes, SectionTypes, ClaimCas, BeginScan, ClaimOver,
           Available
      <3>3. CASE hpc' = "idle"
        BY <1>30, <3>3 DEF HostTypes, ClaimCas, BeginScan, ClaimOver
      <3> QED
        BY <1>30, <3>1, <3>2, <3>3 DEF ClaimCas, BeginScan, ClaimOver
    <2>6. counted' \in Nat /\ lost' \in Nat
      BY <1>30 DEF ClaimCas, BeginScan, ClaimOver, Available
    <2> QED
      BY <2>1, <2>2, <2>3, <2>4, <2>5, <2>6 DEF TypeOK
  <1>31. CASE RereadSlot
    BY <1>31 DEF PolicyTypes, RingTypes, WorkerTypes, SectionTypes, HostTypes,
      RereadSlot, ClaimLabel
  <1>32. CASE ReadGeneration
    BY <1>32 DEF PolicyTypes, RingTypes, WorkerTypes, SectionTypes, HostTypes,
      ReadGeneration, ClaimOver
  <1>33. ASSUME NEW c \in claims, Release(c) PROVE TypeOK'
    <2>1. PolicyTypes'
      BY <1>33 DEF PolicyTypes, Release
    <2>2. RingTypes'
      BY <1>33 DEF RingTypes, Release
    <2>3. WorkerTypes'
      BY <1>33 DEF WorkerTypes, Release
    <2>4. SectionTypes'
      BY <1>33 DEF SectionTypes, PolicyTypes, WorkerTypes, Release
    <2>5. HostTypes'
      BY <1>33 DEF HostTypes, SectionTypes, Release
    <2>6. counted' \in Nat /\ lost' \in Nat
      BY <1>33 DEF Release
    <2> QED
      BY <2>1, <2>2, <2>3, <2>4, <2>5, <2>6 DEF TypeOK
  <1>34. CASE UNCHANGED vars
    BY <1>34 DEF PolicyTypes, RingTypes, WorkerTypes, SectionTypes, HostTypes,
      vars
  <1> QED
    BY <1>1, <1>2, <1>3, <1>4, <1>5, <1>6, <1>7, <1>8, <1>9, <1>10, <1>11, <1>12,
       <1>13, <1>14, <1>15, <1>16, <1>17, <1>18, <1>19, <1>20, <1>21, <1>22, <1>23,
       <1>24, <1>25, <1>26, <1>27, <1>28, <1>29, <1>30, <1>31, <1>32, <1>33, <1>34
    DEF Next, WorkerStep, SystemStep, HostStep

LEMMA ControlStep == TypeOK /\ Control /\ [Next]_vars => Control'
  <1> SUFFICES ASSUME TypeOK, Control, [Next]_vars PROVE Control'
    OBVIOUS
  <1> USE DEF TypeOK, WorkerTypes, HostTypes, Control, NoSlot, AfterReset, InClaim,
          policyVars, ringVars, lifeVars, pcVars, slotVars, hdrVars, liveVars,
          tallyVars, hostVars, driverVars
  <1>1. CASE Assign
    BY <1>1 DEF Assign, FreshLoop
  <1>2. CASE Reassign
    BY <1>2 DEF Reassign, FreshLoop, Retire, Loop
  <1>3. CASE DeviceCreateFails
    BY <1>3 DEF DeviceCreateFails
  <1>4. CASE StartLoop
    BY <1>4 DEF StartLoop
  <1>5. CASE ResetSlot
    BY <1>5 DEF ResetSlot, Advance
  <1>6. CASE SetGeneration
    BY <1>6 DEF SetGeneration
  <1>7. CASE MarkDead
    BY <1>7 DEF MarkDead, Return
  <1>8. CASE AcquireFails
    BY <1>8 DEF AcquireFails, AbandonSwapchain, Retire, Loop
  <1>9. CASE ExitLost
    BY <1>9 DEF ExitLost
  <1>10. ASSUME NEW changed \in BOOLEAN, FrameReady(changed) PROVE Control'
    BY <1>10 DEF FrameReady, TransportOff, Return, Retire, Loop
  <1>11. CASE CreateTextures
    BY <1>11 DEF CreateTextures, Loop
  <1>12. CASE CreateTexturesFails
    BY <1>12 DEF CreateTexturesFails, DisableTransport, Loop, Return, Errors
  <1>13. CASE ReconcileSlot
    BY <1>13 DEF ReconcileSlot, Advance
  <1>14. ASSUME NEW i \in Slots, Take(i) PROVE Control'
    BY <1>14 DEF Take, CanTake, Expected, Return
  <1>15. CASE DropFrame
    BY <1>15 DEF DropFrame, Return
  <1>16. CASE LockSlot
    BY <1>16 DEF LockSlot, AbortWrite, Return
  <1>17. CASE LockFails
    BY <1>17 DEF LockFails, AbortWrite, Return, Errors
  <1>18. CASE Copy
    BY <1>18 DEF Copy
  <1>19. CASE CopyFails
    BY <1>19 DEF CopyFails, AbortWrite, Return, Errors
  <1>20. CASE MarkPublished
    BY <1>20 DEF MarkPublished
  <1>21. CASE StoreLatest
    BY <1>21 DEF StoreLatest, Return
  <1>22. CASE FinishFrame
    BY <1>22 DEF FinishFrame, AbandonSwapchain, DisableTransport, Retire, Loop
  <1>23. CASE RequestStop
    BY <1>23 DEF RequestStop
  <1>24. CASE WorkerStops
    BY <1>24 DEF WorkerStops
  <1>25. CASE Unplug
    BY <1>25 DEF Unplug
  <1>26. CASE BeginClaim
    BY <1>26 DEF BeginClaim, BeginScan
  <1>27. CASE ScanState
    BY <1>27 DEF ScanState
  <1>28. CASE ScanSeq
    BY <1>28 DEF ScanSeq
  <1>29. CASE NothingPublished
    BY <1>29 DEF NothingPublished, ClaimOver
  <1>30. CASE ClaimCas
    BY <1>30 DEF ClaimCas, BeginScan, ClaimOver
  <1>31. CASE RereadSlot
    BY <1>31 DEF RereadSlot
  <1>32. CASE ReadGeneration
    BY <1>32 DEF ReadGeneration, ClaimOver
  <1>33. ASSUME NEW c \in claims, Release(c) PROVE Control'
    BY <1>33 DEF Release
  <1>34. CASE UNCHANGED vars
    BY <1>34 DEF vars
  <1> QED
    BY <1>1, <1>2, <1>3, <1>4, <1>5, <1>6, <1>7, <1>8, <1>9, <1>10, <1>11,
       <1>12, <1>13, <1>14, <1>15, <1>16, <1>17, <1>18, <1>19, <1>20, <1>21,
       <1>22, <1>23, <1>24, <1>25, <1>26, <1>27, <1>28, <1>29, <1>30, <1>31,
       <1>32, <1>33, <1>34
    DEF Next, WorkerStep, SystemStep, HostStep

(* The type invariant, for every number of slots and claims. *)
THEOREM TypeCorrect == Spec => []TypeOK
  <1>1. Init => TypeOK /\ Control
    BY TypingInit
  <1>2. TypeOK /\ Control /\ [Next]_vars => (TypeOK /\ Control)'
    BY TypingStep, ControlStep
  <1> QED
    BY <1>1, <1>2, PTL DEF Spec

-----------------------------------------------------------------------------
(* What holds whatever the number of claims: who may be where. *)

(* The slot being written is marked so in the section. *)
WriterMarked == Writing => shState[wslot] = "WRITING"

(* The header's generation trails the policy's exactly while the slots of a
   retired generation are being reset, and no claim is of a later one. *)
Generations ==
  /\ hdrGen <= gen
  /\ \A c \in claims : c.truth.gen <= hdrGen
  /\ InClaim => truth.gen <= hdrGen
  /\ wpc \in {"reset", "setgen"} /\ wnext \notin {"dead", "quiet"} => hdrGen < gen
  /\ wpc = "reset" /\ wnext \in {"dead", "quiet"} => disabled

(* Nothing is written once the transport is disabled. *)
SwitchedOff ==
  disabled => /\ wpc \notin {"textures", "reconcile", "take", "lock", "copy",
                             "state", "header"}
              /\ wnext # "textures"

RingDiscipline == WriterMarked /\ Generations /\ SwitchedOff

LEMMA DisciplineInit == Init => RingDiscipline
  BY DEF Init, RingDiscipline, WriterMarked, Writing, Generations, SwitchedOff,
     InClaim

(* Every step of either side keeps to the discipline. *)
LEMMA DisciplineStep ==
  TypeOK /\ Control /\ RingDiscipline /\ [Next]_vars => RingDiscipline'
  <1> SUFFICES ASSUME TypeOK, Control, RingDiscipline, [Next]_vars
               PROVE  RingDiscipline'
    OBVIOUS
  <1> USE DEF RingDiscipline, TypeOK, Control, NoSlot, InClaim, policyVars,
          ringVars, lifeVars, pcVars, slotVars, hdrVars, liveVars, tallyVars,
          hostVars, driverVars
  <1>1. CASE Assign
    BY <1>1 DEF WriterMarked, Writing, Generations, SwitchedOff, PolicyTypes,
       RingTypes, WorkerTypes, SectionTypes, HostTypes, Claims, Assign, FreshLoop
  <1>2. CASE Reassign
    BY <1>2 DEF WriterMarked, Writing, Generations, SwitchedOff, PolicyTypes,
       RingTypes, WorkerTypes, SectionTypes, HostTypes, Claims, Reassign, FreshLoop,
       Retire, Loop
  <1>3. CASE DeviceCreateFails
    BY <1>3 DEF WriterMarked, Writing, Generations, SwitchedOff, PolicyTypes,
       RingTypes, WorkerTypes, SectionTypes, HostTypes, Claims, DeviceCreateFails
  <1>4. CASE StartLoop
    BY <1>4 DEF WriterMarked, Writing, Generations, SwitchedOff, PolicyTypes,
       RingTypes, WorkerTypes, SectionTypes, HostTypes, Claims, StartLoop
  <1>5. CASE ResetSlot
    BY <1>5 DEF WriterMarked, Writing, Generations, SwitchedOff, PolicyTypes,
       RingTypes, WorkerTypes, SectionTypes, HostTypes, Claims, ResetSlot, Advance
  <1>6. CASE SetGeneration
    BY <1>6 DEF WriterMarked, Writing, Generations, SwitchedOff, PolicyTypes,
       RingTypes, WorkerTypes, SectionTypes, HostTypes, Claims, SetGeneration
  <1>7. CASE MarkDead
    BY <1>7 DEF WriterMarked, Writing, Generations, SwitchedOff, PolicyTypes,
       RingTypes, WorkerTypes, SectionTypes, HostTypes, Claims, MarkDead, Return
  <1>8. CASE AcquireFails
    BY <1>8 DEF WriterMarked, Writing, Generations, SwitchedOff, PolicyTypes,
       RingTypes, WorkerTypes, SectionTypes, HostTypes, Claims, AcquireFails,
       AbandonSwapchain, Retire, Loop
  <1>9. CASE ExitLost
    BY <1>9 DEF WriterMarked, Writing, Generations, SwitchedOff, PolicyTypes,
       RingTypes, WorkerTypes, SectionTypes, HostTypes, Claims, ExitLost
  <1>10. ASSUME NEW changed \in BOOLEAN, FrameReady(changed) PROVE RingDiscipline'
    BY <1>10 DEF WriterMarked, Writing, Generations, SwitchedOff, PolicyTypes,
       RingTypes, WorkerTypes, SectionTypes, HostTypes, Claims, FrameReady,
       TransportOff, Return, Retire, Loop
  <1>11. CASE CreateTextures
    BY <1>11 DEF WriterMarked, Writing, Generations, SwitchedOff, PolicyTypes,
       RingTypes, WorkerTypes, SectionTypes, HostTypes, Claims, CreateTextures, Loop
  <1>12. CASE CreateTexturesFails
    BY <1>12 DEF WriterMarked, Writing, Generations, SwitchedOff, PolicyTypes,
       RingTypes, WorkerTypes, SectionTypes, HostTypes, Claims, CreateTexturesFails,
       DisableTransport, Loop, Return, Errors
  <1>13. CASE ReconcileSlot
    BY <1>13 DEF WriterMarked, Writing, Generations, SwitchedOff, PolicyTypes,
       RingTypes, WorkerTypes, SectionTypes, HostTypes, Claims, ReconcileSlot, Advance
  <1>14. ASSUME NEW i \in Slots, Take(i) PROVE RingDiscipline'
    BY <1>14 DEF WriterMarked, Writing, Generations, SwitchedOff, PolicyTypes,
       RingTypes, WorkerTypes, SectionTypes, HostTypes, Claims, Take, CanTake,
       Expected, Return
  <1>15. CASE DropFrame
    BY <1>15 DEF WriterMarked, Writing, Generations, SwitchedOff, PolicyTypes,
       RingTypes, WorkerTypes, SectionTypes, HostTypes, Claims, DropFrame, Return
  <1>16. CASE LockSlot
    BY <1>16 DEF WriterMarked, Writing, Generations, SwitchedOff, PolicyTypes,
       RingTypes, WorkerTypes, SectionTypes, HostTypes, Claims, LockSlot, AbortWrite,
       Return
  <1>17. CASE LockFails
    BY <1>17 DEF WriterMarked, Writing, Generations, SwitchedOff, PolicyTypes,
       RingTypes, WorkerTypes, SectionTypes, HostTypes, Claims, LockFails, AbortWrite,
       Return, Errors
  <1>18. CASE Copy
    BY <1>18 DEF WriterMarked, Writing, Generations, SwitchedOff, PolicyTypes,
       RingTypes, WorkerTypes, SectionTypes, HostTypes, Claims, Copy
  <1>19. CASE CopyFails
    BY <1>19 DEF WriterMarked, Writing, Generations, SwitchedOff, PolicyTypes,
       RingTypes, WorkerTypes, SectionTypes, HostTypes, Claims, CopyFails, AbortWrite,
       Return, Errors
  <1>20. CASE MarkPublished
    BY <1>20 DEF WriterMarked, Writing, Generations, SwitchedOff, PolicyTypes,
       RingTypes, WorkerTypes, SectionTypes, HostTypes, Claims, MarkPublished
  <1>21. CASE StoreLatest
    BY <1>21 DEF WriterMarked, Writing, Generations, SwitchedOff, PolicyTypes,
       RingTypes, WorkerTypes, SectionTypes, HostTypes, Claims, StoreLatest, Return
  <1>22. CASE FinishFrame
    BY <1>22 DEF WriterMarked, Writing, Generations, SwitchedOff, PolicyTypes,
       RingTypes, WorkerTypes, SectionTypes, HostTypes, Claims, FinishFrame,
       AbandonSwapchain, DisableTransport, Retire, Loop
  <1>23. CASE RequestStop
    BY <1>23 DEF WriterMarked, Writing, Generations, SwitchedOff, PolicyTypes,
       RingTypes, WorkerTypes, SectionTypes, HostTypes, Claims, RequestStop
  <1>24. CASE WorkerStops
    BY <1>24 DEF WriterMarked, Writing, Generations, SwitchedOff, PolicyTypes,
       RingTypes, WorkerTypes, SectionTypes, HostTypes, Claims, WorkerStops
  <1>25. CASE Unplug
    BY <1>25 DEF WriterMarked, Writing, Generations, SwitchedOff, PolicyTypes,
       RingTypes, WorkerTypes, SectionTypes, HostTypes, Claims, Unplug
  <1>26. CASE BeginClaim
    BY <1>26 DEF WriterMarked, Writing, Generations, SwitchedOff, PolicyTypes,
       RingTypes, WorkerTypes, SectionTypes, HostTypes, Claims, BeginClaim, BeginScan
  <1>27. CASE ScanState
    BY <1>27 DEF WriterMarked, Writing, Generations, SwitchedOff, PolicyTypes,
       RingTypes, WorkerTypes, SectionTypes, HostTypes, Claims, ScanState
  <1>28. CASE ScanSeq
    BY <1>28 DEF WriterMarked, Writing, Generations, SwitchedOff, PolicyTypes,
       RingTypes, WorkerTypes, SectionTypes, HostTypes, Claims, ScanSeq
  <1>29. CASE NothingPublished
    BY <1>29 DEF WriterMarked, Writing, Generations, SwitchedOff, PolicyTypes,
       RingTypes, WorkerTypes, SectionTypes, HostTypes, Claims, NothingPublished,
       ClaimOver
  <1>30. CASE ClaimCas
    BY <1>30 DEF WriterMarked, Writing, Generations, SwitchedOff, PolicyTypes,
       RingTypes, WorkerTypes, SectionTypes, HostTypes, Claims, ClaimCas, BeginScan,
       ClaimOver
  <1>31. CASE RereadSlot
    BY <1>31 DEF WriterMarked, Writing, Generations, SwitchedOff, PolicyTypes,
       RingTypes, WorkerTypes, SectionTypes, HostTypes, Claims, RereadSlot
  <1>32. CASE ReadGeneration
    BY <1>32 DEF WriterMarked, Writing, Generations, SwitchedOff, PolicyTypes,
       RingTypes, WorkerTypes, SectionTypes, HostTypes, Claims, ReadGeneration,
       ClaimOver
  <1>33. ASSUME NEW c \in claims, Release(c) PROVE RingDiscipline'
    BY <1>33 DEF WriterMarked, Writing, Generations, SwitchedOff, PolicyTypes,
       RingTypes, WorkerTypes, SectionTypes, HostTypes, Claims, Release
  <1>34. CASE UNCHANGED vars
    BY <1>34 DEF WriterMarked, Writing, Generations, SwitchedOff, PolicyTypes,
       RingTypes, WorkerTypes, SectionTypes, HostTypes, Claims, vars
  <1> QED
    BY <1>1, <1>2, <1>3, <1>4, <1>5, <1>6, <1>7, <1>8, <1>9, <1>10, <1>11,
       <1>12, <1>13, <1>14, <1>15, <1>16, <1>17, <1>18, <1>19, <1>20, <1>21,
       <1>22, <1>23, <1>24, <1>25, <1>26, <1>27, <1>28, <1>29, <1>30, <1>31,
       <1>32, <1>33, <1>34
    DEF Next, WorkerStep, SystemStep, HostStep

-----------------------------------------------------------------------------
(* Exclusion between the writer and a reader that holds one claim at a time. *)

(* A claim is over before the next begins. *)
OneClaim ==
  /\ hpc # "idle" => claims = {}
  /\ \A c, d \in claims : c = d

(* A slot claimed from the current textures is READING until released. *)
Guarded ==
  ~disabled =>
    /\ \A c \in claims : c.truth.gen = gen => shState[c.slot] = "READING"
    /\ InClaim /\ truth.gen = gen => shState[cand] = "READING"

Exclusion == OneClaim /\ Guarded

LEMMA ExclusionInit == Init => Exclusion
  BY DEF Init, Exclusion, OneClaim, Guarded, InClaim

(* With room for one claim, a claim begins only when there is none. *)
LEMMA NoClaimYet ==
  ASSUME MaxClaims = 1, OneClaim, Cardinality(claims) < MaxClaims
  PROVE  claims = {}
  <1> SUFFICES ASSUME NEW c \in claims PROVE FALSE
    OBVIOUS
  <1>1. claims = {c}
    BY DEF OneClaim
  <1>2. Cardinality({c}) = 1
    BY FS_Singleton
  <1> QED
    BY <1>1, <1>2

LEMMA ExclusionStep ==
  ASSUME MaxClaims = 1
  PROVE  TypeOK /\ Control /\ RingDiscipline /\ Exclusion /\ [Next]_vars => Exclusion'
  <1> SUFFICES ASSUME TypeOK, Control, RingDiscipline, Exclusion, [Next]_vars
               PROVE  Exclusion'
    OBVIOUS
  <1> USE DEF Exclusion, RingDiscipline, TypeOK, Control, NoSlot, InClaim, policyVars,
          ringVars, lifeVars, pcVars, slotVars, hdrVars, liveVars, tallyVars,
          hostVars, driverVars
  <1>1. CASE Assign
    BY <1>1 DEF Writing, PolicyTypes, RingTypes, WorkerTypes, SectionTypes, HostTypes,
       Claims, WriterMarked, OneClaim, Generations, SwitchedOff, Guarded, Assign,
       FreshLoop
  <1>2. CASE Reassign
    BY <1>2 DEF Writing, PolicyTypes, RingTypes, WorkerTypes, SectionTypes, HostTypes,
       Claims, WriterMarked, OneClaim, Generations, SwitchedOff, Guarded, Reassign,
       FreshLoop, Retire, Loop
  <1>3. CASE DeviceCreateFails
    BY <1>3 DEF Writing, PolicyTypes, RingTypes, WorkerTypes, SectionTypes, HostTypes,
       Claims, WriterMarked, OneClaim, Generations, SwitchedOff, Guarded,
       DeviceCreateFails
  <1>4. CASE StartLoop
    BY <1>4 DEF Writing, PolicyTypes, RingTypes, WorkerTypes, SectionTypes, HostTypes,
       Claims, WriterMarked, OneClaim, Generations, SwitchedOff, Guarded, StartLoop
  <1>5. CASE ResetSlot
    BY <1>5 DEF Writing, PolicyTypes, RingTypes, WorkerTypes, SectionTypes, HostTypes,
       Claims, WriterMarked, OneClaim, Generations, SwitchedOff, Guarded, ResetSlot,
       Advance
  <1>6. CASE SetGeneration
    BY <1>6 DEF Writing, PolicyTypes, RingTypes, WorkerTypes, SectionTypes, HostTypes,
       Claims, WriterMarked, OneClaim, Generations, SwitchedOff, Guarded,
       SetGeneration
  <1>7. CASE MarkDead
    BY <1>7 DEF Writing, PolicyTypes, RingTypes, WorkerTypes, SectionTypes, HostTypes,
       Claims, WriterMarked, OneClaim, Generations, SwitchedOff, Guarded, MarkDead,
       Return
  <1>8. CASE AcquireFails
    BY <1>8 DEF Writing, PolicyTypes, RingTypes, WorkerTypes, SectionTypes, HostTypes,
       Claims, WriterMarked, OneClaim, Generations, SwitchedOff, Guarded,
       AcquireFails, AbandonSwapchain, Retire, Loop
  <1>9. CASE ExitLost
    BY <1>9 DEF Writing, PolicyTypes, RingTypes, WorkerTypes, SectionTypes, HostTypes,
       Claims, WriterMarked, OneClaim, Generations, SwitchedOff, Guarded, ExitLost
  <1>10. ASSUME NEW changed \in BOOLEAN, FrameReady(changed) PROVE Exclusion'
    BY <1>10 DEF Writing, PolicyTypes, RingTypes, WorkerTypes, SectionTypes,
       HostTypes, Claims, WriterMarked, OneClaim, Generations, SwitchedOff, Guarded,
       FrameReady, TransportOff, Return, Retire, Loop
  <1>11. CASE CreateTextures
    BY <1>11 DEF Writing, PolicyTypes, RingTypes, WorkerTypes, SectionTypes,
       HostTypes, Claims, WriterMarked, OneClaim, Generations, SwitchedOff, Guarded,
       CreateTextures, Loop
  <1>12. CASE CreateTexturesFails
    BY <1>12 DEF Writing, PolicyTypes, RingTypes, WorkerTypes, SectionTypes,
       HostTypes, Claims, WriterMarked, OneClaim, Generations, SwitchedOff, Guarded,
       CreateTexturesFails, DisableTransport, Loop, Return, Errors
  <1>13. CASE ReconcileSlot
    BY <1>13 DEF Writing, PolicyTypes, RingTypes, WorkerTypes, SectionTypes,
       HostTypes, Claims, WriterMarked, OneClaim, Generations, SwitchedOff, Guarded,
       ReconcileSlot, Advance
  <1>14. ASSUME NEW i \in Slots, Take(i) PROVE Exclusion'
    BY <1>14 DEF Writing, PolicyTypes, RingTypes, WorkerTypes, SectionTypes,
       HostTypes, Claims, WriterMarked, OneClaim, Generations, SwitchedOff, Guarded,
       Take, CanTake, Expected, Return
  <1>15. CASE DropFrame
    BY <1>15 DEF Writing, PolicyTypes, RingTypes, WorkerTypes, SectionTypes,
       HostTypes, Claims, WriterMarked, OneClaim, Generations, SwitchedOff, Guarded,
       DropFrame, Return
  <1>16. CASE LockSlot
    BY <1>16 DEF Writing, PolicyTypes, RingTypes, WorkerTypes, SectionTypes,
       HostTypes, Claims, WriterMarked, OneClaim, Generations, SwitchedOff, Guarded,
       LockSlot, AbortWrite, Return
  <1>17. CASE LockFails
    BY <1>17 DEF Writing, PolicyTypes, RingTypes, WorkerTypes, SectionTypes,
       HostTypes, Claims, WriterMarked, OneClaim, Generations, SwitchedOff, Guarded,
       LockFails, AbortWrite, Return, Errors
  <1>18. CASE Copy
    BY <1>18 DEF Writing, PolicyTypes, RingTypes, WorkerTypes, SectionTypes,
       HostTypes, Claims, WriterMarked, OneClaim, Generations, SwitchedOff, Guarded,
       Copy
  <1>19. CASE CopyFails
    BY <1>19 DEF Writing, PolicyTypes, RingTypes, WorkerTypes, SectionTypes,
       HostTypes, Claims, WriterMarked, OneClaim, Generations, SwitchedOff, Guarded,
       CopyFails, AbortWrite, Return, Errors
  <1>20. CASE MarkPublished
    BY <1>20 DEF Writing, PolicyTypes, RingTypes, WorkerTypes, SectionTypes,
       HostTypes, Claims, WriterMarked, OneClaim, Generations, SwitchedOff, Guarded,
       MarkPublished
  <1>21. CASE StoreLatest
    BY <1>21 DEF Writing, PolicyTypes, RingTypes, WorkerTypes, SectionTypes,
       HostTypes, Claims, WriterMarked, OneClaim, Generations, SwitchedOff, Guarded,
       StoreLatest, Return
  <1>22. CASE FinishFrame
    BY <1>22 DEF Writing, PolicyTypes, RingTypes, WorkerTypes, SectionTypes,
       HostTypes, Claims, WriterMarked, OneClaim, Generations, SwitchedOff, Guarded,
       FinishFrame, AbandonSwapchain, DisableTransport, Retire, Loop
  <1>23. CASE RequestStop
    BY <1>23 DEF Writing, PolicyTypes, RingTypes, WorkerTypes, SectionTypes,
       HostTypes, Claims, WriterMarked, OneClaim, Generations, SwitchedOff, Guarded,
       RequestStop
  <1>24. CASE WorkerStops
    BY <1>24 DEF Writing, PolicyTypes, RingTypes, WorkerTypes, SectionTypes,
       HostTypes, Claims, WriterMarked, OneClaim, Generations, SwitchedOff, Guarded,
       WorkerStops
  <1>25. CASE Unplug
    BY <1>25 DEF Writing, PolicyTypes, RingTypes, WorkerTypes, SectionTypes,
       HostTypes, Claims, WriterMarked, OneClaim, Generations, SwitchedOff, Guarded,
       Unplug
  <1>26. CASE BeginClaim
    <2>1. claims = {}
      BY <1>26, NoClaimYet DEF BeginClaim
    <2> QED
      BY <1>26, <2>1 DEF Writing, WriterMarked, OneClaim, Generations, SwitchedOff,
         Guarded, BeginClaim, BeginScan
  <1>27. CASE ScanState
    BY <1>27 DEF Writing, PolicyTypes, RingTypes, WorkerTypes, SectionTypes,
       HostTypes, Claims, WriterMarked, OneClaim, Generations, SwitchedOff, Guarded,
       ScanState
  <1>28. CASE ScanSeq
    BY <1>28 DEF Writing, PolicyTypes, RingTypes, WorkerTypes, SectionTypes,
       HostTypes, Claims, WriterMarked, OneClaim, Generations, SwitchedOff, Guarded,
       ScanSeq
  <1>29. CASE NothingPublished
    BY <1>29 DEF Writing, PolicyTypes, RingTypes, WorkerTypes, SectionTypes,
       HostTypes, Claims, WriterMarked, OneClaim, Generations, SwitchedOff, Guarded,
       NothingPublished, ClaimOver
  <1>30. CASE ClaimCas
    BY <1>30 DEF Writing, PolicyTypes, RingTypes, WorkerTypes, SectionTypes,
       HostTypes, Claims, WriterMarked, OneClaim, Generations, SwitchedOff, Guarded,
       ClaimCas, BeginScan, ClaimOver
  <1>31. CASE RereadSlot
    BY <1>31 DEF Writing, PolicyTypes, RingTypes, WorkerTypes, SectionTypes,
       HostTypes, Claims, WriterMarked, OneClaim, Generations, SwitchedOff, Guarded,
       RereadSlot
  <1>32. CASE ReadGeneration
    BY <1>32 DEF Writing, PolicyTypes, RingTypes, WorkerTypes, SectionTypes,
       HostTypes, Claims, WriterMarked, OneClaim, Generations, SwitchedOff, Guarded,
       ReadGeneration, ClaimOver
  <1>33. ASSUME NEW c \in claims, Release(c) PROVE Exclusion'
    BY <1>33 DEF Writing, PolicyTypes, RingTypes, WorkerTypes, SectionTypes,
       HostTypes, Claims, WriterMarked, OneClaim, Generations, SwitchedOff, Guarded,
       Release
  <1>34. CASE UNCHANGED vars
    BY <1>34 DEF Writing, PolicyTypes, RingTypes, WorkerTypes, SectionTypes,
       HostTypes, Claims, WriterMarked, OneClaim, Generations, SwitchedOff, Guarded,
       vars
  <1> QED
    BY <1>1, <1>2, <1>3, <1>4, <1>5, <1>6, <1>7, <1>8, <1>9, <1>10, <1>11,
       <1>12, <1>13, <1>14, <1>15, <1>16, <1>17, <1>18, <1>19, <1>20, <1>21,
       <1>22, <1>23, <1>24, <1>25, <1>26, <1>27, <1>28, <1>29, <1>30, <1>31,
       <1>32, <1>33, <1>34
    DEF Next, WorkerStep, SystemStep, HostStep

(* While the textures a frame was claimed from are the current ones the writer
   does not touch the claimed slot, for every number of slots, frames and
   generations, when the consumer holds one claim at a time. *)
THEOREM HeldUntouched ==
  ASSUME MaxClaims = 1
  PROVE  Spec => []HeldTextureUntouched
  <1> DEFINE Inv == TypeOK /\ Control /\ RingDiscipline /\ Exclusion
  <1>1. Init => Inv
    BY TypingInit, DisciplineInit, ExclusionInit
  <1>2. Inv /\ [Next]_vars => Inv'
    BY TypingStep, ControlStep, DisciplineStep, ExclusionStep
  <1>3. Inv => HeldTextureUntouched
    BY DEF RingDiscipline, Exclusion, WriterMarked, SwitchedOff, Guarded,
           HeldTextureUntouched, Held, Writing
  <1> QED
    BY <1>1, <1>2, <1>3, PTL DEF Spec

-----------------------------------------------------------------------------
(* Sequences. *)

(* Every step keeps the sequences in order ... *)
LEMMA SequencedStep == TypeOK /\ Control /\ Sequenced /\ [Next]_vars => Sequenced'
  <1> SUFFICES ASSUME TypeOK, Control, Sequenced, [Next]_vars PROVE Sequenced'
    OBVIOUS
  <1> USE DEF Sequenced, TypeOK, PolicyTypes, WorkerTypes, SectionTypes, Control,
          policyVars, ringVars, lifeVars, pcVars, slotVars, hdrVars, liveVars,
          tallyVars, hostVars, driverVars
  <1>1. CASE Assign
    BY <1>1 DEF Assign, FreshLoop
  <1>2. CASE Reassign
    BY <1>2 DEF Reassign, FreshLoop, Retire, Loop, ContinuedSeq
  <1>3. CASE DeviceCreateFails
    BY <1>3 DEF DeviceCreateFails
  <1>4. CASE StartLoop
    BY <1>4 DEF StartLoop
  <1>5. CASE ResetSlot
    BY <1>5 DEF ResetSlot, Advance
  <1>6. CASE SetGeneration
    BY <1>6 DEF SetGeneration
  <1>7. CASE MarkDead
    BY <1>7 DEF MarkDead, Return
  <1>8. CASE AcquireFails
    BY <1>8 DEF AcquireFails, AbandonSwapchain, Retire, Loop, ContinuedSeq
  <1>9. CASE ExitLost
    BY <1>9 DEF ExitLost
  <1>10. ASSUME NEW changed \in BOOLEAN, FrameReady(changed) PROVE Sequenced'
    BY <1>10 DEF FrameReady, TransportOff, Return, Retire, Loop, ContinuedSeq
  <1>11. CASE CreateTextures
    BY <1>11 DEF CreateTextures, Loop
  <1>12. CASE CreateTexturesFails
    BY <1>12 DEF CreateTexturesFails, DisableTransport, Loop, Return, Errors
  <1>13. CASE ReconcileSlot
    BY <1>13 DEF ReconcileSlot, Advance
  <1>14. ASSUME NEW i \in Slots, Take(i) PROVE Sequenced'
    BY <1>14 DEF Take, CanTake, Expected, Return
  <1>15. CASE DropFrame
    BY <1>15 DEF DropFrame, Return
  <1>16. CASE LockSlot
    BY <1>16 DEF LockSlot, AbortWrite, Return
  <1>17. CASE LockFails
    BY <1>17 DEF LockFails, AbortWrite, Return, Errors
  <1>18. CASE Copy
    BY <1>18 DEF Copy
  <1>19. CASE CopyFails
    BY <1>19 DEF CopyFails, AbortWrite, Return, Errors
  <1>20. CASE MarkPublished
    BY <1>20 DEF MarkPublished
  <1>21. CASE StoreLatest
    BY <1>21 DEF StoreLatest, Return
  <1>22. CASE FinishFrame
    BY <1>22 DEF FinishFrame, AbandonSwapchain, DisableTransport, Retire, Loop,
       ContinuedSeq
  <1>23. CASE RequestStop
    BY <1>23 DEF RequestStop
  <1>24. CASE WorkerStops
    BY <1>24 DEF WorkerStops
  <1>25. CASE Unplug
    BY <1>25 DEF Unplug
  <1>26. CASE BeginClaim
    BY <1>26 DEF BeginClaim, BeginScan
  <1>27. CASE ScanState
    BY <1>27 DEF ScanState
  <1>28. CASE ScanSeq
    BY <1>28 DEF ScanSeq
  <1>29. CASE NothingPublished
    BY <1>29 DEF NothingPublished, ClaimOver
  <1>30. CASE ClaimCas
    BY <1>30 DEF ClaimCas, BeginScan, ClaimOver
  <1>31. CASE RereadSlot
    BY <1>31 DEF RereadSlot
  <1>32. CASE ReadGeneration
    BY <1>32 DEF ReadGeneration, ClaimOver
  <1>33. ASSUME NEW c \in claims, Release(c) PROVE Sequenced'
    BY <1>33 DEF Release
  <1>34. CASE UNCHANGED vars
    BY <1>34 DEF vars
  <1> QED
    BY <1>1, <1>2, <1>3, <1>4, <1>5, <1>6, <1>7, <1>8, <1>9, <1>10, <1>11,
       <1>12, <1>13, <1>14, <1>15, <1>16, <1>17, <1>18, <1>19, <1>20, <1>21,
       <1>22, <1>23, <1>24, <1>25, <1>26, <1>27, <1>28, <1>29, <1>30, <1>31,
       <1>32, <1>33, <1>34
    DEF Next, WorkerStep, SystemStep, HostStep

(* ... so the header's latest_sequence only ever grows, across drops and
   rebuilds alike. *)
THEOREM SequencesGrow == Spec => SequencesAdvance
  <1>1. Init => TypeOK /\ Control /\ Sequenced
    BY TypingInit
  <1>2. TypeOK /\ Control /\ Sequenced /\ [Next]_vars => (TypeOK /\ Control /\ Sequenced)'
    BY TypingStep, ControlStep, SequencedStep
  <1>3. Sequenced /\ [Next]_vars => (hdrLatest' # hdrLatest => hdrLatest' > hdrLatest)
    <2> SUFFICES ASSUME Sequenced, [Next]_vars, hdrLatest' # hdrLatest
                 PROVE  hdrLatest' > hdrLatest
      OBVIOUS
    <2>1. StoreLatest
      BY DEF Next, WorkerStep, SystemStep, HostStep, vars,
         Assign, Reassign, DeviceCreateFails, StartLoop, ResetSlot,
         SetGeneration, MarkDead, AcquireFails, ExitLost, FrameReady,
         CreateTextures, CreateTexturesFails, ReconcileSlot, Take, DropFrame,
         LockSlot, LockFails, Copy, CopyFails, MarkPublished, FinishFrame,
         RequestStop, WorkerStops, Unplug, BeginClaim, ScanState, ScanSeq,
         NothingPublished, ClaimCas, RereadSlot, ReadGeneration, Release,
         hdrVars, hostVars, driverVars, AbandonSwapchain
    <2> QED
      BY <2>1 DEF Sequenced, StoreLatest
  <1> QED
    BY <1>1, <1>2, <1>3, PTL DEF Spec, SequencesAdvance

-----------------------------------------------------------------------------
(* The keyed mutexes and the tally of lost frames. *)

(* A frame is written with the textures in place; they are gone from the moment
   a reset begins until they are created again, and the slots then have no
   history. *)
InFrame  == wpc \in {"reconcile", "take", "lock", "copy", "state", "header"}
Shutting == wpc \in {"reset", "setgen", "dead"}
TexturesHeld ==
  /\ InFrame => textures
  /\ Shutting \/ wpc = "textures" => ~textures
  /\ ~textures /\ ~disabled => \A i \in Slots : ~everPub[i]

KeyHistory == TexturesHeld /\ KeyAgrees

(* Until publish_frame returns an error, every loss has been counted. *)
Tally == wpc # "return" \/ wres \in {"none", "published"} => lost <= counted

LEMMA KeyStep ==
  TypeOK /\ Control /\ SwitchedOff /\ KeyHistory /\ [Next]_vars => KeyHistory'
  <1> SUFFICES ASSUME TypeOK, Control, SwitchedOff, KeyHistory, [Next]_vars
               PROVE  KeyHistory'
    OBVIOUS
  <1> USE DEF KeyHistory, TypeOK, Control, NoSlot, policyVars, ringVars, lifeVars,
          pcVars, slotVars, hdrVars, liveVars, tallyVars, hostVars, driverVars
  <1>1. CASE Assign
    BY <1>1 DEF TexturesHeld, KeyAgrees, InFrame, Shutting, ExpectedKey, SwitchedOff,
       RingTypes, WorkerTypes, Assign, FreshLoop
  <1>2. CASE Reassign
    BY <1>2 DEF TexturesHeld, KeyAgrees, InFrame, Shutting, ExpectedKey, SwitchedOff,
       RingTypes, WorkerTypes, Reassign, FreshLoop, Retire, Loop, ClearHistory
  <1>3. CASE DeviceCreateFails
    BY <1>3 DEF TexturesHeld, KeyAgrees, InFrame, Shutting, ExpectedKey, SwitchedOff,
       RingTypes, WorkerTypes, DeviceCreateFails
  <1>4. CASE StartLoop
    BY <1>4 DEF TexturesHeld, KeyAgrees, InFrame, Shutting, ExpectedKey, SwitchedOff,
       RingTypes, WorkerTypes, StartLoop
  <1>5. CASE ResetSlot
    BY <1>5 DEF TexturesHeld, KeyAgrees, InFrame, Shutting, ExpectedKey, SwitchedOff,
       RingTypes, WorkerTypes, ResetSlot, Advance
  <1>6. CASE SetGeneration
    BY <1>6 DEF TexturesHeld, KeyAgrees, InFrame, Shutting, ExpectedKey, SwitchedOff,
       RingTypes, WorkerTypes, SetGeneration
  <1>7. CASE MarkDead
    BY <1>7 DEF TexturesHeld, KeyAgrees, InFrame, Shutting, ExpectedKey, SwitchedOff,
       RingTypes, WorkerTypes, MarkDead, Return
  <1>8. CASE AcquireFails
    BY <1>8 DEF TexturesHeld, KeyAgrees, InFrame, Shutting, ExpectedKey, SwitchedOff,
       RingTypes, WorkerTypes, AcquireFails, AbandonSwapchain, Retire, Loop,
       ClearHistory
  <1>9. CASE ExitLost
    BY <1>9 DEF TexturesHeld, KeyAgrees, InFrame, Shutting, ExpectedKey, SwitchedOff,
       RingTypes, WorkerTypes, ExitLost
  <1>10. ASSUME NEW changed \in BOOLEAN, FrameReady(changed) PROVE KeyHistory'
    BY <1>10 DEF TexturesHeld, KeyAgrees, InFrame, Shutting, ExpectedKey, SwitchedOff,
       RingTypes, WorkerTypes, FrameReady, TransportOff, Return, Retire, Loop,
       ClearHistory
  <1>11. CASE CreateTextures
    BY <1>11 DEF TexturesHeld, KeyAgrees, InFrame, Shutting, ExpectedKey, SwitchedOff,
       RingTypes, WorkerTypes, CreateTextures, Loop
  <1>12. CASE CreateTexturesFails
    BY <1>12 DEF TexturesHeld, KeyAgrees, InFrame, Shutting, ExpectedKey, SwitchedOff,
       RingTypes, WorkerTypes, CreateTexturesFails, DisableTransport, Loop,
       Return, Errors
  <1>13. CASE ReconcileSlot
    BY <1>13 DEF TexturesHeld, KeyAgrees, InFrame, Shutting, ExpectedKey, SwitchedOff,
       RingTypes, WorkerTypes, ReconcileSlot, Advance
  <1>14. ASSUME NEW i \in Slots, Take(i) PROVE KeyHistory'
    BY <1>14 DEF TexturesHeld, KeyAgrees, InFrame, Shutting, ExpectedKey, SwitchedOff,
       RingTypes, WorkerTypes, Take, CanTake, Expected, Return
  <1>15. CASE DropFrame
    BY <1>15 DEF TexturesHeld, KeyAgrees, InFrame, Shutting, ExpectedKey, SwitchedOff,
       RingTypes, WorkerTypes, DropFrame, Return
  <1>16. CASE LockSlot
    BY <1>16 DEF TexturesHeld, KeyAgrees, InFrame, Shutting, ExpectedKey, SwitchedOff,
       RingTypes, WorkerTypes, LockSlot, AbortWrite, Return
  <1>17. CASE LockFails
    BY <1>17 DEF TexturesHeld, KeyAgrees, InFrame, Shutting, ExpectedKey, SwitchedOff,
       RingTypes, WorkerTypes, LockFails, AbortWrite, Return, Errors
  <1>18. CASE Copy
    BY <1>18 DEF TexturesHeld, KeyAgrees, InFrame, Shutting, ExpectedKey, SwitchedOff,
       RingTypes, WorkerTypes, Copy
  <1>19. CASE CopyFails
    BY <1>19 DEF TexturesHeld, KeyAgrees, InFrame, Shutting, ExpectedKey, SwitchedOff,
       RingTypes, WorkerTypes, CopyFails, AbortWrite, Return, Errors
  <1>20. CASE MarkPublished
    BY <1>20 DEF TexturesHeld, KeyAgrees, InFrame, Shutting, ExpectedKey, SwitchedOff,
       RingTypes, WorkerTypes, MarkPublished
  <1>21. CASE StoreLatest
    BY <1>21 DEF TexturesHeld, KeyAgrees, InFrame, Shutting, ExpectedKey, SwitchedOff,
       RingTypes, WorkerTypes, StoreLatest, Return
  <1>22. CASE FinishFrame
    BY <1>22 DEF TexturesHeld, KeyAgrees, InFrame, Shutting, ExpectedKey, SwitchedOff,
       RingTypes, WorkerTypes, FinishFrame, AbandonSwapchain, DisableTransport,
       Retire, Loop, ClearHistory
  <1>23. CASE RequestStop
    BY <1>23 DEF TexturesHeld, KeyAgrees, InFrame, Shutting, ExpectedKey, SwitchedOff,
       RingTypes, WorkerTypes, RequestStop
  <1>24. CASE WorkerStops
    BY <1>24 DEF TexturesHeld, KeyAgrees, InFrame, Shutting, ExpectedKey, SwitchedOff,
       RingTypes, WorkerTypes, WorkerStops
  <1>25. CASE Unplug
    BY <1>25 DEF TexturesHeld, KeyAgrees, InFrame, Shutting, ExpectedKey, SwitchedOff,
       RingTypes, WorkerTypes, Unplug
  <1>26. CASE BeginClaim
    BY <1>26 DEF TexturesHeld, KeyAgrees, InFrame, Shutting, ExpectedKey, SwitchedOff,
       RingTypes, WorkerTypes, BeginClaim, BeginScan
  <1>27. CASE ScanState
    BY <1>27 DEF TexturesHeld, KeyAgrees, InFrame, Shutting, ExpectedKey, SwitchedOff,
       RingTypes, WorkerTypes, ScanState
  <1>28. CASE ScanSeq
    BY <1>28 DEF TexturesHeld, KeyAgrees, InFrame, Shutting, ExpectedKey, SwitchedOff,
       RingTypes, WorkerTypes, ScanSeq
  <1>29. CASE NothingPublished
    BY <1>29 DEF TexturesHeld, KeyAgrees, InFrame, Shutting, ExpectedKey, SwitchedOff,
       RingTypes, WorkerTypes, NothingPublished, ClaimOver
  <1>30. CASE ClaimCas
    BY <1>30 DEF TexturesHeld, KeyAgrees, InFrame, Shutting, ExpectedKey, SwitchedOff,
       RingTypes, WorkerTypes, ClaimCas, BeginScan, ClaimOver
  <1>31. CASE RereadSlot
    BY <1>31 DEF TexturesHeld, KeyAgrees, InFrame, Shutting, ExpectedKey, SwitchedOff,
       RingTypes, WorkerTypes, RereadSlot
  <1>32. CASE ReadGeneration
    BY <1>32 DEF TexturesHeld, KeyAgrees, InFrame, Shutting, ExpectedKey, SwitchedOff,
       RingTypes, WorkerTypes, ReadGeneration, ClaimOver
  <1>33. ASSUME NEW c \in claims, Release(c) PROVE KeyHistory'
    BY <1>33 DEF TexturesHeld, KeyAgrees, InFrame, Shutting, ExpectedKey, SwitchedOff,
       RingTypes, WorkerTypes, Release
  <1>34. CASE UNCHANGED vars
    BY <1>34 DEF TexturesHeld, KeyAgrees, InFrame, Shutting, ExpectedKey, SwitchedOff,
       RingTypes, WorkerTypes, vars
  <1> QED
    BY <1>1, <1>2, <1>3, <1>4, <1>5, <1>6, <1>7, <1>8, <1>9, <1>10, <1>11,
       <1>12, <1>13, <1>14, <1>15, <1>16, <1>17, <1>18, <1>19, <1>20, <1>21,
       <1>22, <1>23, <1>24, <1>25, <1>26, <1>27, <1>28, <1>29, <1>30, <1>31,
       <1>32, <1>33, <1>34
    DEF Next, WorkerStep, SystemStep, HostStep

LEMMA TallyStep ==
  TypeOK /\ Control /\ SwitchedOff /\ Tally /\ [Next]_vars => Tally'
  <1> SUFFICES ASSUME TypeOK, Control, SwitchedOff, Tally, [Next]_vars PROVE Tally'
    OBVIOUS
  <1> USE DEF Tally, TypeOK, Control, NoSlot, policyVars, ringVars, lifeVars,
          pcVars, slotVars, hdrVars, liveVars, tallyVars, hostVars, driverVars
  <1>1. CASE Assign
    BY <1>1 DEF SwitchedOff, Assign, FreshLoop
  <1>2. CASE Reassign
    BY <1>2 DEF SwitchedOff, Reassign, FreshLoop, Retire, Loop
  <1>3. CASE DeviceCreateFails
    BY <1>3 DEF SwitchedOff, DeviceCreateFails
  <1>4. CASE StartLoop
    BY <1>4 DEF SwitchedOff, StartLoop
  <1>5. CASE ResetSlot
    BY <1>5 DEF SwitchedOff, ResetSlot, Advance
  <1>6. CASE SetGeneration
    BY <1>6 DEF SwitchedOff, SetGeneration
  <1>7. CASE MarkDead
    BY <1>7 DEF SwitchedOff, MarkDead, Return
  <1>8. CASE AcquireFails
    BY <1>8 DEF SwitchedOff, AcquireFails, AbandonSwapchain, Retire, Loop
  <1>9. CASE ExitLost
    BY <1>9 DEF SwitchedOff, ExitLost
  <1>10. ASSUME NEW changed \in BOOLEAN, FrameReady(changed) PROVE Tally'
    BY <1>10 DEF SwitchedOff, FrameReady, TransportOff, Return, Retire, Loop
  <1>11. CASE CreateTextures
    BY <1>11 DEF SwitchedOff, CreateTextures, Loop
  <1>12. CASE CreateTexturesFails
    BY <1>12 DEF SwitchedOff, CreateTexturesFails, DisableTransport, Loop, Return,
       Errors
  <1>13. CASE ReconcileSlot
    BY <1>13 DEF SwitchedOff, ReconcileSlot, Advance
  <1>14. ASSUME NEW i \in Slots, Take(i) PROVE Tally'
    BY <1>14 DEF SwitchedOff, Take, CanTake, Expected, Return, Overwritten
  <1>15. CASE DropFrame
    BY <1>15 DEF SwitchedOff, DropFrame, Return
  <1>16. CASE LockSlot
    BY <1>16 DEF SwitchedOff, LockSlot, AbortWrite, Return
  <1>17. CASE LockFails
    BY <1>17 DEF SwitchedOff, LockFails, AbortWrite, Return, Errors
  <1>18. CASE Copy
    BY <1>18 DEF SwitchedOff, Copy
  <1>19. CASE CopyFails
    BY <1>19 DEF SwitchedOff, CopyFails, AbortWrite, Return, Errors
  <1>20. CASE MarkPublished
    BY <1>20 DEF SwitchedOff, MarkPublished
  <1>21. CASE StoreLatest
    BY <1>21 DEF SwitchedOff, StoreLatest, Return
  <1>22. CASE FinishFrame
    BY <1>22 DEF SwitchedOff, FinishFrame, AbandonSwapchain, DisableTransport, Retire,
       Loop
  <1>23. CASE RequestStop
    BY <1>23 DEF SwitchedOff, RequestStop
  <1>24. CASE WorkerStops
    BY <1>24 DEF SwitchedOff, WorkerStops
  <1>25. CASE Unplug
    BY <1>25 DEF SwitchedOff, Unplug
  <1>26. CASE BeginClaim
    BY <1>26 DEF SwitchedOff, BeginClaim, BeginScan
  <1>27. CASE ScanState
    BY <1>27 DEF SwitchedOff, ScanState
  <1>28. CASE ScanSeq
    BY <1>28 DEF SwitchedOff, ScanSeq
  <1>29. CASE NothingPublished
    BY <1>29 DEF SwitchedOff, NothingPublished, ClaimOver
  <1>30. CASE ClaimCas
    BY <1>30 DEF SwitchedOff, ClaimCas, BeginScan, ClaimOver
  <1>31. CASE RereadSlot
    BY <1>31 DEF SwitchedOff, RereadSlot
  <1>32. CASE ReadGeneration
    BY <1>32 DEF SwitchedOff, ReadGeneration, ClaimOver
  <1>33. ASSUME NEW c \in claims, Release(c) PROVE Tally'
    BY <1>33 DEF SwitchedOff, Release
  <1>34. CASE UNCHANGED vars
    BY <1>34 DEF SwitchedOff, vars
  <1> QED
    BY <1>1, <1>2, <1>3, <1>4, <1>5, <1>6, <1>7, <1>8, <1>9, <1>10, <1>11,
       <1>12, <1>13, <1>14, <1>15, <1>16, <1>17, <1>18, <1>19, <1>20, <1>21,
       <1>22, <1>23, <1>24, <1>25, <1>26, <1>27, <1>28, <1>29, <1>30, <1>31,
       <1>32, <1>33, <1>34
    DEF Next, WorkerStep, SystemStep, HostStep

(* A keyed mutex is always asked for at the key it was last released at, for
   every number of slots, claims and generations. *)
THEOREM KeysNeverDisagree == Spec => []KeyAgrees
  <1> DEFINE Inv == TypeOK /\ Control /\ RingDiscipline /\ KeyHistory
  <1>1. Init => Inv
    <2>1. Init => KeyHistory
      BY DEF Init, KeyHistory, TexturesHeld, KeyAgrees, InFrame, Shutting
    <2> QED
      BY <2>1, TypingInit, DisciplineInit
  <1>2. Inv /\ [Next]_vars => Inv'
    BY TypingStep, ControlStep, DisciplineStep, KeyStep DEF RingDiscipline
  <1>3. Inv => KeyAgrees
    BY DEF KeyHistory
  <1> QED
    BY <1>1, <1>2, <1>3, PTL DEF Spec

(* frames_dropped misses no loss of a frame that publish_frame did not fail. *)
THEOREM NoLossUncounted == Spec => []LossesAreCounted
  <1> DEFINE Inv == TypeOK /\ Control /\ RingDiscipline /\ Tally
  <1>1. Init => Inv
    <2>1. Init => Tally
      BY DEF Init, Tally
    <2> QED
      BY <2>1, TypingInit, DisciplineInit
  <1>2. Inv /\ [Next]_vars => Inv'
    BY TypingStep, ControlStep, DisciplineStep, TallyStep DEF RingDiscipline
  <1>3. Inv => LossesAreCounted
    BY DEF Tally, LossesAreCounted
  <1> QED
    BY <1>1, <1>2, <1>3, PTL DEF Spec

-----------------------------------------------------------------------------
(* Frames: what the policy, the section and the claims say of each other. *)

(* No frame is available behind the reset loop, nor once it is over. *)
Cleared ==
  /\ wpc = "reset" => \A i \in Slots : i < widx => shState[i] # "PUBLISHED"
  /\ wpc \in {"setgen", "dead"} => \A i \in Slots : shState[i] # "PUBLISHED"

(* The policy knows of every published slot, so that it can tell the oldest. *)
PolicyKnows ==
  /\ wpc # "reset" =>
       \A i \in Slots : shState[i] = "PUBLISHED" => pol[i] = "Published"
  /\ wpc = "state" => pol[wslot] = "Published"

(* No sequence is in two slots. *)
Distinct ==
  /\ wpc = "state" => shSeq[wslot] + 1 = nextSeq
  /\ \A i \in Slots : shState[i] = "PUBLISHED" => shSeq[i] > 0
  /\ \A i, j \in Slots : shSeq[i] = shSeq[j] => i = j \/ shSeq[i] = 0

(* A frame that is or will be available has not been claimed before, and no two
   claims are of one frame. *)
Reachable(i) == shState[i] = "PUBLISHED" \/ (wpc = "state" /\ i = wslot)
TakenOnce ==
  /\ \A c \in claims : /\ c.truth.seq < nextSeq
                       /\ \A i \in Slots : Reachable(i) => shSeq[i] # c.truth.seq
  /\ InClaim => /\ truth.seq < nextSeq
                /\ \A i \in Slots : Reachable(i) => shSeq[i] # truth.seq
                /\ \A c \in claims : c.truth.seq # truth.seq
  /\ \A c, d \in claims : c.truth.seq = d.truth.seq => c = d

LEMMA KnownStep ==
  TypeOK /\ Control /\ RingDiscipline /\ Sequenced /\ Cleared /\ PolicyKnows
    /\ [Next]_vars => (Cleared /\ PolicyKnows)'
  <1> SUFFICES ASSUME TypeOK, Control, RingDiscipline, Sequenced, Cleared,
                         PolicyKnows, [Next]_vars
               PROVE  (Cleared /\ PolicyKnows)'
    OBVIOUS
  <1> USE NSlotsAssumption
          DEF TypeOK, Control, NoSlot, RingDiscipline, WriterMarked, Writing,
          Cleared, PolicyKnows, policyVars, ringVars, lifeVars, pcVars,
          slotVars, hdrVars, liveVars, tallyVars, hostVars, driverVars
  <1>1. CASE Assign
    BY <1>1 DEF PolicyTypes, WorkerTypes, SectionTypes, HostTypes, Slots, Assign,
       FreshLoop
  <1>2. CASE Reassign
    BY <1>2 DEF PolicyTypes, WorkerTypes, SectionTypes, HostTypes, Slots, Reassign,
       FreshLoop, Retire, Loop
  <1>3. CASE DeviceCreateFails
    BY <1>3 DEF PolicyTypes, WorkerTypes, SectionTypes, HostTypes, Slots,
       DeviceCreateFails
  <1>4. CASE StartLoop
    BY <1>4 DEF PolicyTypes, WorkerTypes, SectionTypes, HostTypes, Slots, StartLoop
  <1>5. CASE ResetSlot
    BY <1>5 DEF PolicyTypes, WorkerTypes, SectionTypes, HostTypes, Slots, ResetSlot,
       Advance
  <1>6. CASE SetGeneration
    BY <1>6 DEF PolicyTypes, WorkerTypes, SectionTypes, HostTypes, Slots,
       SetGeneration
  <1>7. CASE MarkDead
    BY <1>7 DEF PolicyTypes, WorkerTypes, SectionTypes, HostTypes, Slots, MarkDead,
       Return
  <1>8. CASE AcquireFails
    BY <1>8 DEF PolicyTypes, WorkerTypes, SectionTypes, HostTypes, Slots,
       AcquireFails, AbandonSwapchain, Retire, Loop
  <1>9. CASE ExitLost
    BY <1>9 DEF PolicyTypes, WorkerTypes, SectionTypes, HostTypes, Slots, ExitLost
  <1>10. ASSUME NEW changed \in BOOLEAN, FrameReady(changed) PROVE (Cleared /\ PolicyKnows)'
    BY <1>10 DEF PolicyTypes, WorkerTypes, SectionTypes, HostTypes, Slots, FrameReady,
       TransportOff, Return, Retire, Loop
  <1>11. CASE CreateTextures
    BY <1>11 DEF PolicyTypes, WorkerTypes, SectionTypes, HostTypes, Slots,
       CreateTextures, Loop
  <1>12. CASE CreateTexturesFails
    BY <1>12 DEF PolicyTypes, WorkerTypes, SectionTypes, HostTypes, Slots,
       CreateTexturesFails, DisableTransport, Loop, Return, Errors
  <1>13. CASE ReconcileSlot
    BY <1>13 DEF PolicyTypes, WorkerTypes, SectionTypes, HostTypes, Slots,
       ReconcileSlot, Advance, Reconciled
  <1>14. ASSUME NEW i \in Slots, Take(i) PROVE (Cleared /\ PolicyKnows)'
    BY <1>14 DEF PolicyTypes, WorkerTypes, SectionTypes, HostTypes, Slots, Take,
       CanTake, Expected, Return, Aborted, Chosen, FreeSlots
  <1>15. CASE DropFrame
    BY <1>15 DEF PolicyTypes, WorkerTypes, SectionTypes, HostTypes, Slots, DropFrame,
       Return
  <1>16. CASE LockSlot
    BY <1>16 DEF PolicyTypes, WorkerTypes, SectionTypes, HostTypes, Slots, LockSlot,
       AbortWrite, Return, Aborted
  <1>17. CASE LockFails
    BY <1>17 DEF PolicyTypes, WorkerTypes, SectionTypes, HostTypes, Slots, LockFails,
       AbortWrite, Return, Errors, Aborted
  <1>18. CASE Copy
    BY <1>18 DEF PolicyTypes, WorkerTypes, SectionTypes, HostTypes, Slots, Copy
  <1>19. CASE CopyFails
    BY <1>19 DEF PolicyTypes, WorkerTypes, SectionTypes, HostTypes, Slots, CopyFails,
       AbortWrite, Return, Errors, Aborted
  <1>20. CASE MarkPublished
    BY <1>20 DEF PolicyTypes, WorkerTypes, SectionTypes, HostTypes, Slots,
       MarkPublished
  <1>21. CASE StoreLatest
    BY <1>21 DEF PolicyTypes, WorkerTypes, SectionTypes, HostTypes, Slots,
       StoreLatest, Return
  <1>22. CASE FinishFrame
    BY <1>22 DEF PolicyTypes, WorkerTypes, SectionTypes, HostTypes, Slots,
       FinishFrame, AbandonSwapchain, DisableTransport, Retire, Loop
  <1>23. CASE RequestStop
    BY <1>23 DEF PolicyTypes, WorkerTypes, SectionTypes, HostTypes, Slots, RequestStop
  <1>24. CASE WorkerStops
    BY <1>24 DEF PolicyTypes, WorkerTypes, SectionTypes, HostTypes, Slots, WorkerStops
  <1>25. CASE Unplug
    BY <1>25 DEF PolicyTypes, WorkerTypes, SectionTypes, HostTypes, Slots, Unplug
  <1>26. CASE BeginClaim
    BY <1>26 DEF PolicyTypes, WorkerTypes, SectionTypes, HostTypes, Slots, BeginClaim,
       BeginScan
  <1>27. CASE ScanState
    BY <1>27 DEF PolicyTypes, WorkerTypes, SectionTypes, HostTypes, Slots, ScanState
  <1>28. CASE ScanSeq
    BY <1>28 DEF PolicyTypes, WorkerTypes, SectionTypes, HostTypes, Slots, ScanSeq
  <1>29. CASE NothingPublished
    BY <1>29 DEF PolicyTypes, WorkerTypes, SectionTypes, HostTypes, Slots,
       NothingPublished, ClaimOver
  <1>30. CASE ClaimCas
    BY <1>30 DEF PolicyTypes, WorkerTypes, SectionTypes, HostTypes, Slots, ClaimCas,
       BeginScan, ClaimOver
  <1>31. CASE RereadSlot
    BY <1>31 DEF PolicyTypes, WorkerTypes, SectionTypes, HostTypes, Slots, RereadSlot
  <1>32. CASE ReadGeneration
    BY <1>32 DEF PolicyTypes, WorkerTypes, SectionTypes, HostTypes, Slots,
       ReadGeneration, ClaimOver
  <1>33. ASSUME NEW c \in claims, Release(c) PROVE (Cleared /\ PolicyKnows)'
    BY <1>33 DEF PolicyTypes, WorkerTypes, SectionTypes, HostTypes, Slots, Release
  <1>34. CASE UNCHANGED vars
    BY <1>34 DEF PolicyTypes, WorkerTypes, SectionTypes, HostTypes, Slots, vars
  <1> QED
    BY <1>1, <1>2, <1>3, <1>4, <1>5, <1>6, <1>7, <1>8, <1>9, <1>10, <1>11,
       <1>12, <1>13, <1>14, <1>15, <1>16, <1>17, <1>18, <1>19, <1>20, <1>21,
       <1>22, <1>23, <1>24, <1>25, <1>26, <1>27, <1>28, <1>29, <1>30, <1>31,
       <1>32, <1>33, <1>34
    DEF Next, WorkerStep, SystemStep, HostStep

LEMMA DistinctStep ==
  TypeOK /\ Control /\ RingDiscipline /\ Sequenced /\ Distinct
    /\ [Next]_vars => Distinct'
  <1> SUFFICES ASSUME TypeOK, Control, RingDiscipline, Sequenced, Distinct,
                         [Next]_vars
               PROVE  Distinct'
    OBVIOUS
  <1> USE DEF TypeOK, Control, NoSlot, RingDiscipline, WriterMarked, Writing,
          Sequenced, Distinct, ContinuedSeq, policyVars, ringVars, lifeVars,
          pcVars, slotVars, hdrVars, liveVars, tallyVars, hostVars, driverVars
  <1>1. CASE Assign
    BY <1>1 DEF PolicyTypes, WorkerTypes, SectionTypes, HostTypes, Assign, FreshLoop
  <1>2. CASE Reassign
    BY <1>2 DEF PolicyTypes, WorkerTypes, SectionTypes, HostTypes, Reassign,
       FreshLoop, Retire, Loop
  <1>3. CASE DeviceCreateFails
    BY <1>3 DEF PolicyTypes, WorkerTypes, SectionTypes, HostTypes, DeviceCreateFails
  <1>4. CASE StartLoop
    BY <1>4 DEF PolicyTypes, WorkerTypes, SectionTypes, HostTypes, StartLoop
  <1>5. CASE ResetSlot
    BY <1>5 DEF PolicyTypes, WorkerTypes, SectionTypes, HostTypes, ResetSlot, Advance
  <1>6. CASE SetGeneration
    BY <1>6 DEF PolicyTypes, WorkerTypes, SectionTypes, HostTypes, SetGeneration
  <1>7. CASE MarkDead
    BY <1>7 DEF PolicyTypes, WorkerTypes, SectionTypes, HostTypes, MarkDead, Return
  <1>8. CASE AcquireFails
    BY <1>8 DEF PolicyTypes, WorkerTypes, SectionTypes, HostTypes, AcquireFails,
       AbandonSwapchain, Retire, Loop
  <1>9. CASE ExitLost
    BY <1>9 DEF PolicyTypes, WorkerTypes, SectionTypes, HostTypes, ExitLost
  <1>10. ASSUME NEW changed \in BOOLEAN, FrameReady(changed) PROVE Distinct'
    BY <1>10 DEF PolicyTypes, WorkerTypes, SectionTypes, HostTypes, FrameReady,
       TransportOff, Return, Retire, Loop
  <1>11. CASE CreateTextures
    BY <1>11 DEF PolicyTypes, WorkerTypes, SectionTypes, HostTypes, CreateTextures,
       Loop
  <1>12. CASE CreateTexturesFails
    BY <1>12 DEF PolicyTypes, WorkerTypes, SectionTypes, HostTypes,
       CreateTexturesFails, DisableTransport, Loop, Return, Errors
  <1>13. CASE ReconcileSlot
    BY <1>13 DEF PolicyTypes, WorkerTypes, SectionTypes, HostTypes, ReconcileSlot,
       Advance
  <1>14. ASSUME NEW i \in Slots, Take(i) PROVE Distinct'
    BY <1>14 DEF PolicyTypes, WorkerTypes, SectionTypes, HostTypes, Take, CanTake,
       Expected, Return
  <1>15. CASE DropFrame
    BY <1>15 DEF PolicyTypes, WorkerTypes, SectionTypes, HostTypes, DropFrame, Return
  <1>16. CASE LockSlot
    BY <1>16 DEF PolicyTypes, WorkerTypes, SectionTypes, HostTypes, LockSlot,
       AbortWrite, Return
  <1>17. CASE LockFails
    BY <1>17 DEF PolicyTypes, WorkerTypes, SectionTypes, HostTypes, LockFails,
       AbortWrite, Return, Errors
  <1>18. CASE Copy
    BY <1>18 DEF PolicyTypes, WorkerTypes, SectionTypes, HostTypes, Copy
  <1>19. CASE CopyFails
    BY <1>19 DEF PolicyTypes, WorkerTypes, SectionTypes, HostTypes, CopyFails,
       AbortWrite, Return, Errors
  <1>20. CASE MarkPublished
    BY <1>20 DEF PolicyTypes, WorkerTypes, SectionTypes, HostTypes, MarkPublished
  <1>21. CASE StoreLatest
    BY <1>21 DEF PolicyTypes, WorkerTypes, SectionTypes, HostTypes, StoreLatest,
       Return
  <1>22. CASE FinishFrame
    BY <1>22 DEF PolicyTypes, WorkerTypes, SectionTypes, HostTypes, FinishFrame,
       AbandonSwapchain, DisableTransport, Retire, Loop
  <1>23. CASE RequestStop
    BY <1>23 DEF PolicyTypes, WorkerTypes, SectionTypes, HostTypes, RequestStop
  <1>24. CASE WorkerStops
    BY <1>24 DEF PolicyTypes, WorkerTypes, SectionTypes, HostTypes, WorkerStops
  <1>25. CASE Unplug
    BY <1>25 DEF PolicyTypes, WorkerTypes, SectionTypes, HostTypes, Unplug
  <1>26. CASE BeginClaim
    BY <1>26 DEF PolicyTypes, WorkerTypes, SectionTypes, HostTypes, BeginClaim,
       BeginScan
  <1>27. CASE ScanState
    BY <1>27 DEF PolicyTypes, WorkerTypes, SectionTypes, HostTypes, ScanState
  <1>28. CASE ScanSeq
    BY <1>28 DEF PolicyTypes, WorkerTypes, SectionTypes, HostTypes, ScanSeq
  <1>29. CASE NothingPublished
    BY <1>29 DEF PolicyTypes, WorkerTypes, SectionTypes, HostTypes, NothingPublished,
       ClaimOver
  <1>30. CASE ClaimCas
    BY <1>30 DEF PolicyTypes, WorkerTypes, SectionTypes, HostTypes, ClaimCas,
       BeginScan, ClaimOver
  <1>31. CASE RereadSlot
    BY <1>31 DEF PolicyTypes, WorkerTypes, SectionTypes, HostTypes, RereadSlot
  <1>32. CASE ReadGeneration
    BY <1>32 DEF PolicyTypes, WorkerTypes, SectionTypes, HostTypes, ReadGeneration,
       ClaimOver
  <1>33. ASSUME NEW c \in claims, Release(c) PROVE Distinct'
    BY <1>33 DEF PolicyTypes, WorkerTypes, SectionTypes, HostTypes, Release
  <1>34. CASE UNCHANGED vars
    BY <1>34 DEF PolicyTypes, WorkerTypes, SectionTypes, HostTypes, vars
  <1> QED
    BY <1>1, <1>2, <1>3, <1>4, <1>5, <1>6, <1>7, <1>8, <1>9, <1>10, <1>11,
       <1>12, <1>13, <1>14, <1>15, <1>16, <1>17, <1>18, <1>19, <1>20, <1>21,
       <1>22, <1>23, <1>24, <1>25, <1>26, <1>27, <1>28, <1>29, <1>30, <1>31,
       <1>32, <1>33, <1>34
    DEF Next, WorkerStep, SystemStep, HostStep

LEMMA TakenStep ==
  TypeOK /\ Control /\ RingDiscipline /\ Sequenced /\ Distinct /\ TakenOnce
    /\ [Next]_vars => TakenOnce'
  <1> SUFFICES ASSUME TypeOK, Control, RingDiscipline, Sequenced, Distinct,
                         TakenOnce, [Next]_vars
               PROVE  TakenOnce'
    OBVIOUS
  <1> USE DEF TypeOK, Control, NoSlot, RingDiscipline, WriterMarked, Writing,
          Sequenced, Distinct, TakenOnce, Reachable, InClaim, ContinuedSeq,
          policyVars, ringVars, lifeVars, pcVars, slotVars, hdrVars, liveVars,
          tallyVars, hostVars, driverVars
  <1>1. CASE Assign
    BY <1>1 DEF PolicyTypes, WorkerTypes, SectionTypes, HostTypes, Claims, Assign,
       FreshLoop
  <1>2. CASE Reassign
    BY <1>2 DEF PolicyTypes, WorkerTypes, SectionTypes, HostTypes, Claims, Reassign,
       FreshLoop, Retire, Loop
  <1>3. CASE DeviceCreateFails
    BY <1>3 DEF PolicyTypes, WorkerTypes, SectionTypes, HostTypes, Claims,
       DeviceCreateFails
  <1>4. CASE StartLoop
    BY <1>4 DEF PolicyTypes, WorkerTypes, SectionTypes, HostTypes, Claims, StartLoop
  <1>5. CASE ResetSlot
    BY <1>5 DEF PolicyTypes, WorkerTypes, SectionTypes, HostTypes, Claims, ResetSlot,
       Advance
  <1>6. CASE SetGeneration
    BY <1>6 DEF PolicyTypes, WorkerTypes, SectionTypes, HostTypes, Claims,
       SetGeneration
  <1>7. CASE MarkDead
    BY <1>7 DEF PolicyTypes, WorkerTypes, SectionTypes, HostTypes, Claims, MarkDead,
       Return
  <1>8. CASE AcquireFails
    BY <1>8 DEF PolicyTypes, WorkerTypes, SectionTypes, HostTypes, Claims,
       AcquireFails, AbandonSwapchain, Retire, Loop
  <1>9. CASE ExitLost
    BY <1>9 DEF PolicyTypes, WorkerTypes, SectionTypes, HostTypes, Claims, ExitLost
  <1>10. ASSUME NEW changed \in BOOLEAN, FrameReady(changed) PROVE TakenOnce'
    BY <1>10 DEF PolicyTypes, WorkerTypes, SectionTypes, HostTypes, Claims,
       FrameReady, TransportOff, Return, Retire, Loop
  <1>11. CASE CreateTextures
    BY <1>11 DEF PolicyTypes, WorkerTypes, SectionTypes, HostTypes, Claims,
       CreateTextures, Loop
  <1>12. CASE CreateTexturesFails
    BY <1>12 DEF PolicyTypes, WorkerTypes, SectionTypes, HostTypes, Claims,
       CreateTexturesFails, DisableTransport, Loop, Return, Errors
  <1>13. CASE ReconcileSlot
    BY <1>13 DEF PolicyTypes, WorkerTypes, SectionTypes, HostTypes, Claims,
       ReconcileSlot, Advance
  <1>14. ASSUME NEW i \in Slots, Take(i) PROVE TakenOnce'
    BY <1>14 DEF PolicyTypes, WorkerTypes, SectionTypes, HostTypes, Claims, Take,
       CanTake, Expected, Return
  <1>15. CASE DropFrame
    BY <1>15 DEF PolicyTypes, WorkerTypes, SectionTypes, HostTypes, Claims, DropFrame,
       Return
  <1>16. CASE LockSlot
    BY <1>16 DEF PolicyTypes, WorkerTypes, SectionTypes, HostTypes, Claims, LockSlot,
       AbortWrite, Return
  <1>17. CASE LockFails
    BY <1>17 DEF PolicyTypes, WorkerTypes, SectionTypes, HostTypes, Claims, LockFails,
       AbortWrite, Return, Errors
  <1>18. CASE Copy
    BY <1>18 DEF PolicyTypes, WorkerTypes, SectionTypes, HostTypes, Claims, Copy
  <1>19. CASE CopyFails
    BY <1>19 DEF PolicyTypes, WorkerTypes, SectionTypes, HostTypes, Claims, CopyFails,
       AbortWrite, Return, Errors
  <1>20. CASE MarkPublished
    BY <1>20 DEF PolicyTypes, WorkerTypes, SectionTypes, HostTypes, Claims,
       MarkPublished
  <1>21. CASE StoreLatest
    BY <1>21 DEF PolicyTypes, WorkerTypes, SectionTypes, HostTypes, Claims,
       StoreLatest, Return
  <1>22. CASE FinishFrame
    BY <1>22 DEF PolicyTypes, WorkerTypes, SectionTypes, HostTypes, Claims,
       FinishFrame, AbandonSwapchain, DisableTransport, Retire, Loop
  <1>23. CASE RequestStop
    BY <1>23 DEF PolicyTypes, WorkerTypes, SectionTypes, HostTypes, Claims,
       RequestStop
  <1>24. CASE WorkerStops
    BY <1>24 DEF PolicyTypes, WorkerTypes, SectionTypes, HostTypes, Claims,
       WorkerStops
  <1>25. CASE Unplug
    BY <1>25 DEF PolicyTypes, WorkerTypes, SectionTypes, HostTypes, Claims, Unplug
  <1>26. CASE BeginClaim
    BY <1>26 DEF PolicyTypes, WorkerTypes, SectionTypes, HostTypes, Claims,
       BeginClaim, BeginScan
  <1>27. CASE ScanState
    BY <1>27 DEF PolicyTypes, WorkerTypes, SectionTypes, HostTypes, Claims, ScanState
  <1>28. CASE ScanSeq
    BY <1>28 DEF PolicyTypes, WorkerTypes, SectionTypes, HostTypes, Claims, ScanSeq
  <1>29. CASE NothingPublished
    BY <1>29 DEF PolicyTypes, WorkerTypes, SectionTypes, HostTypes, Claims,
       NothingPublished, ClaimOver
  <1>30. CASE ClaimCas
    BY <1>30 DEF PolicyTypes, WorkerTypes, SectionTypes, HostTypes, Claims, ClaimCas,
       BeginScan, ClaimOver
  <1>31. CASE RereadSlot
    BY <1>31 DEF PolicyTypes, WorkerTypes, SectionTypes, HostTypes, Claims, RereadSlot
  <1>32. CASE ReadGeneration
    BY <1>32 DEF PolicyTypes, WorkerTypes, SectionTypes, HostTypes, Claims,
       ReadGeneration, ClaimOver
  <1>33. ASSUME NEW c \in claims, Release(c) PROVE TakenOnce'
    BY <1>33 DEF PolicyTypes, WorkerTypes, SectionTypes, HostTypes, Claims, Release
  <1>34. CASE UNCHANGED vars
    BY <1>34 DEF PolicyTypes, WorkerTypes, SectionTypes, HostTypes, Claims, vars
  <1> QED
    BY <1>1, <1>2, <1>3, <1>4, <1>5, <1>6, <1>7, <1>8, <1>9, <1>10, <1>11,
       <1>12, <1>13, <1>14, <1>15, <1>16, <1>17, <1>18, <1>19, <1>20, <1>21,
       <1>22, <1>23, <1>24, <1>25, <1>26, <1>27, <1>28, <1>29, <1>30, <1>31,
       <1>32, <1>33, <1>34
    DEF Next, WorkerStep, SystemStep, HostStep

(* All of it, for any number of claims. *)
Known == /\ TypeOK /\ Control /\ RingDiscipline /\ Sequenced
         /\ Cleared /\ PolicyKnows /\ Distinct /\ TakenOnce

LEMMA KnownInit == Init => Known
  <1>1. Init => Cleared /\ PolicyKnows /\ Distinct /\ TakenOnce
    BY DEF Init, Cleared, PolicyKnows, Distinct, TakenOnce, InClaim
  <1> QED
    BY <1>1, TypingInit, DisciplineInit DEF Known

LEMMA KnownAlways == Known /\ [Next]_vars => Known'
  BY TypingStep, ControlStep, DisciplineStep, SequencedStep, KnownStep, DistinctStep,
     TakenStep DEF Known

-----------------------------------------------------------------------------
(* What a claim is worth. *)

Scanning == hpc \in {"scan", "scanSeq"}

(* Of a frame that was available when the scan began: it is still ahead of the
   scan or already bettered by the candidate ... *)
Coming(s) == \E j \in Slots : /\ shState[j] = "PUBLISHED" /\ shSeq[j] = s
                              /\ j >= hidx \/ (cand # NoSlot /\ candSeq >= s)

(* ... or it was overwritten, and then everything available is newer. *)
Overtaken(s) == \A i \in Slots : shState[i] = "PUBLISHED" => shSeq[i] >= s

ScanSound ==
  /\ \A s \in visible : s \in Nat /\ s < nextSeq
  /\ Scanning /\ cand # NoSlot => candSeq <= shSeq[cand]
  /\ Scanning /\ ~disabled /\ wpc # "reset" =>
       \A s \in visible : Coming(s) \/ Overtaken(s)
Freshness == ScanSound /\ ClaimIsFresh

(* The label is read from the slot the CAS took, which the writer leaves alone. *)
Labelled ==
  /\ InClaim /\ truth.gen = gen => shSeq[cand] = truth.seq
  /\ hpc = "regen" /\ truth.gen = gen => claimSeq = truth.seq
  /\ ClaimCoherent

LEMMA FreshStep ==
  TypeOK /\ Control /\ RingDiscipline /\ Sequenced /\ Cleared /\ PolicyKnows
    /\ Distinct /\ Freshness /\ [Next]_vars => Freshness'
  <1> SUFFICES ASSUME TypeOK, Control, RingDiscipline, Sequenced, Cleared,
                         PolicyKnows, Distinct, Freshness, [Next]_vars
               PROVE  Freshness'
    OBVIOUS
  <1> USE NSlotsAssumption
          DEF TypeOK, Control, NoSlot, RingDiscipline, WriterMarked, Writing,
          Sequenced, Freshness, ScanSound, ClaimIsFresh, Coming, Overtaken,
          Scanning, InClaim, ContinuedSeq, policyVars, ringVars, lifeVars,
          pcVars, slotVars, hdrVars, liveVars, tallyVars, hostVars, driverVars
  <1>1. CASE Assign
    BY <1>1 DEF PolicyTypes, WorkerTypes, SectionTypes, HostTypes, Slots, Assign,
       FreshLoop
  <1>2. CASE Reassign
    BY <1>2 DEF PolicyTypes, WorkerTypes, SectionTypes, HostTypes, Slots, Reassign,
       FreshLoop, Retire, Loop, Generations
  <1>3. CASE DeviceCreateFails
    BY <1>3 DEF PolicyTypes, WorkerTypes, SectionTypes, HostTypes, Slots,
       DeviceCreateFails
  <1>4. CASE StartLoop
    BY <1>4 DEF PolicyTypes, WorkerTypes, SectionTypes, HostTypes, Slots, StartLoop
  <1>5. CASE ResetSlot
    BY <1>5 DEF PolicyTypes, WorkerTypes, SectionTypes, HostTypes, Slots, ResetSlot,
       Advance, Cleared
  <1>6. CASE SetGeneration
    BY <1>6 DEF PolicyTypes, WorkerTypes, SectionTypes, HostTypes, Slots,
       SetGeneration
  <1>7. CASE MarkDead
    BY <1>7 DEF PolicyTypes, WorkerTypes, SectionTypes, HostTypes, Slots, MarkDead,
       Return
  <1>8. CASE AcquireFails
    <2>1. /\ wpc' = "reset" /\ gen' = gen + 1 /\ nextSeq' = nextSeq
          /\ UNCHANGED <<shSeq, shState, hdrGen, disabled, hpc, cand, candSeq, hidx,
                         truth, visible>>
      BY <1>8 DEF AcquireFails, AbandonSwapchain, Retire, Loop
    <2>2. InClaim => truth.gen # gen'
      BY <2>1 DEF Generations, PolicyTypes, SectionTypes, HostTypes
    <2> QED
      BY <2>1, <2>2
  <1>9. CASE ExitLost
    BY <1>9 DEF PolicyTypes, WorkerTypes, SectionTypes, HostTypes, Slots, ExitLost
  <1>10. ASSUME NEW changed \in BOOLEAN, FrameReady(changed) PROVE Freshness'
    <2>1. /\ nextSeq' = nextSeq
          /\ UNCHANGED <<shSeq, shState, hdrGen, disabled, hpc, cand, candSeq, hidx,
                         truth, visible>>
          /\ (wpc' = "reset" /\ gen' = gen + 1) \/ (wpc = "idle" /\ gen' = gen)
      BY <1>10 DEF FrameReady, Return, Retire, Loop, ContinuedSeq
    <2>2. InClaim /\ gen' # gen => truth.gen # gen'
      BY <2>1 DEF Generations, PolicyTypes, SectionTypes, HostTypes
    <2> QED
      BY <2>1, <2>2
  <1>11. CASE CreateTextures
    BY <1>11 DEF PolicyTypes, WorkerTypes, SectionTypes, HostTypes, Slots,
       CreateTextures, Loop
  <1>12. CASE CreateTexturesFails
    BY <1>12 DEF PolicyTypes, WorkerTypes, SectionTypes, HostTypes, Slots,
       CreateTexturesFails, DisableTransport, Loop, Return, Errors
  <1>13. CASE ReconcileSlot
    BY <1>13 DEF PolicyTypes, WorkerTypes, SectionTypes, HostTypes, Slots,
       ReconcileSlot, Advance
  <1>14. ASSUME NEW i \in Slots, Take(i) PROVE Freshness'
    <2> USE <1>14 DEF Take, CanTake, Expected, Return, PolicyTypes, WorkerTypes,
            SectionTypes, HostTypes, Slots
    <2>1. /\ \A s \in visible' : s \in Nat /\ s < nextSeq'
          /\ (Scanning /\ cand # NoSlot => candSeq <= shSeq[cand])'
      OBVIOUS
    <2>2. ASSUME Scanning', ~disabled', wpc' # "reset", NEW s \in visible'
          PROVE  Coming(s)' \/ Overtaken(s)'
      <3>1. UNCHANGED <<shSeq, hidx, cand, candSeq, visible, disabled>> /\ wpc = "take"
        OBVIOUS
      <3>2. Coming(s) \/ Overtaken(s)
        BY SMTT(30), <2>2, <3>1
      <3>3. \A j \in Slots : shState'[j] = "PUBLISHED" => shState[j] = "PUBLISHED"
        OBVIOUS
      <3>4. CASE Overtaken(s)
        BY <3>1, <3>3, <3>4
      <3>5. CASE Coming(s)
        <4>1. PICK j \in Slots : /\ shState[j] = "PUBLISHED" /\ shSeq[j] = s
                                 /\ j >= hidx \/ (cand # NoSlot /\ candSeq >= s)
          BY <3>5
        <4>2. CASE shState'[j] = "PUBLISHED"
          BY <3>1, <4>1, <4>2
        <4>3. CASE shState'[j] # "PUBLISHED"
          <5>1. j = i /\ pol[i] = "Published" /\ IsOldest(i)
            BY <3>1, <4>1, <4>3 DEF PolicyKnows, Chosen, IsFirstFree, FreeSlots
          <5>2. \A k \in Slots : shState[k] = "PUBLISHED" => shSeq[k] >= s
            BY <3>1, <4>1, <5>1 DEF PolicyKnows, IsOldest, PublishedSlots
          <5> QED
            BY <3>1, <3>3, <5>2
        <4> QED
          BY <4>2, <4>3
      <3> QED
        BY <3>2, <3>4, <3>5
    <2>3. ClaimIsFresh'
      OBVIOUS
    <2> QED
      BY <2>1, <2>2, <2>3
  <1>15. CASE DropFrame
    BY <1>15 DEF PolicyTypes, WorkerTypes, SectionTypes, HostTypes, Slots, DropFrame,
       Return
  <1>16. CASE LockSlot
    BY <1>16 DEF PolicyTypes, WorkerTypes, SectionTypes, HostTypes, Slots, LockSlot,
       AbortWrite, Return
  <1>17. CASE LockFails
    BY <1>17 DEF PolicyTypes, WorkerTypes, SectionTypes, HostTypes, Slots, LockFails,
       AbortWrite, Return, Errors
  <1>18. CASE Copy
    <2> USE <1>18 DEF Copy, PolicyTypes, WorkerTypes, SectionTypes, HostTypes, Slots
    <2>1. /\ \A s \in visible' : s \in Nat /\ s < nextSeq'
          /\ (Scanning /\ cand # NoSlot => candSeq <= shSeq[cand])'
      OBVIOUS
    <2>2. ASSUME Scanning', ~disabled', wpc' # "reset", NEW s \in visible'
          PROVE  Coming(s)' \/ Overtaken(s)'
      <3>1. /\ shState[wslot] # "PUBLISHED"
            /\ UNCHANGED <<shState, hidx, cand, candSeq, visible>>
        BY DEF Writing
      <3>2. \A j \in Slots : shState[j] = "PUBLISHED" => shSeq'[j] = shSeq[j]
        BY <3>1
      <3>3. Coming(s) \/ Overtaken(s)
        BY <2>2, <3>1
      <3> QED
        BY <3>1, <3>2, <3>3
    <2>3. ClaimIsFresh'
      OBVIOUS
    <2> QED
      BY <2>1, <2>2, <2>3
  <1>19. CASE CopyFails
    BY <1>19 DEF PolicyTypes, WorkerTypes, SectionTypes, HostTypes, Slots, CopyFails,
       AbortWrite, Return, Errors
  <1>20. CASE MarkPublished
    <2> USE <1>20 DEF MarkPublished, Distinct, PolicyTypes, WorkerTypes, SectionTypes,
            HostTypes, Slots
    <2>1. /\ \A s \in visible' : s \in Nat /\ s < nextSeq'
          /\ (Scanning /\ cand # NoSlot => candSeq <= shSeq[cand])'
      OBVIOUS
    <2>2. ASSUME Scanning', ~disabled', wpc' # "reset", NEW s \in visible'
          PROVE  Coming(s)' \/ Overtaken(s)'
      <3>1. /\ \A j \in Slots : shState[j] = "PUBLISHED" => shState'[j] = "PUBLISHED"
            /\ \A j \in Slots : shState'[j] = "PUBLISHED" => j = wslot \/ shState[j] = "PUBLISHED"
            /\ shSeq[wslot] >= s
            /\ UNCHANGED <<shSeq, hidx, cand, candSeq, visible>>
        BY <2>2
      <3>2. Coming(s) \/ Overtaken(s)
        BY <2>2, <3>1
      <3> QED
        BY <3>1, <3>2
    <2>3. ClaimIsFresh'
      OBVIOUS
    <2> QED
      BY <2>1, <2>2, <2>3
  <1>21. CASE StoreLatest
    BY <1>21 DEF PolicyTypes, WorkerTypes, SectionTypes, HostTypes, Slots,
       StoreLatest, Return
  <1>22. CASE FinishFrame
    <2> USE DEF PolicyTypes, WorkerTypes, SectionTypes, HostTypes, Slots
    <2>1. /\ UNCHANGED <<shState, shSeq, hdrGen, hpc, hidx, cand, candSeq, visible, truth>>
          /\ UNCHANGED claims /\ wpc = "return"
      BY <1>22 DEF FinishFrame, AbandonSwapchain, DisableTransport, Retire, Loop
    <2>2. nextSeq' = nextSeq /\ (~disabled' => ~disabled)
      BY <1>22 DEF FinishFrame, AbandonSwapchain, DisableTransport, Retire, Loop
    <2>3. gen' = gen \/ gen' = gen + 1
      BY <1>22 DEF FinishFrame, AbandonSwapchain, DisableTransport, Retire, Loop
    <2>4. ScanSound'
      BY <2>1, <2>2
    <2>5. ClaimIsFresh'
      <3>1. InClaim => truth.gen <= gen
        BY <2>1 DEF Generations
      <3> QED
        BY <2>1, <2>2, <2>3, <3>1
    <2> QED
      BY <2>4, <2>5
  <1>23. CASE RequestStop
    BY <1>23 DEF PolicyTypes, WorkerTypes, SectionTypes, HostTypes, Slots, RequestStop
  <1>24. CASE WorkerStops
    BY <1>24 DEF PolicyTypes, WorkerTypes, SectionTypes, HostTypes, Slots, WorkerStops
  <1>25. CASE Unplug
    BY <1>25 DEF PolicyTypes, WorkerTypes, SectionTypes, HostTypes, Slots, Unplug
  <1>26. CASE BeginClaim
    <2> USE <1>26 DEF BeginClaim, BeginScan, Available, PolicyTypes, WorkerTypes,
            SectionTypes, HostTypes, Slots
    <2>1. /\ \A s \in visible' : s \in Nat /\ s < nextSeq'
          /\ (Scanning /\ cand # NoSlot => candSeq <= shSeq[cand])'
      OBVIOUS
    <2>2. ASSUME Scanning', ~disabled', wpc' # "reset", NEW s \in visible'
          PROVE  Coming(s)' \/ Overtaken(s)'
      <3>1. PICK j \in Slots : shState[j] = "PUBLISHED" /\ shSeq[j] = s
        OBVIOUS
      <3>2. hidx' = 0 /\ UNCHANGED <<shState, shSeq>>
        OBVIOUS
      <3> QED
        BY <3>1, <3>2
    <2>3. ClaimIsFresh'
      OBVIOUS
    <2> QED
      BY <2>1, <2>2, <2>3
  <1>27. CASE ScanState
    BY <1>27 DEF PolicyTypes, WorkerTypes, SectionTypes, HostTypes, Slots, ScanState
  <1>28. CASE ScanSeq
    <2> USE <1>28 DEF ScanSeq, Fresher, PolicyTypes, WorkerTypes, SectionTypes,
            HostTypes, Slots
    <2>1. /\ \A s \in visible' : s \in Nat /\ s < nextSeq'
          /\ (Scanning /\ cand # NoSlot => candSeq <= shSeq[cand])'
      OBVIOUS
    <2>2. ASSUME Scanning', ~disabled', wpc' # "reset", NEW s \in visible'
          PROVE  Coming(s)' \/ Overtaken(s)'
      <3>1. UNCHANGED <<shState, shSeq, visible, disabled, wpc>>
            /\ hidx' = hidx + 1 /\ hidx \in Slots /\ s \in Nat
        BY <2>2
      <3>2. cand' # NoSlot /\ (cand # NoSlot => candSeq' >= candSeq) /\ candSeq' >= shSeq[hidx]
        BY <2>2
      <3>3. Coming(s) \/ Overtaken(s)
        BY <2>2, <3>1
      <3>4. CASE Overtaken(s)
        BY <3>1, <3>4
      <3>5. CASE Coming(s)
        BY <3>1, <3>2, <3>5
      <3> QED
        BY <3>3, <3>4, <3>5
    <2>3. ClaimIsFresh'
      OBVIOUS
    <2> QED
      BY <2>1, <2>2, <2>3
  <1>29. CASE NothingPublished
    BY <1>29 DEF PolicyTypes, WorkerTypes, SectionTypes, HostTypes, Slots,
       NothingPublished, ClaimOver
  <1>30. CASE ClaimCas
    <2> USE <1>30 DEF PolicyTypes, WorkerTypes, SectionTypes, HostTypes, Slots
    <2>1. CASE hpc' = "reread"
      <3>1. /\ hpc = "scan" /\ hidx = NSlots /\ cand \in Slots /\ shState[cand] = "PUBLISHED"
            /\ truth' = [seq |-> shSeq[cand], gen |-> hdrGen]
            /\ UNCHANGED <<visible, gen, disabled, nextSeq, wpc, wnext, hdrGen>>
        BY <2>1 DEF ClaimCas, BeginScan, ClaimOver
      <3>2. ASSUME hdrGen = gen, ~disabled, NEW s \in visible
            PROVE  shSeq[cand] >= s
        <4>1. wpc # "reset"
          BY <3>2 DEF Generations
        <4>2. Coming(s) \/ Overtaken(s)
          BY <3>1, <3>2, <4>1
        <4> QED
          BY <3>1, <4>2
      <3> QED
        BY <2>1, <3>1, <3>2
    <2>2. CASE hpc' = "scan"
      <3>1. /\ hidx' = 0 /\ cand' = NoSlot /\ visible' = {shSeq[i] : i \in Available}
            /\ UNCHANGED <<shState, shSeq, nextSeq>>
        BY <2>2 DEF ClaimCas, BeginScan, ClaimOver
      <3>2. ASSUME NEW s \in visible' PROVE Coming(s)' /\ s \in Nat /\ s < nextSeq'
        <4>1. PICK i \in Slots : shState[i] = "PUBLISHED" /\ s = shSeq[i]
          BY <3>1 DEF Available
        <4>2. Coming(s)'
          BY <3>1, <4>1
        <4>3. s \in Nat /\ s < nextSeq'
          BY <3>1, <4>1
        <4> QED
          BY <4>2, <4>3
      <3>3. ClaimIsFresh'
        BY <2>2
      <3>4. ScanSound'
        <4>1. (Scanning /\ cand # NoSlot => candSeq <= shSeq[cand])'
          BY <3>1
        <4> QED
          BY <3>2, <4>1
      <3> QED
        BY <3>3, <3>4
    <2>3. CASE hpc' = "idle"
      BY <2>3 DEF ClaimCas, BeginScan, ClaimOver
    <2> QED
      BY <2>1, <2>2, <2>3 DEF ClaimCas, BeginScan, ClaimOver
  <1>31. CASE RereadSlot
    BY <1>31 DEF PolicyTypes, WorkerTypes, SectionTypes, HostTypes, Slots, RereadSlot
  <1>32. CASE ReadGeneration
    BY <1>32 DEF PolicyTypes, WorkerTypes, SectionTypes, HostTypes, Slots,
       ReadGeneration, ClaimOver
  <1>33. ASSUME NEW c \in claims, Release(c) PROVE Freshness'
    BY <1>33 DEF PolicyTypes, WorkerTypes, SectionTypes, HostTypes, Slots, Release
  <1>34. CASE UNCHANGED vars
    BY <1>34 DEF PolicyTypes, WorkerTypes, SectionTypes, HostTypes, Slots, vars
  <1> QED
    BY <1>1, <1>2, <1>3, <1>4, <1>5, <1>6, <1>7, <1>8, <1>9, <1>10, <1>11,
       <1>12, <1>13, <1>14, <1>15, <1>16, <1>17, <1>18, <1>19, <1>20, <1>21,
       <1>22, <1>23, <1>24, <1>25, <1>26, <1>27, <1>28, <1>29, <1>30, <1>31,
       <1>32, <1>33, <1>34
    DEF Next, WorkerStep, SystemStep, HostStep

LEMMA LabelStep ==
  TypeOK /\ Control /\ RingDiscipline /\ Guarded /\ Labelled
    /\ [Next]_vars => Labelled'
  <1> SUFFICES ASSUME TypeOK, Control, RingDiscipline, Guarded, Labelled,
                         [Next]_vars
               PROVE  Labelled'
    OBVIOUS
  <1> USE DEF TypeOK, Control, NoSlot, RingDiscipline, WriterMarked, Writing,
          Generations, SwitchedOff, Guarded, Labelled, ClaimCoherent, InClaim,
          ContinuedSeq, policyVars, ringVars, lifeVars, pcVars, slotVars,
          hdrVars, liveVars, tallyVars, hostVars, driverVars
  <1>1. CASE Assign
    BY <1>1 DEF PolicyTypes, WorkerTypes, SectionTypes, HostTypes, Claims, Assign,
       FreshLoop
  <1>2. CASE Reassign
    BY <1>2 DEF PolicyTypes, WorkerTypes, SectionTypes, HostTypes, Claims, Reassign,
       FreshLoop, Retire, Loop
  <1>3. CASE DeviceCreateFails
    BY <1>3 DEF PolicyTypes, WorkerTypes, SectionTypes, HostTypes, Claims,
       DeviceCreateFails
  <1>4. CASE StartLoop
    BY <1>4 DEF PolicyTypes, WorkerTypes, SectionTypes, HostTypes, Claims, StartLoop
  <1>5. CASE ResetSlot
    BY <1>5 DEF PolicyTypes, WorkerTypes, SectionTypes, HostTypes, Claims, ResetSlot,
       Advance
  <1>6. CASE SetGeneration
    BY <1>6 DEF PolicyTypes, WorkerTypes, SectionTypes, HostTypes, Claims,
       SetGeneration
  <1>7. CASE MarkDead
    BY <1>7 DEF PolicyTypes, WorkerTypes, SectionTypes, HostTypes, Claims, MarkDead,
       Return
  <1>8. CASE AcquireFails
    BY <1>8 DEF PolicyTypes, WorkerTypes, SectionTypes, HostTypes, Claims,
       AcquireFails, AbandonSwapchain, Retire, Loop
  <1>9. CASE ExitLost
    BY <1>9 DEF PolicyTypes, WorkerTypes, SectionTypes, HostTypes, Claims, ExitLost
  <1>10. ASSUME NEW changed \in BOOLEAN, FrameReady(changed) PROVE Labelled'
    BY <1>10 DEF PolicyTypes, WorkerTypes, SectionTypes, HostTypes, Claims,
       FrameReady, TransportOff, Return, Retire, Loop
  <1>11. CASE CreateTextures
    BY <1>11 DEF PolicyTypes, WorkerTypes, SectionTypes, HostTypes, Claims,
       CreateTextures, Loop
  <1>12. CASE CreateTexturesFails
    BY <1>12 DEF PolicyTypes, WorkerTypes, SectionTypes, HostTypes, Claims,
       CreateTexturesFails, DisableTransport, Loop, Return, Errors
  <1>13. CASE ReconcileSlot
    BY <1>13 DEF PolicyTypes, WorkerTypes, SectionTypes, HostTypes, Claims,
       ReconcileSlot, Advance
  <1>14. ASSUME NEW i \in Slots, Take(i) PROVE Labelled'
    BY <1>14 DEF PolicyTypes, WorkerTypes, SectionTypes, HostTypes, Claims, Take,
       CanTake, Expected, Return
  <1>15. CASE DropFrame
    BY <1>15 DEF PolicyTypes, WorkerTypes, SectionTypes, HostTypes, Claims, DropFrame,
       Return
  <1>16. CASE LockSlot
    BY <1>16 DEF PolicyTypes, WorkerTypes, SectionTypes, HostTypes, Claims, LockSlot,
       AbortWrite, Return
  <1>17. CASE LockFails
    BY <1>17 DEF PolicyTypes, WorkerTypes, SectionTypes, HostTypes, Claims, LockFails,
       AbortWrite, Return, Errors
  <1>18. CASE Copy
    BY <1>18 DEF PolicyTypes, WorkerTypes, SectionTypes, HostTypes, Claims, Copy
  <1>19. CASE CopyFails
    BY <1>19 DEF PolicyTypes, WorkerTypes, SectionTypes, HostTypes, Claims, CopyFails,
       AbortWrite, Return, Errors
  <1>20. CASE MarkPublished
    BY <1>20 DEF PolicyTypes, WorkerTypes, SectionTypes, HostTypes, Claims,
       MarkPublished
  <1>21. CASE StoreLatest
    BY <1>21 DEF PolicyTypes, WorkerTypes, SectionTypes, HostTypes, Claims,
       StoreLatest, Return
  <1>22. CASE FinishFrame
    BY <1>22 DEF PolicyTypes, WorkerTypes, SectionTypes, HostTypes, Claims,
       FinishFrame, AbandonSwapchain, DisableTransport, Retire, Loop
  <1>23. CASE RequestStop
    BY <1>23 DEF PolicyTypes, WorkerTypes, SectionTypes, HostTypes, Claims,
       RequestStop
  <1>24. CASE WorkerStops
    BY <1>24 DEF PolicyTypes, WorkerTypes, SectionTypes, HostTypes, Claims,
       WorkerStops
  <1>25. CASE Unplug
    BY <1>25 DEF PolicyTypes, WorkerTypes, SectionTypes, HostTypes, Claims, Unplug
  <1>26. CASE BeginClaim
    BY <1>26 DEF PolicyTypes, WorkerTypes, SectionTypes, HostTypes, Claims,
       BeginClaim, BeginScan
  <1>27. CASE ScanState
    BY <1>27 DEF PolicyTypes, WorkerTypes, SectionTypes, HostTypes, Claims, ScanState
  <1>28. CASE ScanSeq
    BY <1>28 DEF PolicyTypes, WorkerTypes, SectionTypes, HostTypes, Claims, ScanSeq
  <1>29. CASE NothingPublished
    BY <1>29 DEF PolicyTypes, WorkerTypes, SectionTypes, HostTypes, Claims,
       NothingPublished, ClaimOver
  <1>30. CASE ClaimCas
    BY <1>30 DEF PolicyTypes, WorkerTypes, SectionTypes, HostTypes, Claims, ClaimCas,
       BeginScan, ClaimOver
  <1>31. CASE RereadSlot
    BY <1>31 DEF PolicyTypes, WorkerTypes, SectionTypes, HostTypes, Claims,
       RereadSlot, ClaimLabel
  <1>32. CASE ReadGeneration
    BY <1>32 DEF PolicyTypes, WorkerTypes, SectionTypes, HostTypes, Claims,
       ReadGeneration, ClaimOver
  <1>33. ASSUME NEW c \in claims, Release(c) PROVE Labelled'
    BY <1>33 DEF PolicyTypes, WorkerTypes, SectionTypes, HostTypes, Claims, Release
  <1>34. CASE UNCHANGED vars
    BY <1>34 DEF PolicyTypes, WorkerTypes, SectionTypes, HostTypes, Claims, vars
  <1> QED
    BY <1>1, <1>2, <1>3, <1>4, <1>5, <1>6, <1>7, <1>8, <1>9, <1>10, <1>11,
       <1>12, <1>13, <1>14, <1>15, <1>16, <1>17, <1>18, <1>19, <1>20, <1>21,
       <1>22, <1>23, <1>24, <1>25, <1>26, <1>27, <1>28, <1>29, <1>30, <1>31,
       <1>32, <1>33, <1>34
    DEF Next, WorkerStep, SystemStep, HostStep

(* A claim is never of a frame older than the freshest available when its scan
   began, however many claims the consumer holds and whatever the writer
   overwrites behind the scan. *)
THEOREM ClaimsAreFresh == Spec => []ClaimIsFresh
  <1>1. Init => Known /\ Freshness
    <2>1. Init => Freshness
      BY DEF Init, Freshness, ScanSound, ClaimIsFresh, Scanning, InClaim, NoSlot
    <2> QED
      BY <2>1, KnownInit
  <1>2. Known /\ Freshness /\ [Next]_vars => (Known /\ Freshness)'
    BY KnownAlways, FreshStep DEF Known
  <1>3. Freshness => ClaimIsFresh
    BY DEF Freshness
  <1> QED
    BY <1>1, <1>2, <1>3, PTL DEF Spec

(* With one claim at a time a claim is also labelled with the frame it took. *)
THEOREM ClaimsSound ==
  ASSUME MaxClaims = 1
  PROVE  Spec => []ClaimsAreSound
  <1> DEFINE Inv == Known /\ Exclusion /\ Freshness /\ Labelled
  <1>1. Init => Inv
    <2>1. Init => Freshness /\ Labelled
      BY DEF Init, Freshness, ScanSound, ClaimIsFresh, Scanning, InClaim, NoSlot,
             Labelled, ClaimCoherent
    <2> QED
      BY <2>1, KnownInit, ExclusionInit
  <1>2. Inv /\ [Next]_vars => Inv'
    BY KnownAlways, FreshStep, LabelStep, ExclusionStep DEF Known, Exclusion
  <1>3. Inv => ClaimsAreSound
    BY DEF Freshness, Labelled, ClaimsAreSound
  <1> QED
    BY <1>1, <1>2, <1>3, PTL DEF Spec

-----------------------------------------------------------------------------
(* The freshest frame. *)

(* The newest frame is the last one numbered; the header follows it, and the
   generation, except while they are being stored. *)
NewestNumbered ==
  IF wpc \in {"state", "header"} THEN shSeq[wslot] + 1 = nextSeq
                                 ELSE hdrLatest + 1 = nextSeq
HeaderCurrent ==
  hdrGen = gen \/ wpc = "setgen" \/ (wpc = "reset" /\ wnext \notin {"dead", "quiet"})
WorkerAssigned == wpc # "none" => assigned /\ ~retired

Bookkeeping == NewestNumbered /\ HeaderCurrent /\ WorkerAssigned

(* Only a failed publish leaves the policy with a slot it is not writing, and then
   nothing more is written before the policy is rebuilt ... *)
WritingKnown ==
  ~disabled => \A k \in Slots : pol[k] = "Writing" =>
    \/ k = wslot /\ wpc \in {"lock", "copy"}
    \/ wpc = "return" /\ wres \in {"error", "lost"}
    \/ wpc = "none" /\ assigned /\ ~retired

(* ... and the section agrees with it on the slots being written. *)
WritingAgrees ==
  \A k \in Slots : shState[k] = "WRITING" =>
    \/ pol[k] = "Writing"
    \/ wpc = "state" /\ k = wslot
    \/ wpc = "reset" /\ k >= widx

(* A slot is READING only while it is claimed. *)
ReadersKnown ==
  \A k \in Slots : shState[k] = "READING" =>
    (InClaim /\ cand = k) \/ \E c \in claims : c.slot = k

(* While the newest frame is available, one writer's pass over the slots meets at
   most one being read: whoever claims next takes the newest. *)
Newest(i) == shSeq[i] + 1 = nextSeq
Reconciling(k) == wpc = "take" \/ (wpc = "reconcile" /\ k < widx)
SeenReading(k) == Reconciling(k) /\ pol[k] = "Reading"
OneSeenReading ==
  ~disabled => \A i, k \in Slots :
    Newest(i) /\ shState[i] = "PUBLISHED" /\ SeenReading(k) =>
      /\ \A l \in Slots : SeenReading(l) => l = k
      /\ \A l \in Slots : shState[l] = "READING" => l = k
      /\ Scanning => shSeq[i] \in visible

(* The newest frame of the generation is available, about to be, claimed, or was
   used. *)
Surviving(i) ==
  \/ shState[i] = "PUBLISHED"
  \/ wpc = "state" /\ wslot = i
  \/ InClaim /\ cand = i /\ truth.seq = shSeq[i] /\ truth.gen = gen
  \/ \E c \in claims : c.truth.seq = shSeq[i] /\ c.truth.gen = gen /\ c.gen = gen
  \/ shSeq[i] <= delivered
NewestSurvives ==
  ~disabled /\ (\E j \in Slots : everPub[j]) => \E i \in Slots : Newest(i) /\ Surviving(i)

LEMMA BookkeepingStep ==
  TypeOK /\ Control /\ Bookkeeping /\ [Next]_vars => Bookkeeping'
  <1> SUFFICES ASSUME TypeOK, Control, Bookkeeping, [Next]_vars PROVE Bookkeeping'
    OBVIOUS
  <1> USE DEF TypeOK, Control, NoSlot, Bookkeeping, NewestNumbered, HeaderCurrent,
          WorkerAssigned, ContinuedSeq, policyVars, ringVars, lifeVars, pcVars,
          slotVars, hdrVars, liveVars, tallyVars, hostVars, driverVars
  <1>1. CASE Assign
    BY <1>1 DEF PolicyTypes, WorkerTypes, SectionTypes, Assign, FreshLoop
  <1>2. CASE Reassign
    BY <1>2 DEF PolicyTypes, WorkerTypes, SectionTypes, Reassign, FreshLoop, Retire,
       Loop
  <1>3. CASE DeviceCreateFails
    BY <1>3 DEF PolicyTypes, WorkerTypes, SectionTypes, DeviceCreateFails
  <1>4. CASE StartLoop
    BY <1>4 DEF PolicyTypes, WorkerTypes, SectionTypes, StartLoop
  <1>5. CASE ResetSlot
    BY <1>5 DEF PolicyTypes, WorkerTypes, SectionTypes, ResetSlot, Advance
  <1>6. CASE SetGeneration
    BY <1>6 DEF PolicyTypes, WorkerTypes, SectionTypes, SetGeneration
  <1>7. CASE MarkDead
    BY <1>7 DEF PolicyTypes, WorkerTypes, SectionTypes, MarkDead, Return
  <1>8. CASE AcquireFails
    BY <1>8 DEF PolicyTypes, WorkerTypes, SectionTypes, AcquireFails,
       AbandonSwapchain, Retire, Loop
  <1>9. CASE ExitLost
    BY <1>9 DEF PolicyTypes, WorkerTypes, SectionTypes, ExitLost
  <1>10. ASSUME NEW changed \in BOOLEAN, FrameReady(changed) PROVE Bookkeeping'
    BY <1>10 DEF PolicyTypes, WorkerTypes, SectionTypes, FrameReady, TransportOff,
       Return, Retire, Loop
  <1>11. CASE CreateTextures
    BY <1>11 DEF PolicyTypes, WorkerTypes, SectionTypes, CreateTextures, Loop
  <1>12. CASE CreateTexturesFails
    BY <1>12 DEF PolicyTypes, WorkerTypes, SectionTypes, CreateTexturesFails,
       DisableTransport, Loop, Return, Errors
  <1>13. CASE ReconcileSlot
    BY <1>13 DEF PolicyTypes, WorkerTypes, SectionTypes, ReconcileSlot, Advance
  <1>14. ASSUME NEW i \in Slots, Take(i) PROVE Bookkeeping'
    BY <1>14 DEF PolicyTypes, WorkerTypes, SectionTypes, Take, CanTake, Expected,
       Return
  <1>15. CASE DropFrame
    BY <1>15 DEF PolicyTypes, WorkerTypes, SectionTypes, DropFrame, Return
  <1>16. CASE LockSlot
    BY <1>16 DEF PolicyTypes, WorkerTypes, SectionTypes, LockSlot, AbortWrite, Return
  <1>17. CASE LockFails
    BY <1>17 DEF PolicyTypes, WorkerTypes, SectionTypes, LockFails, AbortWrite,
       Return, Errors
  <1>18. CASE Copy
    BY <1>18 DEF PolicyTypes, WorkerTypes, SectionTypes, Copy
  <1>19. CASE CopyFails
    BY <1>19 DEF PolicyTypes, WorkerTypes, SectionTypes, CopyFails, AbortWrite,
       Return, Errors
  <1>20. CASE MarkPublished
    BY <1>20 DEF PolicyTypes, WorkerTypes, SectionTypes, MarkPublished
  <1>21. CASE StoreLatest
    BY <1>21 DEF PolicyTypes, WorkerTypes, SectionTypes, StoreLatest, Return
  <1>22. CASE FinishFrame
    BY <1>22 DEF PolicyTypes, WorkerTypes, SectionTypes, FinishFrame,
       AbandonSwapchain, DisableTransport, Retire, Loop
  <1>23. CASE RequestStop
    BY <1>23 DEF PolicyTypes, WorkerTypes, SectionTypes, RequestStop
  <1>24. CASE WorkerStops
    BY <1>24 DEF PolicyTypes, WorkerTypes, SectionTypes, WorkerStops
  <1>25. CASE Unplug
    BY <1>25 DEF PolicyTypes, WorkerTypes, SectionTypes, Unplug
  <1>26. CASE BeginClaim
    BY <1>26 DEF PolicyTypes, WorkerTypes, SectionTypes, BeginClaim, BeginScan
  <1>27. CASE ScanState
    BY <1>27 DEF PolicyTypes, WorkerTypes, SectionTypes, ScanState
  <1>28. CASE ScanSeq
    BY <1>28 DEF PolicyTypes, WorkerTypes, SectionTypes, ScanSeq
  <1>29. CASE NothingPublished
    BY <1>29 DEF PolicyTypes, WorkerTypes, SectionTypes, NothingPublished, ClaimOver
  <1>30. CASE ClaimCas
    BY <1>30 DEF PolicyTypes, WorkerTypes, SectionTypes, ClaimCas, BeginScan,
       ClaimOver
  <1>31. CASE RereadSlot
    BY <1>31 DEF PolicyTypes, WorkerTypes, SectionTypes, RereadSlot
  <1>32. CASE ReadGeneration
    BY <1>32 DEF PolicyTypes, WorkerTypes, SectionTypes, ReadGeneration, ClaimOver
  <1>33. ASSUME NEW c \in claims, Release(c) PROVE Bookkeeping'
    BY <1>33 DEF PolicyTypes, WorkerTypes, SectionTypes, Release
  <1>34. CASE UNCHANGED vars
    BY <1>34 DEF PolicyTypes, WorkerTypes, SectionTypes, vars
  <1> QED
    BY <1>1, <1>2, <1>3, <1>4, <1>5, <1>6, <1>7, <1>8, <1>9, <1>10, <1>11,
       <1>12, <1>13, <1>14, <1>15, <1>16, <1>17, <1>18, <1>19, <1>20, <1>21,
       <1>22, <1>23, <1>24, <1>25, <1>26, <1>27, <1>28, <1>29, <1>30, <1>31,
       <1>32, <1>33, <1>34
    DEF Next, WorkerStep, SystemStep, HostStep

LEMMA WritingStep ==
  TypeOK /\ Control /\ Bookkeeping /\ WritingKnown /\ [Next]_vars => WritingKnown'
  <1> SUFFICES ASSUME TypeOK, Control, Bookkeeping, WritingKnown, [Next]_vars
               PROVE  WritingKnown'
    OBVIOUS
  <1> USE DEF TypeOK, Control, NoSlot, WorkerAssigned, Bookkeeping, WritingKnown,
          policyVars, ringVars, lifeVars, pcVars, slotVars, hdrVars, liveVars,
          tallyVars, hostVars, driverVars
  <1>1. CASE Assign
    BY <1>1 DEF PolicyTypes, WorkerTypes, Assign, FreshLoop
  <1>2. CASE Reassign
    BY <1>2 DEF PolicyTypes, WorkerTypes, Reassign, FreshLoop, Retire, Loop
  <1>3. CASE DeviceCreateFails
    BY <1>3 DEF PolicyTypes, WorkerTypes, DeviceCreateFails
  <1>4. CASE StartLoop
    BY <1>4 DEF PolicyTypes, WorkerTypes, StartLoop
  <1>5. CASE ResetSlot
    BY <1>5 DEF PolicyTypes, WorkerTypes, ResetSlot, Advance
  <1>6. CASE SetGeneration
    BY <1>6 DEF PolicyTypes, WorkerTypes, SetGeneration
  <1>7. CASE MarkDead
    BY <1>7 DEF PolicyTypes, WorkerTypes, MarkDead, Return
  <1>8. CASE AcquireFails
    BY <1>8 DEF PolicyTypes, WorkerTypes, AcquireFails, AbandonSwapchain, Retire, Loop
  <1>9. CASE ExitLost
    BY <1>9 DEF PolicyTypes, WorkerTypes, ExitLost
  <1>10. ASSUME NEW changed \in BOOLEAN, FrameReady(changed) PROVE WritingKnown'
    BY <1>10 DEF PolicyTypes, WorkerTypes, FrameReady, TransportOff, Return, Retire,
       Loop
  <1>11. CASE CreateTextures
    BY <1>11 DEF PolicyTypes, WorkerTypes, CreateTextures, Loop
  <1>12. CASE CreateTexturesFails
    BY <1>12 DEF PolicyTypes, WorkerTypes, CreateTexturesFails, DisableTransport,
       Loop, Return, Errors
  <1>13. CASE ReconcileSlot
    BY <1>13 DEF PolicyTypes, WorkerTypes, ReconcileSlot, Advance, Reconciled
  <1>14. ASSUME NEW i \in Slots, Take(i) PROVE WritingKnown'
    BY <1>14 DEF PolicyTypes, WorkerTypes, Take, CanTake, Expected, Return, Aborted
  <1>15. CASE DropFrame
    BY <1>15 DEF PolicyTypes, WorkerTypes, DropFrame, Return
  <1>16. CASE LockSlot
    BY <1>16 DEF PolicyTypes, WorkerTypes, LockSlot, AbortWrite, Return, Aborted
  <1>17. CASE LockFails
    BY <1>17 DEF PolicyTypes, WorkerTypes, LockFails, AbortWrite, Return, Errors,
       Aborted
  <1>18. CASE Copy
    BY <1>18 DEF PolicyTypes, WorkerTypes, Copy
  <1>19. CASE CopyFails
    BY <1>19 DEF PolicyTypes, WorkerTypes, CopyFails, AbortWrite, Return, Errors,
       Aborted
  <1>20. CASE MarkPublished
    BY <1>20 DEF PolicyTypes, WorkerTypes, MarkPublished
  <1>21. CASE StoreLatest
    BY <1>21 DEF PolicyTypes, WorkerTypes, StoreLatest, Return
  <1>22. CASE FinishFrame
    BY <1>22 DEF PolicyTypes, WorkerTypes, FinishFrame, AbandonSwapchain,
       DisableTransport, Retire, Loop
  <1>23. CASE RequestStop
    BY <1>23 DEF PolicyTypes, WorkerTypes, RequestStop
  <1>24. CASE WorkerStops
    BY <1>24 DEF PolicyTypes, WorkerTypes, WorkerStops
  <1>25. CASE Unplug
    BY <1>25 DEF PolicyTypes, WorkerTypes, Unplug
  <1>26. CASE BeginClaim
    BY <1>26 DEF PolicyTypes, WorkerTypes, BeginClaim, BeginScan
  <1>27. CASE ScanState
    BY <1>27 DEF PolicyTypes, WorkerTypes, ScanState
  <1>28. CASE ScanSeq
    BY <1>28 DEF PolicyTypes, WorkerTypes, ScanSeq
  <1>29. CASE NothingPublished
    BY <1>29 DEF PolicyTypes, WorkerTypes, NothingPublished, ClaimOver
  <1>30. CASE ClaimCas
    BY <1>30 DEF PolicyTypes, WorkerTypes, ClaimCas, BeginScan, ClaimOver
  <1>31. CASE RereadSlot
    BY <1>31 DEF PolicyTypes, WorkerTypes, RereadSlot
  <1>32. CASE ReadGeneration
    BY <1>32 DEF PolicyTypes, WorkerTypes, ReadGeneration, ClaimOver
  <1>33. ASSUME NEW c \in claims, Release(c) PROVE WritingKnown'
    BY <1>33 DEF PolicyTypes, WorkerTypes, Release
  <1>34. CASE UNCHANGED vars
    BY <1>34 DEF PolicyTypes, WorkerTypes, vars
  <1> QED
    BY <1>1, <1>2, <1>3, <1>4, <1>5, <1>6, <1>7, <1>8, <1>9, <1>10, <1>11,
       <1>12, <1>13, <1>14, <1>15, <1>16, <1>17, <1>18, <1>19, <1>20, <1>21,
       <1>22, <1>23, <1>24, <1>25, <1>26, <1>27, <1>28, <1>29, <1>30, <1>31,
       <1>32, <1>33, <1>34
    DEF Next, WorkerStep, SystemStep, HostStep

LEMMA AgreesStep ==
  TypeOK /\ Control /\ RingDiscipline /\ WritingAgrees
    /\ [Next]_vars => WritingAgrees'
  <1> SUFFICES ASSUME TypeOK, Control, RingDiscipline, WritingAgrees, [Next]_vars
               PROVE  WritingAgrees'
    OBVIOUS
  <1> USE NSlotsAssumption
          DEF TypeOK, Control, NoSlot, WritingAgrees, RingDiscipline, WriterMarked,
          Writing, policyVars, ringVars, lifeVars, pcVars, slotVars, hdrVars,
          liveVars, tallyVars, hostVars, driverVars
  <1>1. CASE Assign
    BY <1>1 DEF PolicyTypes, WorkerTypes, SectionTypes, HostTypes, Slots, Assign,
       FreshLoop
  <1>2. CASE Reassign
    BY <1>2 DEF PolicyTypes, WorkerTypes, SectionTypes, HostTypes, Slots, Reassign,
       FreshLoop, Retire, Loop
  <1>3. CASE DeviceCreateFails
    BY <1>3 DEF PolicyTypes, WorkerTypes, SectionTypes, HostTypes, Slots,
       DeviceCreateFails
  <1>4. CASE StartLoop
    BY <1>4 DEF PolicyTypes, WorkerTypes, SectionTypes, HostTypes, Slots, StartLoop
  <1>5. CASE ResetSlot
    BY <1>5 DEF PolicyTypes, WorkerTypes, SectionTypes, HostTypes, Slots, ResetSlot,
       Advance
  <1>6. CASE SetGeneration
    BY <1>6 DEF PolicyTypes, WorkerTypes, SectionTypes, HostTypes, Slots,
       SetGeneration
  <1>7. CASE MarkDead
    BY <1>7 DEF PolicyTypes, WorkerTypes, SectionTypes, HostTypes, Slots, MarkDead,
       Return
  <1>8. CASE AcquireFails
    BY <1>8 DEF PolicyTypes, WorkerTypes, SectionTypes, HostTypes, Slots,
       AcquireFails, AbandonSwapchain, Retire, Loop
  <1>9. CASE ExitLost
    BY <1>9 DEF PolicyTypes, WorkerTypes, SectionTypes, HostTypes, Slots, ExitLost
  <1>10. ASSUME NEW changed \in BOOLEAN, FrameReady(changed) PROVE WritingAgrees'
    BY <1>10 DEF PolicyTypes, WorkerTypes, SectionTypes, HostTypes, Slots, FrameReady,
       TransportOff, Return, Retire, Loop
  <1>11. CASE CreateTextures
    BY <1>11 DEF PolicyTypes, WorkerTypes, SectionTypes, HostTypes, Slots,
       CreateTextures, Loop
  <1>12. CASE CreateTexturesFails
    BY <1>12 DEF PolicyTypes, WorkerTypes, SectionTypes, HostTypes, Slots,
       CreateTexturesFails, DisableTransport, Loop, Return, Errors
  <1>13. CASE ReconcileSlot
    BY <1>13 DEF PolicyTypes, WorkerTypes, SectionTypes, HostTypes, Slots,
       ReconcileSlot, Advance, Reconciled
  <1>14. ASSUME NEW i \in Slots, Take(i) PROVE WritingAgrees'
    BY <1>14 DEF PolicyTypes, WorkerTypes, SectionTypes, HostTypes, Slots, Take,
       CanTake, Expected, Return, Aborted, Chosen, IsFirstFree, IsOldest, FreeSlots,
       PublishedSlots
  <1>15. CASE DropFrame
    BY <1>15 DEF PolicyTypes, WorkerTypes, SectionTypes, HostTypes, Slots, DropFrame,
       Return
  <1>16. CASE LockSlot
    BY <1>16 DEF PolicyTypes, WorkerTypes, SectionTypes, HostTypes, Slots, LockSlot,
       AbortWrite, Return, Aborted
  <1>17. CASE LockFails
    BY <1>17 DEF PolicyTypes, WorkerTypes, SectionTypes, HostTypes, Slots, LockFails,
       AbortWrite, Return, Errors, Aborted
  <1>18. CASE Copy
    BY <1>18 DEF PolicyTypes, WorkerTypes, SectionTypes, HostTypes, Slots, Copy
  <1>19. CASE CopyFails
    BY <1>19 DEF PolicyTypes, WorkerTypes, SectionTypes, HostTypes, Slots, CopyFails,
       AbortWrite, Return, Errors, Aborted
  <1>20. CASE MarkPublished
    BY <1>20 DEF PolicyTypes, WorkerTypes, SectionTypes, HostTypes, Slots,
       MarkPublished
  <1>21. CASE StoreLatest
    BY <1>21 DEF PolicyTypes, WorkerTypes, SectionTypes, HostTypes, Slots,
       StoreLatest, Return
  <1>22. CASE FinishFrame
    BY <1>22 DEF PolicyTypes, WorkerTypes, SectionTypes, HostTypes, Slots,
       FinishFrame, AbandonSwapchain, DisableTransport, Retire, Loop
  <1>23. CASE RequestStop
    BY <1>23 DEF PolicyTypes, WorkerTypes, SectionTypes, HostTypes, Slots, RequestStop
  <1>24. CASE WorkerStops
    BY <1>24 DEF PolicyTypes, WorkerTypes, SectionTypes, HostTypes, Slots, WorkerStops
  <1>25. CASE Unplug
    BY <1>25 DEF PolicyTypes, WorkerTypes, SectionTypes, HostTypes, Slots, Unplug
  <1>26. CASE BeginClaim
    BY <1>26 DEF PolicyTypes, WorkerTypes, SectionTypes, HostTypes, Slots, BeginClaim,
       BeginScan
  <1>27. CASE ScanState
    BY <1>27 DEF PolicyTypes, WorkerTypes, SectionTypes, HostTypes, Slots, ScanState
  <1>28. CASE ScanSeq
    BY <1>28 DEF PolicyTypes, WorkerTypes, SectionTypes, HostTypes, Slots, ScanSeq
  <1>29. CASE NothingPublished
    BY <1>29 DEF PolicyTypes, WorkerTypes, SectionTypes, HostTypes, Slots,
       NothingPublished, ClaimOver
  <1>30. CASE ClaimCas
    BY <1>30 DEF PolicyTypes, WorkerTypes, SectionTypes, HostTypes, Slots, ClaimCas,
       BeginScan, ClaimOver
  <1>31. CASE RereadSlot
    BY <1>31 DEF PolicyTypes, WorkerTypes, SectionTypes, HostTypes, Slots, RereadSlot
  <1>32. CASE ReadGeneration
    BY <1>32 DEF PolicyTypes, WorkerTypes, SectionTypes, HostTypes, Slots,
       ReadGeneration, ClaimOver
  <1>33. ASSUME NEW c \in claims, Release(c) PROVE WritingAgrees'
    BY <1>33 DEF PolicyTypes, WorkerTypes, SectionTypes, HostTypes, Slots, Release
  <1>34. CASE UNCHANGED vars
    BY <1>34 DEF PolicyTypes, WorkerTypes, SectionTypes, HostTypes, Slots, vars
  <1> QED
    BY <1>1, <1>2, <1>3, <1>4, <1>5, <1>6, <1>7, <1>8, <1>9, <1>10, <1>11,
       <1>12, <1>13, <1>14, <1>15, <1>16, <1>17, <1>18, <1>19, <1>20, <1>21,
       <1>22, <1>23, <1>24, <1>25, <1>26, <1>27, <1>28, <1>29, <1>30, <1>31,
       <1>32, <1>33, <1>34
    DEF Next, WorkerStep, SystemStep, HostStep

LEMMA ReadersStep ==
  TypeOK /\ Control /\ ReadersKnown /\ [Next]_vars => ReadersKnown'
  <1> SUFFICES ASSUME TypeOK, Control, ReadersKnown, [Next]_vars PROVE ReadersKnown'
    OBVIOUS
  <1> USE DEF TypeOK, Control, NoSlot, ReadersKnown, InClaim, policyVars, ringVars,
          lifeVars, pcVars, slotVars, hdrVars, liveVars, tallyVars, hostVars,
          driverVars
  <1>1. CASE Assign
    BY <1>1 DEF WorkerTypes, SectionTypes, HostTypes, Assign, FreshLoop
  <1>2. CASE Reassign
    BY <1>2 DEF WorkerTypes, SectionTypes, HostTypes, Reassign, FreshLoop, Retire,
       Loop
  <1>3. CASE DeviceCreateFails
    BY <1>3 DEF WorkerTypes, SectionTypes, HostTypes, DeviceCreateFails
  <1>4. CASE StartLoop
    BY <1>4 DEF WorkerTypes, SectionTypes, HostTypes, StartLoop
  <1>5. CASE ResetSlot
    BY <1>5 DEF WorkerTypes, SectionTypes, HostTypes, ResetSlot, Advance
  <1>6. CASE SetGeneration
    BY <1>6 DEF WorkerTypes, SectionTypes, HostTypes, SetGeneration
  <1>7. CASE MarkDead
    BY <1>7 DEF WorkerTypes, SectionTypes, HostTypes, MarkDead, Return
  <1>8. CASE AcquireFails
    BY <1>8 DEF WorkerTypes, SectionTypes, HostTypes, AcquireFails, AbandonSwapchain,
       Retire, Loop
  <1>9. CASE ExitLost
    BY <1>9 DEF WorkerTypes, SectionTypes, HostTypes, ExitLost
  <1>10. ASSUME NEW changed \in BOOLEAN, FrameReady(changed) PROVE ReadersKnown'
    BY <1>10 DEF WorkerTypes, SectionTypes, HostTypes, FrameReady, TransportOff,
       Return, Retire, Loop
  <1>11. CASE CreateTextures
    BY <1>11 DEF WorkerTypes, SectionTypes, HostTypes, CreateTextures, Loop
  <1>12. CASE CreateTexturesFails
    BY <1>12 DEF WorkerTypes, SectionTypes, HostTypes, CreateTexturesFails,
       DisableTransport, Loop, Return, Errors
  <1>13. CASE ReconcileSlot
    BY <1>13 DEF WorkerTypes, SectionTypes, HostTypes, ReconcileSlot, Advance
  <1>14. ASSUME NEW i \in Slots, Take(i) PROVE ReadersKnown'
    BY <1>14 DEF WorkerTypes, SectionTypes, HostTypes, Take, CanTake, Expected, Return
  <1>15. CASE DropFrame
    BY <1>15 DEF WorkerTypes, SectionTypes, HostTypes, DropFrame, Return
  <1>16. CASE LockSlot
    BY <1>16 DEF WorkerTypes, SectionTypes, HostTypes, LockSlot, AbortWrite, Return
  <1>17. CASE LockFails
    BY <1>17 DEF WorkerTypes, SectionTypes, HostTypes, LockFails, AbortWrite, Return,
       Errors
  <1>18. CASE Copy
    BY <1>18 DEF WorkerTypes, SectionTypes, HostTypes, Copy
  <1>19. CASE CopyFails
    BY <1>19 DEF WorkerTypes, SectionTypes, HostTypes, CopyFails, AbortWrite, Return,
       Errors
  <1>20. CASE MarkPublished
    BY <1>20 DEF WorkerTypes, SectionTypes, HostTypes, MarkPublished
  <1>21. CASE StoreLatest
    BY <1>21 DEF WorkerTypes, SectionTypes, HostTypes, StoreLatest, Return
  <1>22. CASE FinishFrame
    BY <1>22 DEF WorkerTypes, SectionTypes, HostTypes, FinishFrame, AbandonSwapchain,
       DisableTransport, Retire, Loop
  <1>23. CASE RequestStop
    BY <1>23 DEF WorkerTypes, SectionTypes, HostTypes, RequestStop
  <1>24. CASE WorkerStops
    BY <1>24 DEF WorkerTypes, SectionTypes, HostTypes, WorkerStops
  <1>25. CASE Unplug
    BY <1>25 DEF WorkerTypes, SectionTypes, HostTypes, Unplug
  <1>26. CASE BeginClaim
    BY <1>26 DEF WorkerTypes, SectionTypes, HostTypes, BeginClaim, BeginScan
  <1>27. CASE ScanState
    BY <1>27 DEF WorkerTypes, SectionTypes, HostTypes, ScanState
  <1>28. CASE ScanSeq
    BY <1>28 DEF WorkerTypes, SectionTypes, HostTypes, ScanSeq
  <1>29. CASE NothingPublished
    BY <1>29 DEF WorkerTypes, SectionTypes, HostTypes, NothingPublished, ClaimOver
  <1>30. CASE ClaimCas
    BY <1>30 DEF WorkerTypes, SectionTypes, HostTypes, ClaimCas, BeginScan, ClaimOver
  <1>31. CASE RereadSlot
    BY <1>31 DEF WorkerTypes, SectionTypes, HostTypes, RereadSlot
  <1>32. CASE ReadGeneration
    <2>1. /\ hpc = "regen" /\ hpc' = "idle" /\ shState' = shState
          /\ claims' = claims \cup {[slot |-> cand, seq |-> claimSeq, gen |-> hdrGen,
                                      truth |-> truth]}
      BY <1>32 DEF ReadGeneration, ClaimOver
    <2>2. ASSUME NEW k \in Slots, shState[k] = "READING"
          PROVE  \E c \in claims' : c.slot = k
      <3>1. CASE cand = k
        <4>1. [slot |-> cand, seq |-> claimSeq, gen |-> hdrGen, truth |-> truth].slot = k
          BY <3>1
        <4> QED
          BY <2>1, <4>1
      <3>2. CASE \E c \in claims : c.slot = k
        BY <2>1, <3>2
      <3> QED
        BY <2>2, <3>1, <3>2
    <2> QED
      BY <2>1, <2>2
  <1>33. ASSUME NEW c \in claims, Release(c) PROVE ReadersKnown'
    BY <1>33 DEF WorkerTypes, SectionTypes, HostTypes, Release
  <1>34. CASE UNCHANGED vars
    BY <1>34 DEF WorkerTypes, SectionTypes, HostTypes, vars
  <1> QED
    BY <1>1, <1>2, <1>3, <1>4, <1>5, <1>6, <1>7, <1>8, <1>9, <1>10, <1>11,
       <1>12, <1>13, <1>14, <1>15, <1>16, <1>17, <1>18, <1>19, <1>20, <1>21,
       <1>22, <1>23, <1>24, <1>25, <1>26, <1>27, <1>28, <1>29, <1>30, <1>31,
       <1>32, <1>33, <1>34
    DEF Next, WorkerStep, SystemStep, HostStep

LEMMA SeenStep ==
  TypeOK /\ Control /\ RingDiscipline /\ Sequenced /\ OneClaim /\ PolicyKnows
    /\ Distinct /\ ScanSound /\ ReadersKnown /\ WritingAgrees /\ OneSeenReading
    /\ [Next]_vars => OneSeenReading'
  <1> SUFFICES ASSUME TypeOK, Control, RingDiscipline, Sequenced, OneClaim,
                         PolicyKnows, Distinct, ScanSound, ReadersKnown,
                         WritingAgrees, OneSeenReading, [Next]_vars
               PROVE  OneSeenReading'
    OBVIOUS
  <1> USE NSlotsAssumption
          DEF TypeOK, Control, NoSlot, RingDiscipline, WriterMarked, Writing,
          OneSeenReading, Newest, Reconciling, SeenReading, Scanning, InClaim,
          ContinuedSeq, policyVars, ringVars, lifeVars, pcVars, slotVars,
          hdrVars, liveVars, tallyVars, hostVars, driverVars
  <1>1. CASE Assign
    BY <1>1 DEF PolicyTypes, WorkerTypes, SectionTypes, HostTypes, Slots, Assign,
       FreshLoop
  <1>2. CASE Reassign
    BY <1>2 DEF PolicyTypes, WorkerTypes, SectionTypes, HostTypes, Slots, Reassign,
       FreshLoop, Retire, Loop
  <1>3. CASE DeviceCreateFails
    BY <1>3 DEF PolicyTypes, WorkerTypes, SectionTypes, HostTypes, Slots,
       DeviceCreateFails
  <1>4. CASE StartLoop
    BY <1>4 DEF PolicyTypes, WorkerTypes, SectionTypes, HostTypes, Slots, StartLoop
  <1>5. CASE ResetSlot
    BY <1>5 DEF PolicyTypes, WorkerTypes, SectionTypes, HostTypes, Slots, ResetSlot,
       Advance
  <1>6. CASE SetGeneration
    BY <1>6 DEF PolicyTypes, WorkerTypes, SectionTypes, HostTypes, Slots,
       SetGeneration
  <1>7. CASE MarkDead
    BY <1>7 DEF PolicyTypes, WorkerTypes, SectionTypes, HostTypes, Slots, MarkDead,
       Return
  <1>8. CASE AcquireFails
    BY <1>8 DEF PolicyTypes, WorkerTypes, SectionTypes, HostTypes, Slots,
       AcquireFails, AbandonSwapchain, Retire, Loop
  <1>9. CASE ExitLost
    BY <1>9 DEF PolicyTypes, WorkerTypes, SectionTypes, HostTypes, Slots, ExitLost
  <1>10. ASSUME NEW changed \in BOOLEAN, FrameReady(changed) PROVE OneSeenReading'
    BY <1>10 DEF PolicyTypes, WorkerTypes, SectionTypes, HostTypes, Slots, FrameReady,
       TransportOff, Return, Retire, Loop
  <1>11. CASE CreateTextures
    BY <1>11 DEF PolicyTypes, WorkerTypes, SectionTypes, HostTypes, Slots,
       CreateTextures, Loop
  <1>12. CASE CreateTexturesFails
    BY <1>12 DEF PolicyTypes, WorkerTypes, SectionTypes, HostTypes, Slots,
       CreateTexturesFails, DisableTransport, Loop, Return, Errors
  <1>13. CASE ReconcileSlot
    <2> USE <1>13 DEF ReconcileSlot, Advance, Reconciled, PolicyTypes, WorkerTypes,
            SectionTypes, HostTypes, Slots
    <2> SUFFICES ASSUME ~disabled', NEW i \in Slots, NEW k \in Slots,
                        Newest(i)', shState'[i] = "PUBLISHED", SeenReading(k)'
                 PROVE  /\ \A l \in Slots : SeenReading(l)' => l = k
                        /\ \A l \in Slots : shState'[l] = "READING" => l = k
                        /\ Scanning' => shSeq'[i] \in visible'
      OBVIOUS
    <2>1. /\ wpc = "reconcile" /\ widx \in Slots /\ Newest(i) /\ shState[i] = "PUBLISHED"
          /\ UNCHANGED <<shState, shSeq, nextSeq, hpc, visible, claims, cand, disabled>>
      OBVIOUS
    <2>2. ASSUME NEW l \in Slots, SeenReading(l)'
          PROVE  SeenReading(l) \/ (l = widx /\ shState[l] = "READING")
      <3>1. CASE l = widx
        <4>1. pol'[l] = "Reading" /\ pol'[l] = Reconciled(pol[l], shState[l])
          BY <2>2, <3>1
        <4>2. CASE shState[l] = "READING"
          BY <3>1, <4>2
        <4>3. CASE shState[l] # "READING"
          <5>1. pol[l] = "Reading" /\ shState[l] # "FREE"
            BY <2>1, <4>1, <4>3
          <5>2. shState[l] # "PUBLISHED" /\ shState[l] # "WRITING"
            BY <2>1, <5>1 DEF PolicyKnows, WritingAgrees
          <5> QED
            BY <5>1, <5>2, <4>3 DEF SlotStates
        <4> QED
          BY <4>2, <4>3
      <3>2. CASE l # widx
        BY <2>1, <2>2, <3>2
      <3> QED
        BY <3>1, <3>2
    <2>3. \A l, m \in Slots : shState[l] = "READING" /\ shState[m] = "READING" => l = m /\ ~Scanning
      BY SMTT(30) DEF ReadersKnown, OneClaim
    <2>4. CASE SeenReading(k)
      <3>1. /\ \A l \in Slots : SeenReading(l) => l = k
            /\ \A l \in Slots : shState[l] = "READING" => l = k
            /\ Scanning => shSeq[i] \in visible
        BY <2>1, <2>4
      <3>2. \A l \in Slots : SeenReading(l)' => l = k
        BY <2>2, <3>1
      <3> QED
        BY <2>1, <3>1, <3>2
    <2>5. CASE k = widx /\ shState[k] = "READING"
      <3>1. \A l \in Slots : SeenReading(l) => l = k
        BY <2>1, <2>5
      <3>2. \A l \in Slots : SeenReading(l)' => l = k
        BY <2>2, <2>5, <3>1
      <3> QED
        BY <2>1, <2>3, <2>5, <3>2
    <2> QED
      BY <2>2, <2>4, <2>5
  <1>14. ASSUME NEW i \in Slots, Take(i) PROVE OneSeenReading'
    BY <1>14 DEF PolicyTypes, WorkerTypes, SectionTypes, HostTypes, Slots, Take,
       CanTake, Expected, Return
  <1>15. CASE DropFrame
    BY <1>15 DEF PolicyTypes, WorkerTypes, SectionTypes, HostTypes, Slots, DropFrame,
       Return
  <1>16. CASE LockSlot
    BY <1>16 DEF PolicyTypes, WorkerTypes, SectionTypes, HostTypes, Slots, LockSlot,
       AbortWrite, Return
  <1>17. CASE LockFails
    BY <1>17 DEF PolicyTypes, WorkerTypes, SectionTypes, HostTypes, Slots, LockFails,
       AbortWrite, Return, Errors
  <1>18. CASE Copy
    BY <1>18 DEF PolicyTypes, WorkerTypes, SectionTypes, HostTypes, Slots, Copy
  <1>19. CASE CopyFails
    BY <1>19 DEF PolicyTypes, WorkerTypes, SectionTypes, HostTypes, Slots, CopyFails,
       AbortWrite, Return, Errors
  <1>20. CASE MarkPublished
    BY <1>20 DEF PolicyTypes, WorkerTypes, SectionTypes, HostTypes, Slots,
       MarkPublished
  <1>21. CASE StoreLatest
    BY <1>21 DEF PolicyTypes, WorkerTypes, SectionTypes, HostTypes, Slots,
       StoreLatest, Return
  <1>22. CASE FinishFrame
    BY <1>22 DEF PolicyTypes, WorkerTypes, SectionTypes, HostTypes, Slots,
       FinishFrame, AbandonSwapchain, DisableTransport, Retire, Loop
  <1>23. CASE RequestStop
    BY <1>23 DEF PolicyTypes, WorkerTypes, SectionTypes, HostTypes, Slots, RequestStop
  <1>24. CASE WorkerStops
    BY <1>24 DEF PolicyTypes, WorkerTypes, SectionTypes, HostTypes, Slots, WorkerStops
  <1>25. CASE Unplug
    BY <1>25 DEF PolicyTypes, WorkerTypes, SectionTypes, HostTypes, Slots, Unplug
  <1>26. CASE BeginClaim
    <2>1. UNCHANGED <<pol, shState, shSeq, nextSeq, gen, hdrGen, disabled, claims, pcVars>>
      BY <1>26 DEF BeginClaim, BeginScan
    <2>2. visible' = {shSeq[i] : i \in Available}
      BY <1>26 DEF BeginClaim, BeginScan
    <2>3. hpc = "idle" /\ hpc' = "scan"
      BY <1>26 DEF BeginClaim, BeginScan
    <2> QED
      BY <2>1, <2>2, <2>3 DEF Available
  <1>27. CASE ScanState
    BY <1>27 DEF PolicyTypes, WorkerTypes, SectionTypes, HostTypes, Slots, ScanState
  <1>28. CASE ScanSeq
    BY <1>28 DEF PolicyTypes, WorkerTypes, SectionTypes, HostTypes, Slots, ScanSeq
  <1>29. CASE NothingPublished
    BY <1>29 DEF PolicyTypes, WorkerTypes, SectionTypes, HostTypes, Slots,
       NothingPublished, ClaimOver
  <1>30. CASE ClaimCas
    <2> USE <1>30 DEF PolicyTypes, WorkerTypes, SectionTypes, HostTypes, Slots
    <2> SUFFICES ASSUME ~disabled', NEW i \in Slots, NEW k \in Slots,
                        Newest(i)', shState'[i] = "PUBLISHED", SeenReading(k)'
                 PROVE  /\ \A l \in Slots : SeenReading(l)' => l = k
                        /\ \A l \in Slots : shState'[l] = "READING" => l = k
                        /\ Scanning' => shSeq'[i] \in visible'
      OBVIOUS
    <2>1. /\ hpc = "scan" /\ hidx = NSlots /\ cand \in Slots
          /\ UNCHANGED <<pol, wpc, widx, shSeq, nextSeq, claims, disabled>>
          /\ shState[i] = "PUBLISHED" /\ Newest(i) /\ SeenReading(k)
      BY DEF ClaimCas, BeginScan, ClaimOver
    <2>2. /\ \A l \in Slots : SeenReading(l) => l = k
          /\ \A l \in Slots : shState[l] = "READING" => l = k
          /\ shSeq[i] \in visible
      BY <2>1
    <2>3. \A l \in Slots : SeenReading(l)' => l = k
      BY <2>1, <2>2
    <2>4. CASE hpc' = "reread"
      <3>1. shState[cand] = "PUBLISHED" /\ shState' = [shState EXCEPT ![cand] = "READING"]
        BY <2>4 DEF ClaimCas, BeginScan, ClaimOver
      <3>2. Coming(shSeq[i]) \/ Overtaken(shSeq[i])
        BY <2>1, <2>2 DEF ScanSound
      <3>3. shSeq[cand] >= shSeq[i]
        BY <2>1, <3>1, <3>2 DEF Coming, Overtaken, ScanSound
      <3>4. cand = i
        BY <2>1, <3>3 DEF Distinct, Sequenced
      <3> QED
        BY <3>1, <3>4
    <2>5. CASE hpc' = "scan"
      <3>1. shState' = shState /\ visible' = {shSeq[j] : j \in Available}
        BY <2>5 DEF ClaimCas, BeginScan, ClaimOver
      <3> QED
        BY <2>1, <2>2, <2>3, <3>1 DEF Available
    <2>6. CASE hpc' = "idle"
      <3>1. shState' = shState
        BY <2>6 DEF ClaimCas, BeginScan, ClaimOver
      <3> QED
        BY <2>2, <2>3, <2>6, <3>1
    <2> QED
      BY <2>4, <2>5, <2>6 DEF ClaimCas, BeginScan, ClaimOver
  <1>31. CASE RereadSlot
    BY <1>31 DEF PolicyTypes, WorkerTypes, SectionTypes, HostTypes, Slots, RereadSlot
  <1>32. CASE ReadGeneration
    BY <1>32 DEF PolicyTypes, WorkerTypes, SectionTypes, HostTypes, Slots,
       ReadGeneration, ClaimOver
  <1>33. ASSUME NEW c \in claims, Release(c) PROVE OneSeenReading'
    BY <1>33 DEF PolicyTypes, WorkerTypes, SectionTypes, HostTypes, Slots, Release
  <1>34. CASE UNCHANGED vars
    BY <1>34 DEF PolicyTypes, WorkerTypes, SectionTypes, HostTypes, Slots, vars
  <1> QED
    BY <1>1, <1>2, <1>3, <1>4, <1>5, <1>6, <1>7, <1>8, <1>9, <1>10, <1>11,
       <1>12, <1>13, <1>14, <1>15, <1>16, <1>17, <1>18, <1>19, <1>20, <1>21,
       <1>22, <1>23, <1>24, <1>25, <1>26, <1>27, <1>28, <1>29, <1>30, <1>31,
       <1>32, <1>33, <1>34
    DEF Next, WorkerStep, SystemStep, HostStep

(* Beside the newest there are two slots, and they cannot both be read. *)
LEMMA ThreeSlots ==
  ASSUME NSlots >= 3, NEW i \in Slots
  PROVE  \E a, b \in Slots : a # i /\ b # i /\ a # b
  <1>1. 0 \in Slots /\ 1 \in Slots /\ 2 \in Slots
    BY NSlotsAssumption DEF Slots
  <1>2. CASE i = 0
    BY <1>1, <1>2
  <1>3. CASE i = 1
    BY <1>1, <1>3
  <1>4. CASE i \notin {0, 1}
    BY <1>1, <1>4
  <1> QED
    BY <1>2, <1>3, <1>4

LEMMA SurvivesStep ==
  ASSUME NSlots >= 3
  PROVE  TypeOK /\ Control /\ RingDiscipline /\ Sequenced /\ OneClaim /\ PolicyKnows
           /\ Distinct /\ TexturesHeld /\ Labelled /\ Bookkeeping /\ WritingKnown
           /\ OneSeenReading /\ NewestSurvives /\ [Next]_vars => NewestSurvives'
  <1> SUFFICES ASSUME TypeOK, Control, RingDiscipline, Sequenced, OneClaim,
                         PolicyKnows, Distinct, TexturesHeld, Labelled, Bookkeeping,
                         WritingKnown, OneSeenReading, NewestSurvives, [Next]_vars
               PROVE  NewestSurvives'
    OBVIOUS
  <1> USE DEF TypeOK, Control, NoSlot, RingDiscipline, Bookkeeping, WriterMarked,
          Writing, NewestSurvives, Newest, Surviving, InClaim, ContinuedSeq,
          policyVars, ringVars, lifeVars, pcVars, slotVars, hdrVars, liveVars,
          tallyVars, hostVars, driverVars
  <1>1. CASE Assign
    BY <1>1 DEF PolicyTypes, RingTypes, WorkerTypes, SectionTypes, HostTypes, Assign,
       FreshLoop
  <1>2. CASE Reassign
    BY <1>2 DEF PolicyTypes, RingTypes, WorkerTypes, SectionTypes, HostTypes,
       Reassign, FreshLoop, Retire, Loop, ClearHistory
  <1>3. CASE DeviceCreateFails
    BY <1>3 DEF PolicyTypes, RingTypes, WorkerTypes, SectionTypes, HostTypes,
       DeviceCreateFails
  <1>4. CASE StartLoop
    BY <1>4 DEF PolicyTypes, RingTypes, WorkerTypes, SectionTypes, HostTypes,
       StartLoop
  <1>5. CASE ResetSlot
    BY <1>5 DEF PolicyTypes, RingTypes, WorkerTypes, SectionTypes, HostTypes,
       ResetSlot, Advance, TexturesHeld, Shutting
  <1>6. CASE SetGeneration
    BY <1>6 DEF PolicyTypes, RingTypes, WorkerTypes, SectionTypes, HostTypes,
       SetGeneration
  <1>7. CASE MarkDead
    BY <1>7 DEF PolicyTypes, RingTypes, WorkerTypes, SectionTypes, HostTypes,
       MarkDead, Return
  <1>8. CASE AcquireFails
    BY <1>8 DEF PolicyTypes, RingTypes, WorkerTypes, SectionTypes, HostTypes,
       AcquireFails, AbandonSwapchain, Retire, Loop, ClearHistory
  <1>9. CASE ExitLost
    BY <1>9 DEF PolicyTypes, RingTypes, WorkerTypes, SectionTypes, HostTypes, ExitLost
  <1>10. ASSUME NEW changed \in BOOLEAN, FrameReady(changed) PROVE NewestSurvives'
    BY <1>10 DEF PolicyTypes, RingTypes, WorkerTypes, SectionTypes, HostTypes,
       FrameReady, TransportOff, Return, Retire, Loop, ClearHistory
  <1>11. CASE CreateTextures
    BY <1>11 DEF PolicyTypes, RingTypes, WorkerTypes, SectionTypes, HostTypes,
       CreateTextures, Loop
  <1>12. CASE CreateTexturesFails
    BY <1>12 DEF PolicyTypes, RingTypes, WorkerTypes, SectionTypes, HostTypes,
       CreateTexturesFails, DisableTransport, Loop, Return, Errors
  <1>13. CASE ReconcileSlot
    BY <1>13 DEF PolicyTypes, RingTypes, WorkerTypes, SectionTypes, HostTypes,
       ReconcileSlot, Advance
  <1>14. ASSUME NEW i \in Slots, Take(i) PROVE NewestSurvives'
    <2> USE DEF PolicyTypes, RingTypes, WorkerTypes, SectionTypes, HostTypes
    <2> SUFFICES ASSUME ~disabled', NEW j \in Slots, everPub'[j]
                 PROVE  \E m \in Slots : Newest(m)' /\ Surviving(m)'
      OBVIOUS
    <2>1. /\ UNCHANGED <<shSeq, nextSeq, gen, disabled, everPub, hpc, cand, truth,
                           claims, delivered>>
          /\ wpc = "take"
      BY <1>14 DEF Take, Return
    <2>2. PICK m \in Slots : Newest(m) /\ Surviving(m)
      BY <2>1
    <2>3. CASE shState[m] = "PUBLISHED" /\ shState'[m] # "PUBLISHED"
      <3>1. m = i /\ CanTake(i)
        BY <1>14, <2>3 DEF Take
      <3>2. pol[i] = "Published" /\ FreeSlots = {} /\ IsOldest(i)
        BY <1>14, <2>1, <2>3, <3>1 DEF Take, Chosen, IsFirstFree, FreeSlots,
           PolicyKnows
      <3>3. \A k \in Slots : k # i => pol[k] = "Reading"
        <4> SUFFICES ASSUME NEW k \in Slots, k # i PROVE pol[k] = "Reading"
          OBVIOUS
        <4>1. pol[k] # "Free"
          BY <3>2 DEF FreeSlots
        <4>2. pol[k] # "Writing"
          BY <2>1 DEF WritingKnown
        <4>3. pol[k] # "Published"
          <5>1. shSeq[k] <= shSeq[i]
            BY <2>2, <3>1 DEF Sequenced
          <5>2. shSeq[k] # shSeq[i]
            BY <2>3, <3>1 DEF Distinct
          <5> QED
            BY <3>2, <5>1, <5>2 DEF IsOldest, PublishedSlots
        <4> QED
          BY <4>1, <4>2, <4>3 DEF PolicyStates
      <3>4. PICK a \in Slots, b \in Slots : a # i /\ b # i /\ a # b
        BY ThreeSlots
      <3>5. SeenReading(a) /\ SeenReading(b)
        BY <2>1, <3>3, <3>4 DEF SeenReading, Reconciling
      <3> QED
        BY <2>1, <2>2, <2>3, <3>1, <3>4, <3>5 DEF OneSeenReading
    <2>4. CASE ~(shState[m] = "PUBLISHED" /\ shState'[m] # "PUBLISHED")
      BY <2>1, <2>2, <2>4
    <2> QED
      BY <2>3, <2>4
  <1>15. CASE DropFrame
    BY <1>15 DEF PolicyTypes, RingTypes, WorkerTypes, SectionTypes, HostTypes,
       DropFrame, Return
  <1>16. CASE LockSlot
    BY <1>16 DEF PolicyTypes, RingTypes, WorkerTypes, SectionTypes, HostTypes,
       LockSlot, AbortWrite, Return
  <1>17. CASE LockFails
    BY <1>17 DEF PolicyTypes, RingTypes, WorkerTypes, SectionTypes, HostTypes,
       LockFails, AbortWrite, Return, Errors
  <1>18. CASE Copy
    BY <1>18 DEF PolicyTypes, RingTypes, WorkerTypes, SectionTypes, HostTypes, Copy
  <1>19. CASE CopyFails
    BY <1>19 DEF PolicyTypes, RingTypes, WorkerTypes, SectionTypes, HostTypes,
       CopyFails, AbortWrite, Return, Errors
  <1>20. CASE MarkPublished
    BY <1>20 DEF PolicyTypes, RingTypes, WorkerTypes, SectionTypes, HostTypes,
       MarkPublished
  <1>21. CASE StoreLatest
    BY <1>21 DEF PolicyTypes, RingTypes, WorkerTypes, SectionTypes, HostTypes,
       StoreLatest, Return
  <1>22. CASE FinishFrame
    BY <1>22 DEF PolicyTypes, RingTypes, WorkerTypes, SectionTypes, HostTypes,
       FinishFrame, AbandonSwapchain, DisableTransport, Retire, Loop,
       ClearHistory
  <1>23. CASE RequestStop
    BY <1>23 DEF PolicyTypes, RingTypes, WorkerTypes, SectionTypes, HostTypes,
       RequestStop
  <1>24. CASE WorkerStops
    BY <1>24 DEF PolicyTypes, RingTypes, WorkerTypes, SectionTypes, HostTypes,
       WorkerStops
  <1>25. CASE Unplug
    BY <1>25 DEF PolicyTypes, RingTypes, WorkerTypes, SectionTypes, HostTypes, Unplug
  <1>26. CASE BeginClaim
    BY <1>26 DEF PolicyTypes, RingTypes, WorkerTypes, SectionTypes, HostTypes,
       BeginClaim, BeginScan
  <1>27. CASE ScanState
    BY <1>27 DEF PolicyTypes, RingTypes, WorkerTypes, SectionTypes, HostTypes,
       ScanState
  <1>28. CASE ScanSeq
    BY <1>28 DEF PolicyTypes, RingTypes, WorkerTypes, SectionTypes, HostTypes, ScanSeq
  <1>29. CASE NothingPublished
    BY <1>29 DEF PolicyTypes, RingTypes, WorkerTypes, SectionTypes, HostTypes,
       NothingPublished, ClaimOver
  <1>30. CASE ClaimCas
    <2> USE DEF PolicyTypes, RingTypes, WorkerTypes, SectionTypes, HostTypes
    <2> SUFFICES ASSUME ~disabled', NEW j \in Slots, everPub'[j]
                 PROVE  \E m \in Slots : Newest(m)' /\ Surviving(m)'
      OBVIOUS
    <2>1. /\ UNCHANGED <<shSeq, nextSeq, gen, disabled, everPub, wpc, wslot, claims, delivered, hdrGen>>
          /\ hpc = "scan"
      BY <1>30 DEF ClaimCas
    <2>2. PICK m \in Slots : Newest(m) /\ Surviving(m)
      BY <2>1
    <2>3. CASE shState[m] = "PUBLISHED" /\ shState'[m] # "PUBLISHED"
      <3>1. /\ cand = m /\ cand' = m /\ hpc' = "reread"
            /\ truth' = [seq |-> shSeq[m], gen |-> hdrGen]
        BY <1>30, <2>3 DEF ClaimCas, BeginScan, ClaimOver
      <3>2. hdrGen = gen
        BY <2>1 DEF HeaderCurrent, TexturesHeld, Shutting
      <3> QED
        BY <2>1, <2>2, <3>1, <3>2
    <2>4. CASE ~(shState[m] = "PUBLISHED" /\ shState'[m] # "PUBLISHED")
      BY <2>1, <2>2, <2>4
    <2> QED
      BY <2>3, <2>4
  <1>31. CASE RereadSlot
    BY <1>31 DEF PolicyTypes, RingTypes, WorkerTypes, SectionTypes, HostTypes,
       RereadSlot
  <1>32. CASE ReadGeneration
    <2> USE DEF PolicyTypes, RingTypes, WorkerTypes, SectionTypes, HostTypes
    <2> SUFFICES ASSUME ~disabled', NEW j \in Slots, everPub'[j]
                 PROVE  \E m \in Slots : Newest(m)' /\ Surviving(m)'
      OBVIOUS
    <2> DEFINE r == [slot |-> cand, seq |-> claimSeq, gen |-> hdrGen, truth |-> truth]
    <2>1. /\ UNCHANGED <<shState, shSeq, nextSeq, gen, disabled, everPub, wpc, wslot,
                           delivered, hdrGen>>
          /\ claims' = claims \cup {r}
      BY <1>32 DEF ReadGeneration
    <2>2. PICK m \in Slots : Newest(m) /\ Surviving(m)
      BY <2>1
    <2>3. hdrGen = gen
      BY <2>1 DEF HeaderCurrent, TexturesHeld, Shutting
    <2>4. r.truth = truth /\ r.gen = hdrGen /\ r \in claims'
      BY <2>1
    <2> QED
      BY <2>1, <2>2, <2>3, <2>4
  <1>33. ASSUME NEW c \in claims, Release(c) PROVE NewestSurvives'
    <2> USE DEF PolicyTypes, RingTypes, WorkerTypes, SectionTypes, HostTypes
    <2> SUFFICES ASSUME ~disabled', NEW j \in Slots, everPub'[j]
                 PROVE  \E m \in Slots : Newest(m)' /\ Surviving(m)'
      OBVIOUS
    <2>1. /\ UNCHANGED <<shSeq, nextSeq, gen, disabled, everPub, wpc, wslot, hdrGen>>
          /\ hpc = "idle" /\ hpc' = "idle" /\ claims' = claims \ {c}
          /\ delivered' = IF c.gen = hdrGen /\ c.seq > delivered THEN c.seq ELSE delivered
          /\ \A k \in Slots : shState[k] = "PUBLISHED" => shState'[k] = "PUBLISHED"
      BY <1>33 DEF Release
    <2>2. PICK m \in Slots : Newest(m) /\ Surviving(m)
      BY <2>1
    <2>3. hdrGen = gen
      BY <2>1 DEF HeaderCurrent, TexturesHeld, Shutting
    <2>4. c.seq \in Nat /\ delivered' \in Nat /\ delivered' >= delivered
      BY <2>1 DEF Claims
    <2>5. CASE shSeq[m] <= delivered
      BY <2>1, <2>2, <2>4, <2>5
    <2>6. CASE c.truth.seq = shSeq[m] /\ c.truth.gen = gen /\ c.gen = gen
      <3>1. c.seq = shSeq[m]
        BY <2>6 DEF Labelled, ClaimCoherent
      <3>2. shSeq[m] <= delivered'
        BY <2>1, <2>3, <2>4, <2>6, <3>1
      <3> QED
        BY <2>1, <2>2, <3>2
    <2>7. CASE \E d \in claims : d # c /\ d.truth.seq = shSeq[m] /\ d.truth.gen = gen
                                  /\ d.gen = gen
      BY <2>1, <2>2, <2>7
    <2> QED
      BY <2>1, <2>2, <2>5, <2>6, <2>7
  <1>34. CASE UNCHANGED vars
    BY <1>34 DEF PolicyTypes, RingTypes, WorkerTypes, SectionTypes, HostTypes, vars
  <1> QED
    BY <1>1, <1>2, <1>3, <1>4, <1>5, <1>6, <1>7, <1>8, <1>9, <1>10, <1>11,
       <1>12, <1>13, <1>14, <1>15, <1>16, <1>17, <1>18, <1>19, <1>20, <1>21,
       <1>22, <1>23, <1>24, <1>25, <1>26, <1>27, <1>28, <1>29, <1>30, <1>31,
       <1>32, <1>33, <1>34
    DEF Next, WorkerStep, SystemStep, HostStep

(* With three slots and one claim at a time, the frame the header names can always
   be claimed once the worker is idle, unless the consumer has used it. *)
THEOREM NewestNeverLost ==
  ASSUME MaxClaims = 1
  PROVE  Spec => []FreshestSurvives
  <1> DEFINE Inv == /\ Known /\ Exclusion /\ Freshness /\ Labelled /\ KeyHistory
                    /\ Bookkeeping /\ WritingKnown /\ WritingAgrees /\ ReadersKnown
                    /\ OneSeenReading /\ (NSlots >= 3 => NewestSurvives)
  <1>1. Init => Inv
    <2>1. Init => Freshness /\ Labelled /\ KeyHistory
      BY DEF Init, Freshness, ScanSound, ClaimIsFresh, Scanning, InClaim, NoSlot,
             Labelled, ClaimCoherent, KeyHistory, TexturesHeld, KeyAgrees, InFrame,
             Shutting
    <2>2. Init => /\ Bookkeeping /\ WritingKnown /\ WritingAgrees /\ ReadersKnown
                  /\ OneSeenReading /\ NewestSurvives
      BY DEF Init, Bookkeeping, NewestNumbered, HeaderCurrent, WorkerAssigned,
             WritingKnown, WritingAgrees, ReadersKnown, OneSeenReading, NewestSurvives
    <2> QED
      BY <2>1, <2>2, KnownInit, ExclusionInit
  <1>2. Inv /\ [Next]_vars => Inv'
    <2> SUFFICES ASSUME Inv, [Next]_vars PROVE Inv'
      OBVIOUS
    <2> USE DEF Known, Exclusion, Freshness, KeyHistory, RingDiscipline
    <2>1. Known' /\ Exclusion' /\ Freshness' /\ Labelled' /\ KeyHistory'
      BY KnownAlways, ExclusionStep, FreshStep, LabelStep, KeyStep
    <2>2. Bookkeeping' /\ WritingKnown' /\ WritingAgrees' /\ ReadersKnown'
      BY BookkeepingStep, WritingStep, AgreesStep, ReadersStep
    <2>3. OneSeenReading'
      BY SeenStep
    <2>4. NSlots >= 3 => NewestSurvives'
      BY SurvivesStep
    <2> QED
      BY <2>1, <2>2, <2>3, <2>4
  <1>3. Inv => FreshestSurvives
    <2> SUFFICES ASSUME Inv, NSlots >= MaxClaims + 2, wpc = "idle", hpc = "idle",
                        claims = {}, ~disabled, \E i \in Slots : everPub[i],
                        hdrLatest > delivered
                 PROVE  \E i \in Slots : shState[i] = "PUBLISHED" /\ shSeq[i] = hdrLatest
      BY DEF FreshestSurvives
    <2>1. PICK i \in Slots : Newest(i) /\ Surviving(i)
      BY DEF NewestSurvives
    <2>2. shSeq[i] = hdrLatest
      BY <2>1 DEF Newest, Bookkeeping, NewestNumbered, Known, TypeOK, PolicyTypes,
                  SectionTypes
    <2>3. shState[i] = "PUBLISHED"
      BY <2>1, <2>2 DEF Surviving, InClaim, Known, TypeOK, SectionTypes, HostTypes
    <2> QED
      BY <2>2, <2>3
  <1> QED
    BY <1>1, <1>2, <1>3, PTL DEF Spec

-----------------------------------------------------------------------------
(* The ring implements the mailbox. *)

(* What leaves the claims and the slot states alone leaves the mailbox alone ... *)
LEMMA HeldStays ==
  ASSUME UNCHANGED <<claims, cand, truth>>, InClaim' = InClaim
  PROVE  HeldFrames' = HeldFrames
  BY DEF HeldFrames, Held

LEMMA AvailableStays ==
  ASSUME shSeq' = shSeq,
         \A i \in Slots : shState'[i] = "PUBLISHED" <=> shState[i] = "PUBLISHED"
  PROVE  AvailableFrames' = AvailableFrames
  BY DEF AvailableFrames, Available

(* ... a published slot that leaves that state takes its frame, and only it, out
   of the mailbox ... *)
LEMMA Withdrawn ==
  ASSUME Distinct, NEW i \in Slots, shState[i] = "PUBLISHED", shSeq' = shSeq,
         \A j \in Slots : shState'[j] = "PUBLISHED" <=> shState[j] = "PUBLISHED" /\ j # i
  PROVE  /\ shSeq[i] \in AvailableFrames
         /\ AvailableFrames' = AvailableFrames \ {shSeq[i]}
  <1>1. shSeq[i] \in AvailableFrames
    BY DEF AvailableFrames, Available
  <1>2. \A j \in Slots : shState[j] = "PUBLISHED" /\ j # i => shSeq[j] # shSeq[i]
    BY DEF Distinct
  <1> QED
    BY <1>1, <1>2 DEF AvailableFrames, Available

(* ... and while a slot is not published the mailbox is not full. *)
LEMMA RoomForOne ==
  ASSUME SectionTypes, NEW w \in Slots, shState[w] # "PUBLISHED"
  PROVE  Cardinality(AvailableFrames) < NSlots
  <1>1. IsFiniteSet(Slots) /\ Cardinality(Slots) = NSlots
    BY NSlotsAssumption, FS_Interval DEF Slots
  <1>2. /\ IsFiniteSet(Slots \ {w})
        /\ Cardinality(Slots \ {w}) = NSlots - 1
    BY <1>1, FS_RemoveElement
  <1>3. Available \in SUBSET (Slots \ {w})
    BY DEF Available
  <1>4. IsFiniteSet(Available) /\ Cardinality(Available) <= NSlots - 1
    BY <1>2, <1>3, FS_Subset
  <1> DEFINE f == [i \in Available |-> shSeq[i]]
  <1>5. f \in Surjection(Available, AvailableFrames)
    BY DEF Surjection, AvailableFrames
  <1>6. Cardinality(AvailableFrames) <= Cardinality(Available) /\ IsFiniteSet(AvailableFrames)
    BY <1>4, <1>5, FS_Surjection
  <1>7. Cardinality(AvailableFrames) \in Nat /\ Cardinality(Available) \in Nat
    BY <1>4, <1>6, FS_CardinalityType
  <1> QED
    BY <1>4, <1>6, <1>7, NSlotsAssumption

(* The frames held, without the slots they are in. *)
TakenFrames == {c.truth.seq : c \in claims} \cup (IF InClaim THEN {truth.seq} ELSE {})

LEMMA HeldAreTaken == HeldFrames = TakenFrames
  <1>1. HeldFrames \subseteq TakenFrames
    <2> SUFFICES ASSUME NEW h \in Held PROVE h.truth.seq \in TakenFrames
      BY DEF HeldFrames
    <2>1. CASE \E c \in claims : h = [slot |-> c.slot, truth |-> c.truth]
      BY <2>1 DEF TakenFrames
    <2>2. CASE InClaim /\ h = [slot |-> cand, truth |-> truth]
      BY <2>2 DEF TakenFrames
    <2> QED
      BY <2>1, <2>2 DEF Held
  <1>2. TakenFrames \subseteq HeldFrames
    <2>1. ASSUME NEW c \in claims PROVE c.truth.seq \in HeldFrames
      <3>1. [slot |-> c.slot, truth |-> c.truth] \in Held
        BY DEF Held
      <3> QED
        BY <3>1 DEF HeldFrames
    <2>2. ASSUME InClaim PROVE truth.seq \in HeldFrames
      <3>1. [slot |-> cand, truth |-> truth] \in Held
        BY <2>2 DEF Held
      <3> QED
        BY <3>1 DEF HeldFrames
    <2> QED
      BY <2>1, <2>2 DEF TakenFrames
  <1> QED
    BY <1>1, <1>2

LEMMA HeldAreTakenNext == (HeldFrames = TakenFrames)'
  BY HeldAreTaken, PTL

(* The Cardinality that FrameMailbox extends is this one. *)
LEMMA SameCardinality ==
  ASSUME NEW S
  PROVE  Mailbox!Cardinality(S) = Cardinality(S)
  BY DEF Mailbox!Cardinality, Cardinality

MailboxStep == [Mailbox!MailboxNext]_(Mailbox!mailboxVars)

(* Each step of the ring is one of the mailbox, or none. *)
LEMMA RefinementStep ==
  Known /\ [Next]_vars => MailboxStep
  <1> SUFFICES ASSUME Known, [Next]_vars PROVE MailboxStep
    OBVIOUS
  <1> USE DEF Known, TypeOK, Control, RingDiscipline, NoSlot, InClaim, policyVars,
          ringVars, lifeVars, pcVars, slotVars, hdrVars, liveVars, tallyVars,
          hostVars, driverVars
  <1>1. CASE Assign
    <2>1. HeldFrames' = HeldFrames
      BY <1>1, HeldStays DEF Assign, FreshLoop
    <2>2. AvailableFrames' = AvailableFrames
      BY <1>1, AvailableStays DEF Assign, FreshLoop, WriterMarked, Writing,
         PolicyTypes, WorkerTypes, SectionTypes, HostTypes
    <2>3. LastFrame' = LastFrame /\ Publishing' = Publishing
      BY <1>1 DEF Assign, FreshLoop, LastFrame, Publishing, ContinuedSeq, PolicyTypes,
         WorkerTypes, SectionTypes, HostTypes
    <2> QED
      BY <2>1, <2>2, <2>3 DEF MailboxStep, Mailbox!mailboxVars
  <1>2. CASE Reassign
    <2>1. HeldFrames' = HeldFrames
      BY <1>2, HeldStays DEF Reassign, FreshLoop, Retire, Loop
    <2>2. AvailableFrames' = AvailableFrames
      BY <1>2, AvailableStays DEF Reassign, FreshLoop, Retire, Loop
    <2>3. Publishing /\ LastFrame' = LastFrame
      BY <1>2 DEF Reassign, FreshLoop, Retire, Loop, LastFrame, Publishing,
         ContinuedSeq, PolicyTypes, WorkerTypes, SectionTypes, HostTypes
    <2>4. CASE Publishing'
      BY <2>1, <2>2, <2>3, <2>4 DEF MailboxStep, Mailbox!mailboxVars, Publishing
    <2>5. CASE ~Publishing'
      BY <2>1, <2>2, <2>3, <2>5
      DEF MailboxStep, Mailbox!MailboxNext, Mailbox!Shut, Publishing
    <2> QED
      BY <2>4, <2>5
  <1>3. CASE DeviceCreateFails
    <2>1. HeldFrames' = HeldFrames
      BY <1>3, HeldStays DEF DeviceCreateFails
    <2>2. AvailableFrames' = AvailableFrames
      BY <1>3, AvailableStays DEF DeviceCreateFails, WriterMarked, Writing,
         PolicyTypes, WorkerTypes, SectionTypes, HostTypes
    <2>3. LastFrame' = LastFrame /\ Publishing' = Publishing
      BY <1>3 DEF DeviceCreateFails, LastFrame, Publishing, ContinuedSeq, PolicyTypes,
         WorkerTypes, SectionTypes, HostTypes
    <2> QED
      BY <2>1, <2>2, <2>3 DEF MailboxStep, Mailbox!mailboxVars
  <1>4. CASE StartLoop
    <2>1. HeldFrames' = HeldFrames
      BY <1>4, HeldStays DEF StartLoop
    <2>2. AvailableFrames' = AvailableFrames
      BY <1>4, AvailableStays DEF StartLoop, WriterMarked, Writing, PolicyTypes,
         WorkerTypes, SectionTypes, HostTypes
    <2>3. LastFrame' = LastFrame /\ Publishing' = Publishing
      BY <1>4 DEF StartLoop, LastFrame, Publishing, ContinuedSeq, PolicyTypes,
         WorkerTypes, SectionTypes, HostTypes
    <2> QED
      BY <2>1, <2>2, <2>3 DEF MailboxStep, Mailbox!mailboxVars
  <1>5. CASE ResetSlot
    <2>1. HeldFrames' = HeldFrames
      BY <1>5, HeldStays DEF ResetSlot
    <2>2. /\ LastFrame' = LastFrame /\ Publishing' = Publishing /\ ~Publishing
          /\ widx \in Slots /\ shSeq' = shSeq
          /\ shState' = [shState EXCEPT ![widx] = "FREE"]
      BY <1>5 DEF ResetSlot, Advance, LastFrame, Publishing, PolicyTypes, WorkerTypes,
         SectionTypes, HostTypes
    <2>3. CASE shState[widx] = "PUBLISHED"
      <3>1. \A j \in Slots :
              shState'[j] = "PUBLISHED" <=> shState[j] = "PUBLISHED" /\ j # widx
        BY <2>2, <2>3 DEF SectionTypes
      <3>2. /\ shSeq[widx] \in AvailableFrames
            /\ AvailableFrames' = AvailableFrames \ {shSeq[widx]}
        BY <2>2, <2>3, <3>1, Withdrawn
      <3> QED
        BY <2>1, <2>2, <3>2
        DEF MailboxStep, Mailbox!MailboxNext, Mailbox!Discard, Publishing
    <2>4. CASE shState[widx] # "PUBLISHED"
      <3>1. AvailableFrames' = AvailableFrames
        BY <2>2, <2>4, AvailableStays DEF SectionTypes
      <3> QED
        BY <2>1, <2>2, <3>1 DEF MailboxStep, Mailbox!mailboxVars
    <2> QED
      BY <2>3, <2>4
  <1>6. CASE SetGeneration
    <2>1. HeldFrames' = HeldFrames
      BY <1>6, HeldStays DEF SetGeneration
    <2>2. AvailableFrames' = AvailableFrames
      BY <1>6, AvailableStays DEF SetGeneration
    <2>3. AvailableFrames = {}
      BY <1>6 DEF SetGeneration, Cleared, AvailableFrames, Available
    <2>4. LastFrame' = LastFrame /\ ~Publishing /\ Publishing'
      BY <1>6 DEF SetGeneration, LastFrame, Publishing, PolicyTypes, WorkerTypes,
         SectionTypes, HostTypes
    <2> QED
      BY <2>1, <2>2, <2>3, <2>4
      DEF MailboxStep, Mailbox!MailboxNext, Mailbox!Reopen, Publishing
  <1>7. CASE MarkDead
    <2>1. HeldFrames' = HeldFrames
      BY <1>7, HeldStays DEF MarkDead, Return
    <2>2. AvailableFrames' = AvailableFrames
      BY <1>7, AvailableStays DEF MarkDead, Return
    <2>3. AvailableFrames = {}
      BY <1>7 DEF MarkDead, Return, Cleared, AvailableFrames, Available
    <2>4. LastFrame' = LastFrame /\ ~Publishing /\ Publishing'
      BY <1>7 DEF MarkDead, Return, LastFrame, Publishing, PolicyTypes, WorkerTypes,
         SectionTypes, HostTypes
    <2> QED
      BY <2>1, <2>2, <2>3, <2>4
      DEF MailboxStep, Mailbox!MailboxNext, Mailbox!Reopen, Publishing
  <1>8. CASE AcquireFails
    <2>1. HeldFrames' = HeldFrames
      BY <1>8, HeldStays DEF AcquireFails, AbandonSwapchain, Retire, Loop
    <2>2. AvailableFrames' = AvailableFrames
      BY <1>8, AvailableStays DEF AcquireFails, AbandonSwapchain, Retire, Loop
    <2>3. Publishing /\ LastFrame' = LastFrame
      BY <1>8 DEF AcquireFails, AbandonSwapchain, Retire, Loop, LastFrame, Publishing,
         ContinuedSeq, PolicyTypes, WorkerTypes, SectionTypes, HostTypes
    <2>4. CASE Publishing'
      BY <2>1, <2>2, <2>3, <2>4 DEF MailboxStep, Mailbox!mailboxVars, Publishing
    <2>5. CASE ~Publishing'
      BY <2>1, <2>2, <2>3, <2>5
      DEF MailboxStep, Mailbox!MailboxNext, Mailbox!Shut, Publishing
    <2> QED
      BY <2>4, <2>5
  <1>9. CASE ExitLost
    <2>1. HeldFrames' = HeldFrames
      BY <1>9, HeldStays DEF ExitLost
    <2>2. AvailableFrames' = AvailableFrames
      BY <1>9, AvailableStays DEF ExitLost, WriterMarked, Writing, PolicyTypes,
         WorkerTypes, SectionTypes, HostTypes
    <2>3. LastFrame' = LastFrame /\ Publishing' = Publishing
      BY <1>9 DEF ExitLost, LastFrame, Publishing, ContinuedSeq, PolicyTypes,
         WorkerTypes, SectionTypes, HostTypes
    <2> QED
      BY <2>1, <2>2, <2>3 DEF MailboxStep, Mailbox!mailboxVars
  <1>10. ASSUME NEW changed \in BOOLEAN, FrameReady(changed) PROVE MailboxStep
    <2>1. HeldFrames' = HeldFrames
      BY <1>10, HeldStays DEF FrameReady, TransportOff, Return, Retire, Loop
    <2>2. AvailableFrames' = AvailableFrames
      BY <1>10, AvailableStays DEF FrameReady, TransportOff, Return, Retire, Loop
    <2>3. Publishing /\ LastFrame' = LastFrame
      BY <1>10 DEF FrameReady, TransportOff, Return, Retire, Loop, LastFrame,
         Publishing, ContinuedSeq, PolicyTypes, WorkerTypes, SectionTypes, HostTypes
    <2>4. CASE Publishing'
      BY <2>1, <2>2, <2>3, <2>4 DEF MailboxStep, Mailbox!mailboxVars, Publishing
    <2>5. CASE ~Publishing'
      BY <2>1, <2>2, <2>3, <2>5
      DEF MailboxStep, Mailbox!MailboxNext, Mailbox!Shut, Publishing
    <2> QED
      BY <2>4, <2>5
  <1>11. CASE CreateTextures
    <2>1. HeldFrames' = HeldFrames
      BY <1>11, HeldStays DEF CreateTextures, Loop
    <2>2. AvailableFrames' = AvailableFrames
      BY <1>11, AvailableStays DEF CreateTextures, Loop, WriterMarked, Writing,
         PolicyTypes, WorkerTypes, SectionTypes, HostTypes
    <2>3. LastFrame' = LastFrame /\ Publishing' = Publishing
      BY <1>11 DEF CreateTextures, Loop, LastFrame, Publishing, ContinuedSeq,
         PolicyTypes, WorkerTypes, SectionTypes, HostTypes
    <2> QED
      BY <2>1, <2>2, <2>3 DEF MailboxStep, Mailbox!mailboxVars
  <1>12. CASE CreateTexturesFails
    <2>1. HeldFrames' = HeldFrames
      BY <1>12, HeldStays DEF CreateTexturesFails, DisableTransport, Loop, Return,
         Errors
    <2>2. AvailableFrames' = AvailableFrames
      BY <1>12, AvailableStays DEF CreateTexturesFails, DisableTransport, Loop,
         Return, Errors
    <2>3. Publishing /\ LastFrame' = LastFrame
      BY <1>12 DEF CreateTexturesFails, DisableTransport, Loop, Return, Errors,
         LastFrame, Publishing, ContinuedSeq, PolicyTypes, WorkerTypes, SectionTypes,
         HostTypes
    <2>4. CASE Publishing'
      BY <2>1, <2>2, <2>3, <2>4 DEF MailboxStep, Mailbox!mailboxVars, Publishing
    <2>5. CASE ~Publishing'
      BY <2>1, <2>2, <2>3, <2>5
      DEF MailboxStep, Mailbox!MailboxNext, Mailbox!Shut, Publishing
    <2> QED
      BY <2>4, <2>5
  <1>13. CASE ReconcileSlot
    <2>1. HeldFrames' = HeldFrames
      BY <1>13, HeldStays DEF ReconcileSlot, Advance
    <2>2. AvailableFrames' = AvailableFrames
      BY <1>13, AvailableStays DEF ReconcileSlot, Advance, WriterMarked, Writing,
         PolicyTypes, WorkerTypes, SectionTypes, HostTypes
    <2>3. LastFrame' = LastFrame /\ Publishing' = Publishing
      BY <1>13 DEF ReconcileSlot, Advance, LastFrame, Publishing, ContinuedSeq,
         PolicyTypes, WorkerTypes, SectionTypes, HostTypes
    <2> QED
      BY <2>1, <2>2, <2>3 DEF MailboxStep, Mailbox!mailboxVars
  <1>14. ASSUME NEW i \in Slots, Take(i) PROVE MailboxStep
    <2>1. HeldFrames' = HeldFrames
      BY <1>14, HeldStays DEF Take, Return
    <2>2. /\ LastFrame' = LastFrame /\ Publishing' = Publishing /\ Publishing
          /\ shSeq' = shSeq /\ wpc = "take"
      BY <1>14 DEF Take, Return, LastFrame, Publishing, PolicyTypes, WorkerTypes,
         SectionTypes, HostTypes
    <2>3. CASE shState' = [shState EXCEPT ![i] = "WRITING"] /\ CanTake(i) /\ pol[i] # "Free"
      <3>1. /\ shState[i] = "PUBLISHED" /\ IsOldest(i)
            /\ \A j \in Slots :
                 shState'[j] = "PUBLISHED" <=> shState[j] = "PUBLISHED" /\ j # i
        BY <1>14, <2>3 DEF Take, Chosen, IsFirstFree, FreeSlots, CanTake, Expected,
           PolicyTypes, WorkerTypes, SectionTypes, HostTypes
      <3>2. /\ shSeq[i] \in AvailableFrames
            /\ AvailableFrames' = AvailableFrames \ {shSeq[i]}
        BY <2>2, <3>1, Withdrawn
      <3>3. \A t \in AvailableFrames : shSeq[i] <= t
        BY <2>2, <3>1
        DEF AvailableFrames, Available, PolicyKnows, IsOldest, PublishedSlots
      <3> QED
        BY <2>1, <2>2, <3>2, <3>3
        DEF MailboxStep, Mailbox!MailboxNext, Mailbox!DropOldest, Publishing
    <2>4. CASE \/ shState' = shState
               \/ shState' = [shState EXCEPT ![i] = "WRITING"] /\ CanTake(i) /\ pol[i] = "Free"
      <3>1. AvailableFrames' = AvailableFrames
        BY <2>2, <2>4, AvailableStays DEF CanTake, Expected, SectionTypes
      <3> QED
        BY <2>1, <2>2, <3>1 DEF MailboxStep, Mailbox!mailboxVars
    <2> QED
      BY <1>14, <2>3, <2>4 DEF Take
  <1>15. CASE DropFrame
    <2>1. HeldFrames' = HeldFrames
      BY <1>15, HeldStays DEF DropFrame, Return
    <2>2. AvailableFrames' = AvailableFrames
      BY <1>15, AvailableStays DEF DropFrame, Return, WriterMarked, Writing,
         PolicyTypes, WorkerTypes, SectionTypes, HostTypes
    <2>3. LastFrame' = LastFrame /\ Publishing' = Publishing
      BY <1>15 DEF DropFrame, Return, LastFrame, Publishing, ContinuedSeq,
         PolicyTypes, WorkerTypes, SectionTypes, HostTypes
    <2> QED
      BY <2>1, <2>2, <2>3 DEF MailboxStep, Mailbox!mailboxVars
  <1>16. CASE LockSlot
    <2>1. HeldFrames' = HeldFrames
      BY <1>16, HeldStays DEF LockSlot, AbortWrite, Return
    <2>2. AvailableFrames' = AvailableFrames
      BY <1>16, AvailableStays DEF LockSlot, AbortWrite, Return, WriterMarked,
         Writing, PolicyTypes, WorkerTypes, SectionTypes, HostTypes
    <2>3. LastFrame' = LastFrame /\ Publishing' = Publishing
      BY <1>16 DEF LockSlot, AbortWrite, Return, LastFrame, Publishing, ContinuedSeq,
         PolicyTypes, WorkerTypes, SectionTypes, HostTypes
    <2> QED
      BY <2>1, <2>2, <2>3 DEF MailboxStep, Mailbox!mailboxVars
  <1>17. CASE LockFails
    <2>1. HeldFrames' = HeldFrames
      BY <1>17, HeldStays DEF LockFails, AbortWrite, Return, Errors
    <2>2. AvailableFrames' = AvailableFrames
      BY <1>17, AvailableStays DEF LockFails, AbortWrite, Return, Errors,
         WriterMarked, Writing, PolicyTypes, WorkerTypes, SectionTypes, HostTypes
    <2>3. LastFrame' = LastFrame /\ Publishing' = Publishing
      BY <1>17 DEF LockFails, AbortWrite, Return, Errors, LastFrame, Publishing,
         ContinuedSeq, PolicyTypes, WorkerTypes, SectionTypes, HostTypes
    <2> QED
      BY <2>1, <2>2, <2>3 DEF MailboxStep, Mailbox!mailboxVars
  <1>18. CASE Copy
    <2>1. HeldFrames' = HeldFrames
      BY <1>18, HeldStays DEF Copy
    <2>2. wslot \in Slots /\ shState[wslot] = "WRITING" /\ shState' = shState
      BY <1>18 DEF Copy, WriterMarked, Writing
    <2>3. \A i \in Slots : i # wslot => shSeq'[i] = shSeq[i]
      BY <1>18 DEF Copy, SectionTypes
    <2>4. AvailableFrames' = AvailableFrames
      BY <2>2, <2>3 DEF AvailableFrames, Available
    <2>5. LastFrame' = LastFrame /\ Publishing' = Publishing
      BY <1>18 DEF Copy, LastFrame, Publishing, PolicyTypes
    <2> QED
      BY <2>1, <2>4, <2>5 DEF MailboxStep, Mailbox!mailboxVars
  <1>19. CASE CopyFails
    <2>1. HeldFrames' = HeldFrames
      BY <1>19, HeldStays DEF CopyFails, AbortWrite, Return, Errors
    <2>2. AvailableFrames' = AvailableFrames
      BY <1>19, AvailableStays DEF CopyFails, AbortWrite, Return, Errors,
         WriterMarked, Writing, PolicyTypes, WorkerTypes, SectionTypes, HostTypes
    <2>3. LastFrame' = LastFrame /\ Publishing' = Publishing
      BY <1>19 DEF CopyFails, AbortWrite, Return, Errors, LastFrame, Publishing,
         ContinuedSeq, PolicyTypes, WorkerTypes, SectionTypes, HostTypes
    <2> QED
      BY <2>1, <2>2, <2>3 DEF MailboxStep, Mailbox!mailboxVars
  <1>20. CASE MarkPublished
    <2>1. HeldFrames' = HeldFrames
      BY <1>20, HeldStays DEF MarkPublished
    <2>2. /\ wpc = "state" /\ wpc' = "header" /\ nextSeq' = nextSeq /\ shSeq' = shSeq
          /\ wslot \in Slots /\ shState[wslot] = "WRITING"
          /\ shState' = [shState EXCEPT ![wslot] = "PUBLISHED"]
          /\ shSeq[wslot] + 1 = nextSeq
      BY <1>20 DEF MarkPublished, WriterMarked, Writing, Distinct
    <2>3. LastFrame' = LastFrame + 1 /\ shSeq[wslot] = LastFrame + 1
      BY <2>2 DEF LastFrame, PolicyTypes, WorkerTypes, SectionTypes, HostTypes
    <2>4. AvailableFrames' = AvailableFrames \cup {LastFrame'}
      BY <2>2, <2>3 DEF AvailableFrames, Available, SectionTypes
    <2>5. Cardinality(AvailableFrames) < NSlots
      BY <2>2, RoomForOne
    <2>6. Publishing /\ Publishing' = Publishing
      BY <2>2 DEF Publishing
    <2>7. Mailbox!Publish
      BY <2>1, <2>3, <2>4, <2>5, <2>6, SameCardinality DEF Mailbox!Publish
    <2> QED
      BY <2>7 DEF MailboxStep, Mailbox!MailboxNext
  <1>21. CASE StoreLatest
    <2>1. HeldFrames' = HeldFrames
      BY <1>21, HeldStays DEF StoreLatest, Return
    <2>2. AvailableFrames' = AvailableFrames
      BY <1>21, AvailableStays DEF StoreLatest, Return, WriterMarked, Writing,
         PolicyTypes, WorkerTypes, SectionTypes, HostTypes
    <2>3. LastFrame' = LastFrame /\ Publishing' = Publishing
      BY <1>21 DEF StoreLatest, Return, LastFrame, Publishing, ContinuedSeq,
         PolicyTypes, WorkerTypes, SectionTypes, HostTypes
    <2> QED
      BY <2>1, <2>2, <2>3 DEF MailboxStep, Mailbox!mailboxVars
  <1>22. CASE FinishFrame
    <2>1. HeldFrames' = HeldFrames
      BY <1>22, HeldStays DEF FinishFrame, AbandonSwapchain, DisableTransport, Retire,
         Loop
    <2>2. AvailableFrames' = AvailableFrames
      BY <1>22, AvailableStays DEF FinishFrame, AbandonSwapchain, DisableTransport,
         Retire, Loop
    <2>3. Publishing /\ LastFrame' = LastFrame
      BY <1>22 DEF FinishFrame, AbandonSwapchain, DisableTransport, Retire, Loop,
         LastFrame, Publishing, ContinuedSeq, PolicyTypes, WorkerTypes, SectionTypes,
         HostTypes
    <2>4. CASE Publishing'
      BY <2>1, <2>2, <2>3, <2>4 DEF MailboxStep, Mailbox!mailboxVars, Publishing
    <2>5. CASE ~Publishing'
      BY <2>1, <2>2, <2>3, <2>5
      DEF MailboxStep, Mailbox!MailboxNext, Mailbox!Shut, Publishing
    <2> QED
      BY <2>4, <2>5
  <1>23. CASE RequestStop
    <2>1. HeldFrames' = HeldFrames
      BY <1>23, HeldStays DEF RequestStop
    <2>2. AvailableFrames' = AvailableFrames
      BY <1>23, AvailableStays DEF RequestStop, WriterMarked, Writing, PolicyTypes,
         WorkerTypes, SectionTypes, HostTypes
    <2>3. LastFrame' = LastFrame /\ Publishing' = Publishing
      BY <1>23 DEF RequestStop, LastFrame, Publishing, ContinuedSeq, PolicyTypes,
         WorkerTypes, SectionTypes, HostTypes
    <2> QED
      BY <2>1, <2>2, <2>3 DEF MailboxStep, Mailbox!mailboxVars
  <1>24. CASE WorkerStops
    <2>1. HeldFrames' = HeldFrames
      BY <1>24, HeldStays DEF WorkerStops
    <2>2. AvailableFrames' = AvailableFrames
      BY <1>24, AvailableStays DEF WorkerStops, WriterMarked, Writing, PolicyTypes,
         WorkerTypes, SectionTypes, HostTypes
    <2>3. LastFrame' = LastFrame /\ Publishing' = Publishing
      BY <1>24 DEF WorkerStops, LastFrame, Publishing, ContinuedSeq, PolicyTypes,
         WorkerTypes, SectionTypes, HostTypes
    <2> QED
      BY <2>1, <2>2, <2>3 DEF MailboxStep, Mailbox!mailboxVars
  <1>25. CASE Unplug
    <2>1. HeldFrames' = HeldFrames
      BY <1>25, HeldStays DEF Unplug
    <2>2. AvailableFrames' = AvailableFrames
      BY <1>25, AvailableStays DEF Unplug, WriterMarked, Writing, PolicyTypes,
         WorkerTypes, SectionTypes, HostTypes
    <2>3. LastFrame' = LastFrame /\ Publishing' = Publishing
      BY <1>25 DEF Unplug, LastFrame, Publishing, ContinuedSeq, PolicyTypes,
         WorkerTypes, SectionTypes, HostTypes
    <2> QED
      BY <2>1, <2>2, <2>3 DEF MailboxStep, Mailbox!mailboxVars
  <1>26. CASE BeginClaim
    <2>1. AvailableFrames' = AvailableFrames
      BY <1>26, AvailableStays DEF BeginClaim
    <2>2. LastFrame' = LastFrame /\ Publishing' = Publishing
      BY <1>26 DEF BeginClaim, LastFrame, Publishing
    <2>3. Held' = Held
      BY <1>26 DEF BeginClaim, BeginScan, Held
    <2> QED
      BY <2>1, <2>2, <2>3 DEF MailboxStep, Mailbox!mailboxVars, HeldFrames
  <1>27. CASE ScanState
    <2>1. AvailableFrames' = AvailableFrames
      BY <1>27, AvailableStays DEF ScanState
    <2>2. LastFrame' = LastFrame /\ Publishing' = Publishing
      BY <1>27 DEF ScanState, LastFrame, Publishing
    <2>3. Held' = Held
      BY <1>27 DEF ScanState, ClaimOver, Held
    <2> QED
      BY <2>1, <2>2, <2>3 DEF MailboxStep, Mailbox!mailboxVars, HeldFrames
  <1>28. CASE ScanSeq
    <2>1. AvailableFrames' = AvailableFrames
      BY <1>28, AvailableStays DEF ScanSeq
    <2>2. LastFrame' = LastFrame /\ Publishing' = Publishing
      BY <1>28 DEF ScanSeq, LastFrame, Publishing
    <2>3. Held' = Held
      BY <1>28 DEF ScanSeq, ClaimOver, Held
    <2> QED
      BY <2>1, <2>2, <2>3 DEF MailboxStep, Mailbox!mailboxVars, HeldFrames
  <1>29. CASE NothingPublished
    <2>1. AvailableFrames' = AvailableFrames
      BY <1>29, AvailableStays DEF NothingPublished
    <2>2. LastFrame' = LastFrame /\ Publishing' = Publishing
      BY <1>29 DEF NothingPublished, LastFrame, Publishing
    <2>3. Held' = Held
      BY <1>29 DEF NothingPublished, ClaimOver, Held
    <2> QED
      BY <2>1, <2>2, <2>3 DEF MailboxStep, Mailbox!mailboxVars, HeldFrames
  <1>30. CASE ClaimCas
    <2>1. LastFrame' = LastFrame /\ Publishing' = Publishing /\ shSeq' = shSeq
      BY <1>30 DEF ClaimCas, LastFrame, Publishing
    <2>2. CASE hpc' = "reread"
      <3>1. /\ hpc = "scan" /\ cand \in Slots /\ shState[cand] = "PUBLISHED"
            /\ shState' = [shState EXCEPT ![cand] = "READING"]
            /\ truth' = [seq |-> shSeq[cand], gen |-> hdrGen]
            /\ UNCHANGED <<claims, cand>>
        BY <1>30, <2>2 DEF ClaimCas, BeginScan, ClaimOver, HostTypes
      <3>2. \A j \in Slots :
              shState'[j] = "PUBLISHED" <=> shState[j] = "PUBLISHED" /\ j # cand
        BY <3>1 DEF SectionTypes
      <3>3. /\ shSeq[cand] \in AvailableFrames
            /\ AvailableFrames' = AvailableFrames \ {shSeq[cand]}
        BY <2>1, <3>1, <3>2, Withdrawn
      <3>4. HeldFrames' = HeldFrames \cup {shSeq[cand]}
        BY <1>30, <2>2, <3>1, HeldAreTaken, HeldAreTakenNext DEF TakenFrames
      <3> QED
        BY <2>1, <3>3, <3>4
        DEF MailboxStep, Mailbox!MailboxNext, Mailbox!Take, Publishing
    <2>3. CASE hpc' # "reread"
      <3>1. /\ hpc = "scan" /\ hpc' \in {"scan", "idle"}
            /\ shState' = shState /\ UNCHANGED claims
        BY <1>30, <2>3 DEF ClaimCas, BeginScan, ClaimOver
      <3>2. HeldFrames' = HeldFrames
        BY <3>1 DEF HeldFrames, Held
      <3>3. AvailableFrames' = AvailableFrames
        BY <2>1, <3>1, AvailableStays
      <3> QED
        BY <2>1, <3>2, <3>3 DEF MailboxStep, Mailbox!mailboxVars
    <2> QED
      BY <2>2, <2>3
  <1>31. CASE RereadSlot
    <2>1. HeldFrames' = HeldFrames
      BY <1>31, HeldStays DEF RereadSlot
    <2>2. AvailableFrames' = AvailableFrames
      BY <1>31, AvailableStays DEF RereadSlot, WriterMarked, Writing, PolicyTypes,
         WorkerTypes, SectionTypes, HostTypes
    <2>3. LastFrame' = LastFrame /\ Publishing' = Publishing
      BY <1>31 DEF RereadSlot, LastFrame, Publishing, ContinuedSeq, PolicyTypes,
         WorkerTypes, SectionTypes, HostTypes
    <2> QED
      BY <2>1, <2>2, <2>3 DEF MailboxStep, Mailbox!mailboxVars
  <1>32. CASE ReadGeneration
    <2>1. AvailableFrames' = AvailableFrames
      BY <1>32, AvailableStays DEF ReadGeneration
    <2>2. LastFrame' = LastFrame /\ Publishing' = Publishing
      BY <1>32 DEF ReadGeneration, LastFrame, Publishing
    <2>3. TakenFrames' = TakenFrames
      <3>1. /\ hpc = "regen" /\ hpc' = "idle"
            /\ claims' = claims \cup {[slot |-> cand, seq |-> claimSeq, gen |-> hdrGen,
                                        truth |-> truth]}
        BY <1>32 DEF ReadGeneration, ClaimOver
      <3> DEFINE r == [slot |-> cand, seq |-> claimSeq, gen |-> hdrGen, truth |-> truth]
      <3>2. {c.truth.seq : c \in claims'} = {c.truth.seq : c \in claims} \cup {r.truth.seq}
        BY <3>1
      <3>3. r.truth.seq = truth.seq
        OBVIOUS
      <3> QED
        BY <3>1, <3>2, <3>3 DEF TakenFrames
    <2> QED
      BY <2>1, <2>2, <2>3, HeldAreTaken, HeldAreTakenNext
      DEF MailboxStep, Mailbox!mailboxVars
  <1>33. ASSUME NEW c \in claims, Release(c) PROVE MailboxStep
    <2>1. LastFrame' = LastFrame /\ Publishing' = Publishing
      BY <1>33 DEF Release, LastFrame, Publishing
    <2>2. AvailableFrames' = AvailableFrames
      BY <1>33, AvailableStays DEF Release, SectionTypes
    <2>3. hpc = "idle" /\ hpc' = "idle" /\ claims' = claims \ {c}
      BY <1>33 DEF Release
    <2>4. \A d \in claims : d.truth.seq = c.truth.seq => d = c
      BY <1>33 DEF TakenOnce
    <2>5. /\ HeldFrames = {d.truth.seq : d \in claims}
          /\ HeldFrames' = {d.truth.seq : d \in claims'}
      BY <2>3, HeldAreTaken, HeldAreTakenNext DEF TakenFrames
    <2>6. c.truth.seq \in HeldFrames /\ HeldFrames' = HeldFrames \ {c.truth.seq}
      BY <1>33, <2>3, <2>4, <2>5
    <2> QED
      BY <2>1, <2>2, <2>6
      DEF MailboxStep, Mailbox!MailboxNext, Mailbox!GiveBack, Publishing
  <1>34. CASE UNCHANGED vars
    BY <1>34 DEF vars, MailboxStep, Mailbox!mailboxVars, LastFrame, Publishing,
       AvailableFrames, Available, HeldFrames, Held
  <1> QED
    BY <1>1, <1>2, <1>3, <1>4, <1>5, <1>6, <1>7, <1>8, <1>9, <1>10, <1>11,
       <1>12, <1>13, <1>14, <1>15, <1>16, <1>17, <1>18, <1>19, <1>20, <1>21,
       <1>22, <1>23, <1>24, <1>25, <1>26, <1>27, <1>28, <1>29, <1>30, <1>31,
       <1>32, <1>33, <1>34
    DEF Next, WorkerStep, SystemStep, HostStep

(* The ring is a mailbox that drops its oldest frame, for every number of slots,
   frames, generations and claims. *)
THEOREM RingIsMailbox == Spec => IsMailbox
  <1>1. Init => Mailbox!MailboxInit
    BY DEF Init, Mailbox!MailboxInit, LastFrame, AvailableFrames, Available,
           HeldFrames, Held, InClaim, Publishing
  <1>2. Known /\ [Next]_vars => [Mailbox!MailboxNext]_(Mailbox!mailboxVars)
    BY RefinementStep DEF MailboxStep
  <1> QED
    BY <1>1, <1>2, KnownInit, KnownAlways, PTL DEF Spec, IsMailbox, Mailbox!Spec
=============================================================================
