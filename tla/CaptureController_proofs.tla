------------------------ MODULE CaptureController_proofs ------------------------
(* Theorems about CaptureController, for any backoffs, frame counts and      *)
(* number of ring generations.  Those about the ladder suppose that a rung   *)
(* is attempted with no other call in between (LateRungs is FALSE).          *)
EXTENDS CaptureController, FiniteSetTheorems, TLAPS

-----------------------------------------------------------------------------
(* What the calls keep among the mode, the track and the probe under way.  *)

Types ==
  /\ mode \in Modes /\ driverPresent \in BOOLEAN
  /\ restore = {} \/ \E t \in Tracks : restore = {t}
  /\ ladder \in Rungs \cup {NoRung} /\ lastGen \in 0 .. MaxGen
  /\ source \in {"none", "direct", "wgc", "dda"} /\ opened \in 0 .. MaxGen
  /\ wgcAlive \in BOOLEAN /\ probes \in Nat /\ delay \in Nat
  /\ answers \subseteq Outcomes /\ rung \in Rungs \cup {NoRung}
  /\ present \in BOOLEAN /\ ring \in Headers
  /\ directFrames \in 0 .. StableFrames

(* A session that is over leaves nothing behind but the controller.        *)
Over == source = "none" => ~ wgcAlive /\ probes = 0 /\ answers = {} /\ rung = NoRung

(* The track of a restored stream starts over; a warm one counts no more   *)
(* frames than were delivered.                                             *)
Track ==
  /\ mode = "DirectEncode" => \A t \in restore : t.backoff = InitialBackoff
  /\ source # "none" /\ (mode # "DirectEncode" \/ ladder # NoRung) => restore # {}
  /\ \A t \in restore : t.warm => t.stable < StableFrames /\ t.stable <= directFrames

Inv == Types /\ Over /\ Track /\ WgcAccounted

(* With the rungs attempted in turn.                                       *)
Waiting == (probes = 1 /\ answers = {}) \/ (probes = 0 /\ \E p \in Outcomes : answers = {p})
Probing ==
  source # "none" /\ mode # "Failed" =>
    IF mode = "DirectEncode" THEN probes = 0 /\ answers = {} ELSE Waiting
InTurn == source # "none" => ladder = rung /\ (rung # NoRung => mode = "Wgc")

-----------------------------------------------------------------------------
LEMMA Outcome ==
  ASSUME NEW p \in Outcomes
  PROVE  /\ p.healthy \in BOOLEAN
         /\ p.healthy => p.gen \in 1 .. MaxGen
  BY DEF Outcomes

LEMMA ProbedIsOutcome == Types => Probed \in Outcomes
  BY DEF Types, Probed, Outcomes, Reasons, Usable, Headers

LEMMA TrackIsNew == NewTrack \in Tracks
  BY BackoffAssumption, CountsAssumption DEF NewTrack, Tracks

LEMMA LowestIsIn ==
  ASSUME NEW S \in SUBSET Rungs
  PROVE  Lowest(S) \in S \cup {NoRung}
  <1>1. CASE S = {}
    BY <1>1 DEF Lowest
  <1>2. CASE S # {}
    <2>1. S \subseteq {1, 2, 3, 4, 5}
      BY DEF Rungs
    <2>2. \E r \in S : \A q \in S : r <= q
      <3>1. CASE 1 \in S
        BY <2>1, <3>1
      <3>2. CASE 1 \notin S /\ 2 \in S
        BY <2>1, <3>2
      <3>3. CASE 1 \notin S /\ 2 \notin S /\ 3 \in S
        BY <2>1, <3>3
      <3>4. CASE 1 \notin S /\ 2 \notin S /\ 3 \notin S /\ 4 \in S
        BY <2>1, <3>4
      <3>5. CASE S = {5}
        BY <3>5
      <3> QED
        BY <1>2, <2>1, <3>1, <3>2, <3>3, <3>4, <3>5
    <2> QED
      BY <1>2, <2>2 DEF Lowest
  <1> QED
    BY <1>1, <1>2

LEMMA NextIsRung == ASSUME NEW r \in Rungs PROVE NextRung(r) \in Rungs \cup {NoRung}
  BY LowestIsIn DEF NextRung

LEMMA InvInit == Init => Inv
  <1> SUFFICES ASSUME Init PROVE Inv
    OBVIOUS
  <1> USE BackoffAssumption, CountsAssumption DEF Init
  <1>1. 0 \in 0 .. MaxGen /\ 1 \in 1 .. MaxGen /\ 0 \in 0 .. StableFrames
    OBVIOUS
  <1>2. ring \in Headers /\ present \in BOOLEAN
    BY <1>1 DEF Headers
  <1>3. Types
    BY <1>1, <1>2 DEF Types, Modes, NoRung
  <1>4. Over /\ Track /\ WgcAccounted
    BY DEF Over, Track, WgcAccounted
  <1> QED
    BY <1>3, <1>4 DEF Inv

-----------------------------------------------------------------------------
(* One step of the controller.  TrackOr keeps the track or starts a new    *)
(* one, and the probe it schedules is that track's.                        *)

LEMMA TrackOrIsOne ==
  ASSUME Types
  PROVE  \E t \in Tracks : /\ TrackOr(restore) = {t}
                           /\ t = NewTrack \/ t \in restore
  BY TrackIsNew DEF Types, TrackOr

LEMMA TypesStep ==
  ASSUME Inv, [Next]_vars
  PROVE  Types'
  <1> USE BackoffAssumption, CountsAssumption DEF Inv
  <1>t. Types /\ Track
    OBVIOUS
  <1>z. 0 \in 0 .. MaxGen /\ 0 \in 0 .. StableFrames /\ NoRung \in Rungs \cup {NoRung}
    OBVIOUS
  <1>0. CASE UNCHANGED vars
    BY <1>0 DEF Types, vars, controllerVars, hostVars, driverVars
  <1>1. CASE RingRebuilds \/ RingDies \/ DriverStalls \/ DriverRecovers
    <2>1. present' \in BOOLEAN /\ ring' \in Headers
      <3>1. CASE RingRebuilds
        <4>1. ring.gen + 1 \in 1 .. MaxGen
          BY <3>1 DEF RingRebuilds, Types, Headers
        <4> QED
          BY <3>1, <4>1 DEF RingRebuilds, Types, Headers
      <3>2. CASE RingDies
        BY <3>2 DEF RingDies, Types, Headers
      <3>3. CASE DriverStalls
        BY <3>3 DEF DriverStalls, Types, Headers
      <3>4. CASE DriverRecovers
        BY <3>4 DEF DriverRecovers, Types, Headers
      <3> QED
        BY <1>1, <3>1, <3>2, <3>3, <3>4
    <2> QED
      BY <1>1, <2>1 DEF RingRebuilds, RingDies, DriverStalls, DriverRecovers, Types,
                        controllerVars, hostVars
  <1>2. ASSUME NEW p \in Outcomes, SessionStart(p) PROVE Types'
    <2>1. TrackOr({}) = {NewTrack} /\ NewTrack.backoff \in Nat /\ NewTrack \in Tracks
      BY TrackIsNew DEF TrackOr, NewTrack
    <2>2. CASE p.healthy
      BY <1>2, <2>2, Outcome DEF SessionStart, UseDirect, Types, Modes, FreshLadder, driverVars
    <2>3. CASE ~ p.healthy
      <3>1. /\ restore' = {NewTrack} /\ probes' = probes + 1 /\ delay' = NewTrack.backoff
            /\ mode' = "Wgc" /\ source' = "wgc" /\ wgcAlive' = TRUE
            /\ driverPresent' \in BOOLEAN /\ UNCHANGED <<lastGen, opened>>
        BY <1>2, <2>1, <2>3 DEF SessionStart, UseWgc, ScheduleRestore, ScheduleRestoreProbe
      <3> QED
        BY <1>2, <2>1, <3>1, <1>z DEF SessionStart, Types, Modes, FreshLadder, driverVars
    <2> QED
      BY <2>2, <2>3
  <1>3. CASE SessionEnds
    BY <1>3, <1>z DEF SessionEnds, Types, controllerVars, driverVars, NoRung
  <1>4. ASSUME NEW signal, RingSignal(signal) PROVE Types'
    <2>1. ring.gen \in 1 .. MaxGen
      BY DEF Types, Headers
    <2>2. CASE UseDirect(ring.gen) /\ UNCHANGED <<restore, wgcAlive, probes, delay>>
      BY <1>4, <2>1, <2>2 DEF RingSignal, UseDirect, Types, Modes, driverVars
    <2>3. CASE UseWgc /\ ScheduleRestore(restore) /\ UNCHANGED <<lastGen, opened>>
      <3>1. PICK t \in Tracks : restore' = {t}
        BY <2>3, TrackOrIsOne DEF ScheduleRestore
      <3>2. t.backoff \in Nat
        BY DEF Tracks
      <3>3. probes' \in Nat /\ delay' \in Nat
        BY <2>3, <3>1, <3>2 DEF ScheduleRestore, ScheduleRestoreProbe, Types
      <3> QED
        BY <1>4, <2>3, <3>1, <3>3 DEF RingSignal, UseWgc, Types, Modes, driverVars
    <2> QED
      BY <1>4, <2>2, <2>3 DEF RingSignal
  <1>5. CASE ProbeDriver
    BY <1>5, ProbedIsOutcome DEF ProbeDriver, Types, controllerVars, driverVars
  <1>6. ASSUME NEW p \in answers, RestoreProbeResult(p) PROVE Types'
    <2>o. p \in Outcomes
      BY DEF Types
    <2>1. CASE UNCHANGED <<controllerVars, source, opened, probes, delay, directFrames>>
      BY <1>6, <2>1 DEF RestoreProbeResult, Types, controllerVars, driverVars
    <2>2. CASE /\ p.healthy /\ UseDirect(p.gen) /\ driverPresent' = TRUE /\ directFrames' = 0
               /\ restore' = {Restored(t) : t \in restore} /\ UNCHANGED <<ladder, probes, delay>>
      <3>1. \A t \in Tracks : Restored(t) \in Tracks
        BY <1>z DEF Restored, Tracks
      <3>2. restore' = {} \/ \E t \in Tracks : restore' = {t}
        <4>1. CASE restore = {}
          BY <2>2, <4>1
        <4>2. ASSUME NEW t \in Tracks, restore = {t} PROVE restore' = {Restored(t)}
          BY <2>2, <4>2
        <4> QED
          BY <3>1, <4>1, <4>2 DEF Types
      <3> QED
        BY <1>6, <2>2, <2>o, <3>2, Outcome DEF RestoreProbeResult, UseDirect, Types, Modes, driverVars
    <2>3. CASE /\ driverPresent' = (driverPresent /\ p.reason # "DriverAbsent")
               /\ restore' = {[t EXCEPT !.backoff = Doubled(t.backoff)] : t \in TrackOr(restore)}
               /\ \E t \in restore' : ScheduleRestoreProbe(t.backoff)
               /\ UNCHANGED <<mode, ladder, lastGen, source, opened, directFrames>>
      <3>1. PICK t \in Tracks : TrackOr(restore) = {t}
        BY TrackOrIsOne
      <3>2. [t EXCEPT !.backoff = Doubled(t.backoff)] \in Tracks
        BY DEF Tracks, Doubled, Lesser
      <3>3. restore' = {[t EXCEPT !.backoff = Doubled(t.backoff)]}
        BY <2>3, <3>1
      <3>4. probes' \in Nat /\ delay' \in Nat
        BY <2>3, <3>2, <3>3 DEF ScheduleRestoreProbe, Types, Tracks
      <3> QED
        BY <1>6, <2>3, <3>2, <3>3, <3>4 DEF RestoreProbeResult, Types, driverVars
    <2> QED
      BY <1>6, <2>1, <2>2, <2>3 DEF RestoreProbeResult
  <1>7. CASE DirectFrameOk
    <2>1. PICK t \in Tracks : /\ t \in restore /\ t.warm
                 /\ restore' = {[t EXCEPT !.stable = t.stable + 1, !.warm = ~ ProvenStable(t.stable + 1)]}
                 /\ wgcAlive' = (wgcAlive /\ ~ ProvenStable(t.stable + 1))
      BY <1>7 DEF DirectFrameOk, Types
    <2>2. t.stable + 1 \in 0 .. StableFrames
      BY <2>1 DEF Track, Tracks
    <2>3. [t EXCEPT !.stable = t.stable + 1, !.warm = ~ ProvenStable(t.stable + 1)] \in Tracks
      BY <2>2 DEF Tracks, ProvenStable
    <2>4. wgcAlive' \in BOOLEAN /\ directFrames' \in 0 .. StableFrames
      BY <1>7, <2>1 DEF DirectFrameOk, Lesser, Types, ProvenStable
    <2> QED
      BY <1>7, <2>1, <2>3, <2>4 DEF DirectFrameOk, Types, driverVars
  <1>8. CASE WgcTrip
    BY <1>8 DEF WgcTrip, Types, driverVars, Rungs
  <1>9. ASSUME NEW success \in BOOLEAN, RungResult(success) PROVE Types'
    <2>1. rung \in Rungs /\ NextRung(rung) \in Rungs \cup {NoRung}
      BY <1>9, NextIsRung DEF RungResult, Types
    <2>2. /\ ladder' \in Rungs \cup {NoRung} /\ rung' \in Rungs \cup {NoRung}
          /\ mode' \in Modes /\ source' \in {"none", "direct", "wgc", "dda"}
      BY <1>9, <2>1 DEF RungResult, Types, Modes
    <2> QED
      BY <1>9, <2>2 DEF RungResult, Types, driverVars
  <1> QED
    BY <1>0, <1>1, <1>2, <1>3, <1>4, <1>5, <1>6, <1>7, <1>8, <1>9
       DEF Next, SampleRing, Starve, ReportProbe, ReportRung
LEMMA RestStep ==
  ASSUME Inv, [Next]_vars
  PROVE  Over' /\ Track' /\ WgcAccounted'
  <1> USE BackoffAssumption, CountsAssumption
  <1>i. Types /\ Over /\ Track /\ WgcAccounted
    BY DEF Inv
  <1>a. ASSUME UNCHANGED <<mode, restore, ladder, source, wgcAlive, directFrames>>,
               UNCHANGED <<probes, answers, rung>> \/ source # "none"
        PROVE  Over' /\ Track' /\ WgcAccounted'
    BY <1>i, <1>a DEF Over, Track, WgcAccounted
  <1>b. ASSUME source # "none", UseDirect(lastGen'),
               UNCHANGED <<restore, ladder, wgcAlive, directFrames>>, mode = "DirectEncode"
        PROVE  Over' /\ Track' /\ WgcAccounted'
    BY <1>i, <1>b DEF UseDirect, Over, Track, WgcAccounted
  <1>0. CASE UNCHANGED vars
    BY <1>0, <1>a DEF vars, controllerVars, hostVars, driverVars
  <1>1. CASE RingRebuilds \/ RingDies \/ DriverStalls \/ DriverRecovers
    BY <1>1, <1>a DEF RingRebuilds, RingDies, DriverStalls, DriverRecovers, controllerVars, hostVars
  <1>2. ASSUME NEW p \in Outcomes, SessionStart(p) PROVE Over' /\ Track' /\ WgcAccounted'
    <2>1. TrackOr({}) = {NewTrack} /\ ~ NewTrack.warm
      BY DEF TrackOr, NewTrack
    <2>2. CASE p.healthy
      BY <1>i, <1>2, <2>2 DEF SessionStart, UseDirect, FreshLadder, Over, Track, WgcAccounted
    <2>3. CASE ~ p.healthy
      <3>1. restore' = {NewTrack} /\ mode' = "Wgc" /\ source' = "wgc" /\ wgcAlive' = TRUE
        BY <1>2, <2>1, <2>3 DEF SessionStart, UseWgc, ScheduleRestore
      <3> QED
        BY <2>1, <3>1 DEF Over, Track, WgcAccounted
    <2> QED
      BY <2>2, <2>3
  <1>3. CASE SessionEnds
    BY <1>i, <1>3 DEF SessionEnds, controllerVars, Over, Track, WgcAccounted
  <1>4. ASSUME NEW signal, RingSignal(signal) PROVE Over' /\ Track' /\ WgcAccounted'
    <2>1. source # "none" /\ mode = "DirectEncode" /\ UNCHANGED <<directFrames, ladder>>
      BY <1>4 DEF RingSignal, Callable
    <2>2. CASE UseDirect(ring.gen) /\ UNCHANGED <<restore, wgcAlive, probes, delay>>
      BY <1>b, <2>1, <2>2 DEF UseDirect
    <2>3. CASE UseWgc /\ ScheduleRestore(restore) /\ UNCHANGED <<lastGen, opened>>
      <3>1. PICK t \in Tracks : restore' = {t} /\ (t = NewTrack \/ t \in restore)
        BY <1>i, <2>3, TrackOrIsOne DEF ScheduleRestore
      <3>2. t.warm => t.stable < StableFrames /\ t.stable <= directFrames
        BY <1>i, <3>1 DEF Track, NewTrack
      <3> QED
        BY <2>1, <2>3, <3>1, <3>2 DEF UseWgc, Over, Track, WgcAccounted
    <2> QED
      BY <1>4, <2>2, <2>3 DEF RingSignal
  <1>5. CASE ProbeDriver
    <2>1. source # "none"
      BY <1>i, <1>5 DEF ProbeDriver, Over
    <2> QED
      BY <1>5, <2>1, <1>a DEF ProbeDriver, controllerVars
  <1>6. ASSUME NEW p \in answers, RestoreProbeResult(p) PROVE Over' /\ Track' /\ WgcAccounted'
    <2>s. source # "none" /\ UNCHANGED wgcAlive
      BY <1>6 DEF RestoreProbeResult, Callable
    <2>1. CASE UNCHANGED <<controllerVars, source, opened, probes, delay, directFrames>>
      BY <2>s, <2>1, <1>a DEF controllerVars
    <2>2. CASE /\ mode \in {"Wgc", "Dda"} /\ UseDirect(p.gen) /\ directFrames' = 0
               /\ restore' = {Restored(t) : t \in restore}
      <3>1. PICK t \in Tracks : restore = {t}
        BY <1>i, <2>s, <2>2 DEF Types, Track
      <3>2. restore' = {Restored(t)}
        BY <2>2, <3>1
      <3>3. Restored(t).warm /\ Restored(t).stable = 0 /\ Restored(t).backoff = InitialBackoff
        BY DEF Restored, Tracks
      <3> QED
        BY <2>2, <3>2, <3>3 DEF UseDirect, Over, Track, WgcAccounted
    <2>3. CASE /\ mode \in {"Wgc", "Dda"}
               /\ restore' = {[t EXCEPT !.backoff = Doubled(t.backoff)] : t \in TrackOr(restore)}
               /\ UNCHANGED <<mode, ladder, lastGen, source, opened, directFrames>>
      <3>1. PICK t \in Tracks : TrackOr(restore) = {t} /\ (t = NewTrack \/ t \in restore)
        BY <1>i, TrackOrIsOne
      <3>2. restore' = {[t EXCEPT !.backoff = Doubled(t.backoff)]}
        BY <2>3, <3>1
      <3>3. t.warm => t.stable < StableFrames /\ t.stable <= directFrames
        BY <1>i, <3>1 DEF Track, NewTrack
      <3>4. /\ [t EXCEPT !.backoff = Doubled(t.backoff)].warm = t.warm
            /\ [t EXCEPT !.backoff = Doubled(t.backoff)].stable = t.stable
        BY DEF Tracks
      <3> QED
        BY <1>i, <2>s, <2>3, <3>2, <3>3, <3>4 DEF Over, Track, WgcAccounted
    <2> QED
      BY <1>6, <2>1, <2>2, <2>3 DEF RestoreProbeResult
  <1>7. CASE DirectFrameOk
    <2>1. PICK t \in Tracks : /\ restore = {t} /\ t.warm
                 /\ restore' = {[t EXCEPT !.stable = t.stable + 1, !.warm = ~ ProvenStable(t.stable + 1)]}
                 /\ wgcAlive' = (wgcAlive /\ ~ ProvenStable(t.stable + 1))
      BY <1>i, <1>7 DEF DirectFrameOk, Types
    <2> DEFINE u == [t EXCEPT !.stable = t.stable + 1, !.warm = ~ ProvenStable(t.stable + 1)]
    <2>2. u.stable = t.stable + 1 /\ u.warm = ~ ProvenStable(t.stable + 1) /\ u.backoff = t.backoff
      BY DEF Tracks
    <2>3. t.stable \in Nat /\ t.stable <= directFrames /\ directFrames \in Nat
      BY <1>i, <2>1 DEF Track, Types, Tracks
    <2>4. u.warm => u.stable < StableFrames /\ u.stable <= directFrames'
      <3>1. directFrames' = IF directFrames + 1 < StableFrames THEN directFrames + 1 ELSE StableFrames
        BY <1>7 DEF DirectFrameOk, Lesser
      <3>2. u.warm => t.stable + 1 < StableFrames
        <4>1. ~ ProvenStable(t.stable + 1) => t.stable + 1 < StableFrames
          BY <2>3 DEF ProvenStable
        <4> HIDE DEF u
        <4> QED
          BY <2>2, <4>1
      <3> HIDE DEF u
      <3> QED
        BY <2>2, <2>3, <3>1, <3>2
    <2>5. source # "none" /\ mode = "DirectEncode" /\ UNCHANGED <<mode, source, ladder>>
      BY <1>7 DEF DirectFrameOk, Callable
    <2>6. t.backoff = InitialBackoff
      BY <1>i, <2>1, <2>5 DEF Track
    <2>7. restore' = {u} /\ (wgcAlive' => u.warm)
      BY <2>1, <2>2
    <2> HIDE DEF u
    <2> QED
      BY <2>2, <2>4, <2>5, <2>6, <2>7 DEF Over, Track, WgcAccounted
  <1>8. CASE WgcTrip
    BY <1>i, <1>8 DEF WgcTrip, Callable, Over, Track, WgcAccounted
  <1>9. ASSUME NEW success \in BOOLEAN, RungResult(success) PROVE Over' /\ Track' /\ WgcAccounted'
    <2>1. /\ source # "none" /\ UNCHANGED <<restore, wgcAlive, directFrames>>
          /\ source' # "none"
          /\ \/ UNCHANGED <<mode, ladder>>
             \/ ladder # NoRung /\ mode' \in {mode, "Dda", "Failed"}
      BY <1>9 DEF RungResult
    <2> QED
      BY <1>i, <2>1 DEF Over, Track, WgcAccounted
  <1> QED
    BY <1>0, <1>1, <1>2, <1>3, <1>4, <1>5, <1>6, <1>7, <1>8, <1>9
       DEF Next, SampleRing, Starve, ReportProbe, ReportRung
LEMMA InvStep == Inv /\ [Next]_vars => Inv'
  BY TypesStep, RestStep DEF Inv

(* The inductive invariant: the types of every variable, the account of the *)
(* rungs, the probes and the WGC session, and what each rung may rely on.   *)
THEOREM Safe == Spec => []Inv
  BY InvInit, InvStep, PTL DEF Spec

-----------------------------------------------------------------------------
(* Every variable keeps its type, and there is at most one restore track.  *)
THEOREM TypeCorrect == Spec => []TypeOK
  <1>1. Inv => TypeOK
    <2> SUFFICES ASSUME Types PROVE TypeOK
      BY DEF Inv
    <2>1. restore \subseteq Tracks /\ Cardinality(restore) <= 1
      <3>1. CASE restore = {}
        BY <3>1, FS_EmptySet
      <3>2. ASSUME NEW t \in Tracks, restore = {t} PROVE restore \subseteq Tracks /\ Cardinality(restore) <= 1
        <4>1. Cardinality({t}) = 1
          BY FS_Singleton
        <4> QED
          BY <3>2, <4>1
      <3> QED
        BY <3>1, <3>2 DEF Types
    <2> QED
      BY <2>1 DEF Types, TypeOK
  <1> QED
    BY <1>1, Safe, PTL

(* The warm WGC session runs while it carries the stream; one left under   *)
(* direct encoding is one direct_frame_ok will end.                        *)
THEOREM WgcIsAccounted == Spec => []WgcAccounted
  <1>1. Inv => WgcAccounted
    BY DEF Inv
  <1> QED
    BY <1>1, Safe, PTL

(* A relapse is probed after the initial backoff: restoring the stream     *)
(* resets the track, whatever the backoff had grown to.                    *)
THEOREM RelapsesProbeSoon == Spec => RelapseProbesSoon
  <1>1. ASSUME Inv, [Next]_vars, mode = "DirectEncode", mode' = "Wgc"
        PROVE  delay' = InitialBackoff
    <2>i. Types /\ Track
      BY <1>1 DEF Inv
    <2>1. CASE \E p \in Outcomes : SessionStart(p)
      <3>1. TrackOr({}) = {NewTrack} /\ NewTrack.backoff = InitialBackoff
        BY DEF TrackOr, NewTrack
      <3> QED
        BY <1>1, <2>1, <3>1 DEF SessionStart, UseDirect, ScheduleRestore, ScheduleRestoreProbe
    <2>2. ASSUME NEW signal, RingSignal(signal) PROVE delay' = InitialBackoff
      <3>1. ScheduleRestore(restore)
        BY <1>1, <2>2 DEF RingSignal, UseDirect
      <3>2. PICK t \in Tracks : TrackOr(restore) = {t} /\ (t = NewTrack \/ t \in restore)
        BY <2>i, TrackOrIsOne
      <3>3. t.backoff = InitialBackoff
        BY <1>1, <2>i, <3>2 DEF Track, NewTrack
      <3> QED
        BY <3>1, <3>2, <3>3 DEF ScheduleRestore, ScheduleRestoreProbe
    <2>3. CASE UNCHANGED mode
      BY <1>1, <2>3
    <2>4. ASSUME NEW p \in answers, RestoreProbeResult(p) PROVE UNCHANGED mode
      BY <1>1, <2>4 DEF RestoreProbeResult, UseDirect, controllerVars
    <2>5. ASSUME NEW success \in BOOLEAN, RungResult(success) PROVE UNCHANGED mode
      BY <1>1, <2>5 DEF RungResult
    <2>6. CASE UNCHANGED vars \/ RingRebuilds \/ RingDies \/ DriverStalls \/ DriverRecovers \/ SessionEnds
               \/ ProbeDriver \/ DirectFrameOk \/ WgcTrip
      <3>1. UNCHANGED mode
        BY <2>6 DEF vars, controllerVars, RingRebuilds, RingDies, DriverStalls, DriverRecovers, SessionEnds,
                    ProbeDriver, DirectFrameOk, WgcTrip
      <3> QED
        BY <2>3, <3>1
    <2> QED
      BY <1>1, <2>1, <2>2, <2>3, <2>4, <2>5, <2>6 DEF Next, SampleRing, Starve, ReportProbe, ReportRung
  <1>2. Inv /\ [Next]_vars => [mode = "DirectEncode" /\ mode' = "Wgc" => delay' = InitialBackoff]_<<mode, delay>>
    BY <1>1
  <1> QED
    BY <1>2, Safe, PTL DEF Spec, RelapseProbesSoon

(* The warm session is torn down by the end of the session, or once direct *)
(* encoding has delivered StableFrames frames since it was restored.       *)
THEOREM TeardownsAreEarned == Spec => TeardownIsEarned
  <1>1. ASSUME Inv, [Next]_vars, wgcAlive, ~ wgcAlive'
        PROVE  source' = "none" \/ directFrames' = StableFrames
    <2>i. Types /\ Track
      BY <1>1 DEF Inv
    <2>1. SessionEnds \/ DirectFrameOk
      BY <1>1 DEF Next, SampleRing, Starve, ReportProbe, ReportRung, vars, controllerVars, hostVars,
                  RingRebuilds, RingDies, DriverStalls, DriverRecovers, SessionStart, UseWgc, RingSignal,
                  ProbeDriver, RestoreProbeResult, WgcTrip, RungResult
    <2>2. CASE DirectFrameOk
      <3>1. PICK t \in restore : t.warm /\ ProvenStable(t.stable + 1)
        BY <1>1, <2>2 DEF DirectFrameOk
      <3>2. t.stable \in Nat /\ directFrames \in Nat /\ t.stable <= directFrames
        BY <2>i, <3>1 DEF Types, Track, Tracks
      <3>3. directFrames' = Lesser(directFrames + 1, StableFrames)
        BY <2>2 DEF DirectFrameOk
      <3> QED
        BY <3>1, <3>2, <3>3, CountsAssumption DEF Lesser, ProvenStable
    <2> QED
      BY <2>1, <2>2 DEF SessionEnds
  <1>2. Inv /\ [Next]_vars => [wgcAlive /\ ~wgcAlive' => source' = "none" \/ directFrames' = StableFrames]_vars
    BY <1>1
  <1> QED
    BY <1>2, Safe, PTL DEF Spec, TeardownIsEarned
-----------------------------------------------------------------------------
(* The ladder and the probes, when no other call comes in between.         *)

LEMMA InTurnStep ==
  ASSUME ~ LateRungs, Inv, InTurn, [Next]_vars
  PROVE  InTurn'
  <1>i. Types /\ Over
    BY DEF Inv
  <1>0. CASE UNCHANGED <<source, mode, ladder, rung>>
    BY <1>0 DEF InTurn
  <1>1. CASE UNCHANGED vars \/ RingRebuilds \/ RingDies \/ DriverStalls \/ DriverRecovers
             \/ ProbeDriver \/ DirectFrameOk
    <2>1. UNCHANGED <<source, mode, ladder, rung>>
      BY <1>1 DEF vars, controllerVars, hostVars, RingRebuilds, RingDies, DriverStalls, DriverRecovers,
                  ProbeDriver, DirectFrameOk
    <2> QED
      BY <1>0, <2>1
  <1>2. ASSUME NEW p \in Outcomes, SessionStart(p) PROVE InTurn'
    BY <1>i, <1>2 DEF SessionStart, FreshLadder, Over, InTurn
  <1>3. CASE SessionEnds
    BY <1>3 DEF SessionEnds, InTurn
  <1>4. ASSUME NEW signal, RingSignal(signal) PROVE InTurn'
    BY <1>4 DEF RingSignal, Callable, InTurn
  <1>5. ASSUME NEW p \in answers, RestoreProbeResult(p) PROVE InTurn'
    BY <1>5 DEF RestoreProbeResult, Callable, InTurn, controllerVars
  <1>6. CASE WgcTrip
    BY <1>6 DEF WgcTrip, InTurn
  <1>7. ASSUME NEW success \in BOOLEAN, RungResult(success) PROVE InTurn'
    BY <1>7 DEF RungResult, InTurn
  <1> QED
    BY <1>1, <1>2, <1>3, <1>4, <1>5, <1>6, <1>7 DEF Next, SampleRing, Starve, ReportProbe, ReportRung

LEMMA ProbingStep ==
  ASSUME ~ LateRungs, Inv, InTurn, Probing, [Next]_vars
  PROVE  Probing'
  <1>i. Types /\ Over
    BY DEF Inv
  <1>0. CASE UNCHANGED <<source, mode, probes, answers>>
    BY <1>0 DEF Probing, Waiting
  <1>1. CASE UNCHANGED vars \/ RingRebuilds \/ RingDies \/ DriverStalls \/ DriverRecovers
             \/ DirectFrameOk \/ WgcTrip
    <2>1. UNCHANGED <<source, mode, probes, answers>>
      BY <1>1 DEF vars, controllerVars, hostVars, RingRebuilds, RingDies, DriverStalls, DriverRecovers,
                  DirectFrameOk, WgcTrip
    <2> QED
      BY <1>0, <2>1
  <1>2. ASSUME NEW p \in Outcomes, SessionStart(p) PROVE Probing'
    <2>1. probes = 0 /\ answers = {} /\ UNCHANGED answers
      BY <1>i, <1>2 DEF SessionStart, Over
    <2>2. CASE p.healthy
      BY <1>2, <2>1, <2>2 DEF SessionStart, UseDirect, Probing
    <2>3. CASE ~ p.healthy
      BY <1>2, <2>1, <2>3 DEF SessionStart, UseWgc, ScheduleRestore, ScheduleRestoreProbe, Probing, Waiting
    <2> QED
      BY <2>2, <2>3
  <1>3. CASE SessionEnds
    BY <1>3 DEF SessionEnds, Probing
  <1>4. ASSUME NEW signal, RingSignal(signal) PROVE Probing'
    <2>1. probes = 0 /\ answers = {} /\ UNCHANGED answers
      BY <1>4 DEF RingSignal, Callable, Probing
    <2> QED
      BY <1>4, <2>1 DEF RingSignal, UseDirect, UseWgc, ScheduleRestore, ScheduleRestoreProbe,
                        Probing, Waiting
  <1>5. CASE ProbeDriver
    <2>1. source # "none" /\ probes \in Nat /\ Probed \in Outcomes
      BY <1>i, <1>5, ProbedIsOutcome DEF ProbeDriver, Over, Types
    <2> QED
      BY <1>5, <2>1 DEF ProbeDriver, controllerVars, Probing, Waiting
  <1>6. ASSUME NEW p \in answers, RestoreProbeResult(p) PROVE Probing'
    <2>1. source # "none" /\ answers' = answers \ {p}
      BY <1>6 DEF RestoreProbeResult, Callable
    <2>2. mode \in {"Wgc", "Dda"} => probes = 0 /\ answers' = {}
      BY <2>1 DEF Probing, Waiting
    <2>3. CASE mode \in {"Wgc", "Dda"} /\ UseDirect(p.gen) /\ UNCHANGED probes
      BY <2>2, <2>3 DEF UseDirect, Probing
    <2>4. CASE mode \in {"Wgc", "Dda"} /\ UNCHANGED mode /\ \E t \in restore' : ScheduleRestoreProbe(t.backoff)
      BY <2>2, <2>4 DEF ScheduleRestoreProbe, Probing, Waiting
    <2>5. CASE mode \notin {"Wgc", "Dda"} /\ UNCHANGED mode
      BY <1>i, <2>1, <2>5 DEF Probing, Types, Modes
    <2> QED
      BY <1>6, <2>3, <2>4, <2>5 DEF RestoreProbeResult, controllerVars
  <1>7. ASSUME NEW success \in BOOLEAN, RungResult(success) PROVE Probing'
    <2>1. UNCHANGED <<probes, answers>> /\ source # "none" /\ mode = "Wgc" /\ mode' \in {"Wgc", "Dda", "Failed"}
      BY <1>7 DEF RungResult, InTurn
    <2> QED
      BY <2>1 DEF Probing, Waiting
  <1> QED
    BY <1>1, <1>2, <1>3, <1>4, <1>5, <1>6, <1>7 DEF Next, SampleRing, Starve, ReportProbe, ReportRung

(* A WGC trip is ignored only while a rung is being attempted, if rungs    *)
(* are attempted in turn.                                                  *)
THEOREM LadderWorks == ~ LateRungs => (Spec => []LadderIsWorked)
  <1> SUFFICES ASSUME ~ LateRungs PROVE Spec => []LadderIsWorked
    OBVIOUS
  <1>1. Init => InTurn
    BY DEF Init, InTurn
  <1>2. Inv /\ InTurn /\ [Next]_vars => InTurn'
    BY InTurnStep
  <1>3. InTurn => LadderIsWorked
    BY DEF InTurn, LadderIsWorked
  <1> QED
    BY <1>1, <1>2, <1>3, Safe, PTL DEF Spec

(* In fallback exactly one restore probe is under way, and none in direct  *)
(* mode, if rungs are attempted in turn.                                   *)
THEOREM OneProbeAtATime == ~ LateRungs => (Spec => []OneProbe)
  <1> SUFFICES ASSUME ~ LateRungs PROVE Spec => []OneProbe
    OBVIOUS
  <1>1. Init => InTurn /\ Probing
    BY DEF Init, InTurn, Probing
  <1>2. Inv /\ InTurn /\ Probing /\ [Next]_vars => InTurn' /\ Probing'
    BY InTurnStep, ProbingStep
  <1>3. Probing => OneProbe
    <2> SUFFICES ASSUME Probing, source # "none", mode # "Failed"
                 PROVE  probes + Cardinality(answers) = IF mode = "DirectEncode" THEN 0 ELSE 1
      BY DEF OneProbe
    <2>1. CASE answers = {}
      <3>1. Cardinality({}) = 0
        BY FS_EmptySet
      <3> QED
        BY <2>1, <3>1 DEF Probing, Waiting
    <2>2. ASSUME NEW p, answers = {p} PROVE probes + Cardinality(answers) = IF mode = "DirectEncode" THEN 0 ELSE 1
      <3>1. Cardinality({p}) = 1
        BY FS_Singleton
      <3> QED
        BY <2>2, <3>1 DEF Probing, Waiting
    <2> QED
      BY <2>1, <2>2 DEF Probing, Waiting
  <1> QED
    BY <1>1, <1>2, <1>3, Safe, PTL DEF Spec
=============================================================================
