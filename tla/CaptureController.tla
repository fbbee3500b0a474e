--------------------------- MODULE CaptureController ---------------------------
(***************************************************************************)
(* The host's capture controller: which backend carries the stream (the    *)
(* driver's ring, WGC, DDA), the restore probes, the warm WGC session and  *)
(* the recovery ladder.                                                    *)
(*                                                                         *)
(* The controller performs no I/O: each call returns actions.  The model   *)
(* closes it with the capture thread that performs them, the driver it     *)
(* probes and the ring it samples, all three external.                     *)
(***************************************************************************)
EXTENDS Naturals, FiniteSets

CONSTANTS
  DdaEnabled,      \* VgdConfig.dda_enabled
  InitialBackoff,  \* VgdConfig.restore_initial_backoff_ms
  MaxBackoff,      \* VgdConfig.restore_max_backoff_ms
  StableFrames,    \* VgdConfig.restore_stable_frames
  LateRungs,       \* other calls arrive while a rung is being attempted
  MaxGen           \* bound: ring generations

ASSUME SwitchesAssumption == DdaEnabled \in BOOLEAN /\ LateRungs \in BOOLEAN
ASSUME BackoffAssumption ==
  InitialBackoff \in Nat \ {0} /\ MaxBackoff \in Nat /\ InitialBackoff <= MaxBackoff
ASSUME CountsAssumption == StableFrames \in Nat \ {0} /\ MaxGen \in Nat \ {0}

VARIABLES
  \* CaptureController
  mode, driverPresent,
  restore,   \* {} or the RestoreTrack
  ladder,    \* the current rung or NoRung
  lastGen,   \* last_generation
  \* the capture thread
  source,    \* what feeds the encoder
  opened,    \* ring generation whose textures are open
  wgcAlive,  \* a WGC session exists
  probes,    \* restore probes scheduled and not yet made
  delay,     \* delay of the last one scheduled
  answers,   \* outcomes of probes made and not yet reported
  rung,      \* rung being attempted
  \* the driver
  present,   \* its control device exists
  ring,      \* RingHeader: state, heartbeat freshness, generation
  \* history
  directFrames  \* frames since direct encoding was last entered

controllerVars == <<mode, driverPresent, restore, ladder, lastGen>>
hostVars == <<source, opened, wgcAlive, probes, delay, answers, rung>>
driverVars == <<present, ring>>
vars == <<controllerVars, hostVars, driverVars, directFrames>>

Modes == {"DirectEncode", "Wgc", "Dda", "Failed"}
Rungs == 1 .. 5
R4 == 4   \* cycle the virtual display
R5 == 5   \* drop to DDA
NoRung == 0
Reasons == {"DriverAbsent", "other"}
Outcomes == [healthy : {TRUE}, gen : 1 .. MaxGen]
              \cup [healthy : {FALSE}, reason : Reasons]
Tracks == [backoff : Nat, warm : BOOLEAN,
           stable : 0 .. StableFrames]
Headers == [state : {"ACTIVE", "REBUILDING", "DEAD"}, fresh : BOOLEAN,
            gen : 1 .. MaxGen]

TypeOK ==
  /\ mode \in Modes /\ driverPresent \in BOOLEAN
  /\ restore \subseteq Tracks /\ Cardinality(restore) <= 1
  /\ ladder \in Rungs \cup {NoRung} /\ lastGen \in 0 .. MaxGen
  /\ source \in {"none", "direct", "wgc", "dda"} /\ opened \in 0 .. MaxGen
  /\ wgcAlive \in BOOLEAN /\ probes \in Nat /\ delay \in Nat
  /\ answers \subseteq Outcomes /\ rung \in Rungs \cup {NoRung}
  /\ present \in BOOLEAN /\ ring \in Headers
  /\ directFrames \in 0 .. StableFrames

(* CaptureController::new, with no session yet. *)
Init ==
  /\ mode = "Wgc" /\ driverPresent = FALSE /\ restore = {} /\ ladder = NoRung
  /\ lastGen = 0
  /\ source = "none" /\ opened = 0 /\ wgcAlive = FALSE /\ probes = 0
  /\ delay = 0 /\ answers = {} /\ rung = NoRung
  /\ present \in BOOLEAN
  /\ ring = [state |-> "ACTIVE", fresh |-> present, gen |-> 1]
  /\ directFrames = 0

-----------------------------------------------------------------------------
(* The driver: external.  A rebuild bumps the generation; a wedged or absent
   driver lets the heartbeat go stale. *)

Lesser(a, b) == IF a < b THEN a ELSE b

RingRebuilds ==
  /\ present /\ ring.fresh /\ ring.gen < MaxGen
  /\ ring' = [ring EXCEPT !.state = "REBUILDING", !.gen = @ + 1]
  /\ UNCHANGED <<present, controllerVars, hostVars, directFrames>>

RingDies ==
  /\ present /\ ring' = [ring EXCEPT !.state = "DEAD"]
  /\ UNCHANGED <<present, controllerVars, hostVars, directFrames>>

DriverStalls ==
  /\ present' \in {FALSE, present}
  /\ ring' = [ring EXCEPT !.fresh = FALSE]
  /\ UNCHANGED <<controllerVars, hostVars, directFrames>>

DriverRecovers ==
  /\ present' = TRUE
  /\ ring' = [ring EXCEPT !.state = "ACTIVE", !.fresh = TRUE]
  /\ UNCHANGED <<controllerVars, hostVars, directFrames>>

Usable == present /\ ring.state = "ACTIVE" /\ ring.fresh

(* What a probe made now would answer (ProbeOutcome). *)
Probed ==
  IF Usable THEN [healthy |-> TRUE, gen |-> ring.gen]
  ELSE [healthy |-> FALSE, reason |-> IF present THEN "other" ELSE "DriverAbsent"]

-----------------------------------------------------------------------------
(* The actions the capture thread performs for the controller *)

UseDirect(g) ==
  /\ mode' = "DirectEncode" /\ lastGen' = g
  /\ source' = "direct" /\ opened' = g

UseWgc ==
  /\ mode' = "Wgc" /\ source' = "wgc" /\ wgcAlive' = TRUE

ForgetSchedule(d) == probes' = probes /\ delay' = d
ScheduleRestoreProbe(d) == probes' = probes + 1 /\ delay' = d

NewTrack == [backoff |-> InitialBackoff, warm |-> FALSE, stable |-> 0]
TrackOr(tracks) == IF tracks = {} THEN {NewTrack} ELSE tracks

(* schedule_restore, for the tracks it finds *)
ScheduleRestore(tracks) ==
  /\ restore' = TrackOr(tracks)
  /\ \E t \in restore' : ScheduleRestoreProbe(t.backoff)

(* Only R4 needs the driver and only R5 needs DDA; the lowest later rung that
   applies is next, and R6, the loud failure, follows the last. *)
Applies(r) == (r = R4 => driverPresent) /\ (r = R5 => DdaEnabled)
Lowest(rungs) ==
  IF rungs = {} THEN NoRung ELSE CHOOSE r \in rungs : \A q \in rungs : r <= q
LoopedRung(r) == IF r = 3 THEN 1 ELSE Lowest({q \in Rungs : q > r /\ Applies(q)})
NextRung(r) == Lowest({q \in Rungs : q > r /\ Applies(q)})

-----------------------------------------------------------------------------
(* The calls.  Unless LateRungs, the thread that attempts a rung makes no
   other call meanwhile. *)
Callable == source # "none" /\ (rung = NoRung \/ LateRungs)

KeptLadder  == ladder
FreshLadder == NoRung

(* session_start; the outcome may be of a driver that has changed since. *)
SessionStart(p) ==
  /\ source = "none"
  /\ ladder' = FreshLadder
  /\ directFrames' = 0
  /\ \/ /\ p.healthy
        /\ UseDirect(p.gen)
        /\ driverPresent' = TRUE /\ restore' = {}
        /\ UNCHANGED <<wgcAlive, probes, delay>>
     \/ /\ ~p.healthy
        /\ driverPresent' = (p.reason # "DriverAbsent")
        /\ UseWgc
        /\ ScheduleRestore({})
        /\ UNCHANGED <<lastGen, opened>>
  /\ UNCHANGED <<answers, rung, driverVars>>

(* The session is over: its backends, timers and attempts go with it. *)
SessionEnds ==
  /\ source # "none"
  /\ source' = "none" /\ wgcAlive' = FALSE /\ probes' = 0 /\ delay' = 0
  /\ answers' = {} /\ rung' = NoRung /\ opened' = 0
  /\ UNCHANGED <<controllerVars, driverVars, directFrames>>

(* ring_watch::classify: age before state. *)
StateOnly(h) ==
  CASE h.state = "ACTIVE" -> "Active" [] h.state = "REBUILDING" -> "Rebuilding"
    [] h.state = "DEAD" -> "Dead"
Classify(h) ==
  IF ~h.fresh THEN "HeartbeatStale"
  ELSE CASE h.state = "ACTIVE" -> "Active"
         [] h.state = "REBUILDING" -> "Rebuilding"
         [] h.state = "DEAD" -> "Dead"

(* ring_signal, in the only mode that does not ignore it *)
RingSignal(signal) ==
  /\ Callable /\ mode = "DirectEncode"
  /\ \/ /\ signal = "Active" /\ ring.gen # lastGen
        /\ UseDirect(ring.gen)
        /\ UNCHANGED <<restore, wgcAlive, probes, delay>>
     \/ /\ signal # "Active"
        /\ UseWgc
        /\ ScheduleRestore(restore)
        /\ UNCHANGED <<lastGen, opened>>
  /\ UNCHANGED <<driverPresent, ladder, answers, rung, driverVars, directFrames>>

SampleRing == RingSignal(Classify(ring))
(* The encoder's own watchdog, which may trip at any time. *)
Starve == RingSignal("Starved")

(* The timer is due and the driver is probed ... *)
ProbeDriver ==
  /\ probes > 0
  /\ probes' = probes - 1
  /\ answers' = answers \cup {Probed}
  /\ UNCHANGED <<source, opened, wgcAlive, delay, rung, controllerVars,
                 driverVars, directFrames>>

(* ... and the answer, by now perhaps stale, is reported: restore_probe_result *)
SameBackoff(t) == [t EXCEPT !.warm = TRUE, !.stable = 0]
SameCount(t)   == [t EXCEPT !.backoff = InitialBackoff, !.warm = TRUE]
NotWarm(t)     == [t EXCEPT !.backoff = InitialBackoff, !.stable = 0]
Restored(t)    == [t EXCEPT !.backoff = InitialBackoff, !.warm = TRUE, !.stable = 0]
Doubled(b)  == Lesser(2 * b, MaxBackoff)
RestoreProbeResult(p) ==
  /\ Callable
  /\ answers' = answers \ {p}
  /\ \/ /\ mode \notin {"Wgc", "Dda"}
        /\ UNCHANGED <<controllerVars, source, opened, probes, delay, directFrames>>
     \/ /\ mode \in {"Wgc", "Dda"} /\ p.healthy
        /\ UseDirect(p.gen)
        /\ driverPresent' = TRUE
        /\ restore' = {Restored(t) : t \in restore}
        /\ directFrames' = 0
        /\ UNCHANGED <<ladder, probes, delay>>
     \/ /\ mode \in {"Wgc", "Dda"} /\ ~p.healthy
        /\ driverPresent' = (driverPresent /\ p.reason # "DriverAbsent")
        /\ restore' =
             {[t EXCEPT !.backoff = Doubled(t.backoff)] : t \in TrackOr(restore)}
        /\ \E t \in restore' : ScheduleRestoreProbe(t.backoff)
        /\ UNCHANGED <<mode, ladder, lastGen, source, opened, directFrames>>
  /\ UNCHANGED <<wgcAlive, rung, driverVars>>

(* direct_frame_ok *)
ProvenStable(frames) == frames >= StableFrames
DirectFrameOk ==
  /\ Callable /\ mode = "DirectEncode"
  /\ directFrames' = Lesser(directFrames + 1, StableFrames)
  /\ \E t \in restore :
       /\ t.warm
       /\ LET stable == t.stable + 1 IN
            /\ restore' = {[t EXCEPT !.stable = stable, !.warm = ~ProvenStable(stable)]}
            /\ wgcAlive' = (wgcAlive /\ ~ProvenStable(stable))
  /\ UNCHANGED <<mode, driverPresent, ladder, lastGen, source, opened, probes,
                 delay, answers, rung, driverVars>>

(* wgc_trip *)
WgcTrip ==
  /\ Callable /\ mode = "Wgc" /\ ladder = NoRung
  /\ ladder' = 1 /\ rung' = 1
  /\ UNCHANGED <<mode, driverPresent, restore, lastGen, source, opened, wgcAlive,
                 probes, delay, answers, driverVars, directFrames>>

(* The attempt ends and is reported: rung_result *)
RungResult(success) ==
  /\ rung # NoRung /\ source # "none"
  /\ \/ /\ ladder # rung
        /\ rung' = NoRung
        /\ UNCHANGED <<mode, ladder, source>>
     \/ /\ ladder = rung /\ success
        /\ ladder' = NoRung /\ rung' = NoRung
        /\ IF rung = R5 THEN mode' = "Dda" /\ source' = "dda"
                          ELSE UNCHANGED <<mode, source>>
     \/ /\ ladder = rung /\ ~success
        /\ ladder' = NextRung(rung) /\ rung' = NextRung(rung)
        /\ mode' = IF NextRung(rung) = NoRung THEN "Failed" ELSE mode
        /\ UNCHANGED source
  /\ UNCHANGED <<driverPresent, restore, lastGen, opened, wgcAlive, probes, delay,
                 answers, driverVars, directFrames>>

-----------------------------------------------------------------------------
ReportProbe == \E p \in answers : RestoreProbeResult(p)
ReportRung  == \E success \in BOOLEAN : RungResult(success)

Next ==
  \/ RingRebuilds \/ RingDies \/ DriverStalls \/ DriverRecovers
  \/ \E p \in Outcomes : SessionStart(p)
  \/ SessionEnds \/ SampleRing \/ Starve \/ ProbeDriver \/ ReportProbe
  \/ DirectFrameOk \/ WgcTrip \/ ReportRung

Spec == Init /\ [][Next]_vars

(* The capture thread samples the ring between frames, makes each scheduled
   probe, and reports every outcome it was asked for.  It serves its events in
   turn, so a WGC session that trips again and again does not keep a probe's
   outcome from being reported between two trips. *)
FairSpec ==
  /\ Spec
  /\ WF_vars(SampleRing) /\ WF_vars(ProbeDriver)
  /\ SF_vars(ReportProbe) /\ WF_vars(ReportRung)

-----------------------------------------------------------------------------
(* Properties *)

(* In fallback exactly one restore probe is under way, and none while direct
   encoding carries the stream: a fallback is never stranded without a probe,
   and falling back repeatedly does not multiply them. *)
OneProbe ==
  source # "none" /\ mode # "Failed" =>
    probes + Cardinality(answers) = IF mode = "DirectEncode" THEN 0 ELSE 1

(* The controller ignores the WGC watchdog only while a rung of its ladder is
   really being attempted, so a trip is never lost for good. *)
LadderIsWorked == source # "none" => ladder = rung

(* WGC runs while it carries the stream, and a WGC session left over under
   direct encoding is always one that direct_frame_ok will tear down. *)
WgcAccounted ==
  /\ mode = "Wgc" /\ source # "none" => wgcAlive
  /\ mode = "DirectEncode" /\ wgcAlive => \E t \in restore : t.warm

(* A relapse is probed again after the initial backoff, however long the
   backoff had grown before the restore. *)
RelapseProbesSoon ==
  [][mode = "DirectEncode" /\ mode' = "Wgc" => delay' = InitialBackoff]_<<mode, delay>>

(* The warm WGC session is torn down only once direct encoding has delivered
   StableFrames frames since it was last restored, relapses not counted. *)
TeardownIsEarned ==
  [][wgcAlive /\ ~wgcAlive' => source' = "none" \/ directFrames' = StableFrames]_vars

(* A trip ends: the ladder reaches a rung that works, or fails loudly. *)
TripEnds == rung # NoRung ~> rung = NoRung

(* Direct encoding is restored mid-session while the driver stays usable. *)
DirectIsRestored ==
  source \in {"wgc", "dda"} /\ mode # "Failed" /\ Usable
    ~> source \in {"none", "direct"} \/ mode = "Failed" \/ ~Usable

(* A dead, stale or rebuilt ring does not keep the stream: it falls back, or
   reopens the new generation. *)
DeadRingIsLeft ==
  source = "direct" /\ ~(Usable /\ opened = ring.gen)
    ~> source # "direct" \/ (Usable /\ opened = ring.gen)

(* "Ring signals only matter in direct mode; ladder only in WGC"
   (controller.rs, stale_events_in_wrong_mode_are_ignored): while direct
   encoding carries the stream, only a fallback to WGC ends it. *)
LadderOnlyInWgc ==
  [][mode = "DirectEncode" /\ source' # "none" /\ mode' # mode
       => mode' = "Wgc"]_vars
=============================================================================
