---------------------------- MODULE CommittedPaths ----------------------------
(***************************************************************************)
(* The record of the modes the OS has committed: a fixed array of seqlock  *)
(* slots, written by modeset callbacks and by the power callback (apply)   *)
(* and by the effects worker (forget), read by the effects worker before a *)
(* mode push (get_with_token).  Nobody waits: a writer that finds another  *)
(* one at work gives its update up and flags the record, and whoever holds *)
(* the writer token clears the record instead of releasing it.             *)
(*                                                                         *)
(* Every step is one atomic access, but for the loads of a payload, which  *)
(* are one: the relaxed stores take effect in any order between the fences *)
(* around them, so that one load meets any mixture of two payloads.        *)
(***************************************************************************)
EXTENDS Naturals, Sequences, FiniteSets

CONSTANTS
  Monitors,         \* IddCx monitor objects
  Modes,            \* decodable committed modes
  Empty,            \* handle 0 and the zero mode of an empty slot
  Modesets,         \* threads the OS runs commit callbacks on
  Power,            \* the thread of the power callback evt_d0_exit
  Worker,           \* the effects worker
  NSlots,           \* MAX_COMMITTED_PATHS
  AcquireAttempts,  \* ACQUIRE_ATTEMPTS
  ReleaseAttempts,  \* RELEASE_ATTEMPTS
  ReadRetries,      \* READ_RETRIES
  MaxGeneration     \* bound: no write starts once the generation is this high

Threads == Modesets \cup {Power, Worker}
Slots == 1 .. NSlots
Fields == {"monitor", "size", "refresh"}

ASSUME ThreadsAssumption ==
  /\ Worker \notin Modesets /\ Power \notin Modesets /\ Worker # Power
  /\ Empty \notin Monitors \cup Modes
ASSUME AttemptsAssumption ==
  /\ NSlots \in Nat \ {0} /\ AcquireAttempts \in Nat \ {0}
  /\ ReleaseAttempts \in Nat \ {0} /\ ReadRetries \in Nat \ {0}
  /\ MaxGeneration \in Nat

VARIABLES
  \* CommittedPaths
  state,       \* the bits that are set: "writing", "contended"
  generation,
  version,     \* of each slot's seqlock
  payload,     \* each slot's fields
  \* the writers
  pc,          \* where each thread is
  update,      \* what it wants written: a sequence of paths, or a monitor
  tries,       \* attempts spent on the token, or on giving it back
  idx,         \* the slot it is at
  value,       \* what it puts there
  left,        \* fields it has yet to store
  \* the reader, in the effects worker
  token,       \* the generation it read first
  seen,        \* the slot version it read first
  copy,        \* the fields it has loaded
  answer,      \* the pair last read, while the token read with it is current
  \* history
  turnedAway,  \* an update was given up since the token was last released
  whole        \* what the record should hold while nobody writes

record == <<state, generation, version, payload>>
writing == <<update, tries, idx, value, left>>
reading == <<token, seen, copy, answer>>
vars == <<record, pc, writing, reading, turnedAway, whole>>

Pairs == [monitor : Monitors, mode : Modes]
NoPair == [monitor |-> Empty, mode |-> Empty]
Payload(p) == [monitor |-> p.monitor, size |-> p.mode, refresh |-> p.mode]
EmptySlot == Payload(NoPair)

-----------------------------------------------------------------------------
(* What evt_commit_modes2 records of a commit: the active paths that have a *)
(* monitor object and a mode it can decode, as many of them as fit.        *)
OneEach(paths) ==
  \A i, j \in DOMAIN paths : paths[i].monitor = paths[j].monitor => i = j

Commits == {p \in UNION {[1 .. n -> Pairs] : n \in 0 .. NSlots} : OneEach(p)}

-----------------------------------------------------------------------------
Init ==
  /\ state = {} /\ generation = 0
  /\ version = [s \in Slots |-> 0]
  /\ payload = [s \in Slots |-> EmptySlot]
  /\ pc = [t \in Threads |-> "idle"]
  /\ update = [t \in Threads |-> <<>>]
  /\ tries = [t \in Threads |-> 0]
  /\ idx = [t \in Threads |-> 1]
  /\ value = [t \in Threads |-> NoPair]
  /\ left = [t \in Threads |-> {}]
  /\ token = 0 /\ seen = 0 /\ copy = EmptySlot
  /\ answer = NoPair
  /\ turnedAway = FALSE
  /\ whole = {}

Goto(t, label) == pc' = [pc EXCEPT ![t] = label]
At(t, s) == idx' = [idx EXCEPT ![t] = s]
Idle(t) ==
  /\ Goto(t, "idle")
  /\ update' = [update EXCEPT ![t] = <<>>]
  /\ tries' = [tries EXCEPT ![t] = 0]
  /\ idx' = [idx EXCEPT ![t] = 1]
  /\ value' = [value EXCEPT ![t] = NoPair]
  /\ left' = [left EXCEPT ![t] = {}]

-----------------------------------------------------------------------------
(* begin_write                                                             *)

(* A commit, or the final exit's forget_all_committed (no path at all).    *)
StartApply(t, paths) ==
  /\ pc[t] = "idle" /\ generation < MaxGeneration
  /\ update' = [update EXCEPT ![t] = paths]
  /\ Goto(t, "acquire")
  /\ UNCHANGED <<record, tries, idx, value, left, reading, turnedAway, whole>>

(* A monitor departed.                                                     *)
StartForget(m) ==
  /\ pc[Worker] = "idle" /\ generation < MaxGeneration
  /\ update' = [update EXCEPT ![Worker] = m]
  /\ Goto(Worker, "acquire")
  /\ UNCHANGED <<record, tries, idx, value, left, reading, turnedAway, whole>>

Unowned == "writing" \notin state

(* fetch_or(WRITING): whoever sets the bit has the token.                  *)
Acquire(t) ==
  /\ pc[t] = "acquire"
  /\ state' = state \cup {"writing"}
  /\ IF Unowned
     THEN /\ Goto(t, "slot") /\ tries' = [tries EXCEPT ![t] = 0]
     ELSE /\ Goto(t, "flag") /\ UNCHANGED tries
  /\ UNCHANGED <<generation, version, payload, update, idx, value, left, reading,
                 turnedAway, whole>>

(* The CAS that attaches the flag to a holder that is still there.         *)
Flag(t) ==
  /\ pc[t] = "flag"
  /\ IF state = {"writing"}
     THEN /\ state' = {"writing", "contended"} /\ turnedAway' = TRUE
          /\ Goto(t, "lost") /\ UNCHANGED tries
     ELSE /\ tries' = [tries EXCEPT ![t] = @ + 1]
          /\ Goto(t, IF tries[t] + 1 < AcquireAttempts THEN "acquire" ELSE "exhausted")
          /\ UNCHANGED <<state, turnedAway>>
  /\ UNCHANGED <<generation, version, payload, update, idx, value, left, reading, whole>>

(* Out of attempts: the flag is set whether or not anybody holds the token. *)
Exhausted(t) ==
  /\ pc[t] = "exhausted"
  /\ state' = state \cup {"contended"}
  /\ turnedAway' = TRUE
  /\ Goto(t, "lost")
  /\ UNCHANGED <<generation, version, payload, writing, reading, whole>>

SameGeneration == UNCHANGED <<generation, reading>>  \* bug: the bump is left out
(* The generation moves on, and what was remembered of it expires.         *)
NewGeneration ==
  /\ generation' = generation + 1
  /\ answer' = NoPair
  /\ UNCHANGED <<token, seen, copy>>

(* The record misses a write from here on.                                 *)
Lost(t) ==
  /\ pc[t] = "lost"
  /\ NewGeneration
  /\ Idle(t)
  /\ UNCHANGED <<state, version, payload, turnedAway, whole>>

-----------------------------------------------------------------------------
(* apply and forget, with the token: each slot is visited once.            *)

\* bug: a commit is merged into the record
Merges(t, s) == IF t = Worker THEN payload[s].monitor # update[t] ELSE s \notin DOMAIN update[t]
Keeps(t, s) == t = Worker /\ payload[s].monitor # update[t]
Wanted(t, s) ==
  IF t # Worker /\ s \in DOMAIN update[t] THEN update[t][s] ELSE NoPair

(* CommittedSlot::publish begins with the odd version.                     *)
Odd(t, p) ==
  /\ version' = [version EXCEPT ![idx[t]] = @ + 1]
  /\ value' = [value EXCEPT ![t] = p]
  /\ left' = [left EXCEPT ![t] = Fields]
  /\ Goto(t, "store")

VisitSlot(t) ==
  /\ pc[t] = "slot"
  /\ IF Keeps(t, idx[t])
     THEN /\ IF idx[t] < NSlots
             THEN At(t, idx[t] + 1) /\ UNCHANGED pc
             ELSE Goto(t, "bump") /\ UNCHANGED idx
          /\ UNCHANGED <<version, value, left>>
     ELSE Odd(t, Wanted(t, idx[t])) /\ UNCHANGED idx
  /\ UNCHANGED <<state, generation, payload, update, tries, reading, turnedAway, whole>>

Store(t) ==
  /\ pc[t] = "store"
  /\ \E f \in left[t] :
       /\ payload' = [payload EXCEPT ![idx[t]][f] = Payload(value[t])[f]]
       /\ left' = [left EXCEPT ![t] = @ \ {f}]
       /\ Goto(t, IF left[t] = {f} THEN "even" ELSE "store")
  /\ UNCHANGED <<state, generation, version, update, tries, idx, value, reading,
                 turnedAway, whole>>

(* Clearing on the way out repeats the visit with nothing to record.       *)
Clearing(t) == tries[t] > 0
Even(t) ==
  /\ pc[t] = "even"
  /\ version' = [version EXCEPT ![idx[t]] = @ + 1]
  /\ value' = [value EXCEPT ![t] = NoPair]
  /\ IF idx[t] < NSlots
     THEN At(t, idx[t] + 1) /\ Goto(t, IF Clearing(t) THEN "clear" ELSE "slot")
     ELSE Goto(t, "bump") /\ UNCHANGED idx
  /\ UNCHANGED <<state, generation, payload, update, tries, left, reading, turnedAway,
                 whole>>

-----------------------------------------------------------------------------
(* release                                                                 *)

(* What a sequential record would hold after t's update.                   *)
Written(t) ==
  IF t = Worker THEN {p \in whole : p.monitor # update[t]}
                ELSE {update[t][i] : i \in DOMAIN update[t]}
Result(t) == IF Clearing(t) THEN {} ELSE Written(t)

Bump(t) ==
  /\ pc[t] = "bump"
  /\ NewGeneration
  /\ Goto(t, IF tries[t] < ReleaseAttempts THEN "release" ELSE "surrender")
  /\ UNCHANGED <<state, version, payload, writing, turnedAway, whole>>

(* CAS(WRITING -> FREE): the check for a loser and the release are one.    *)
Held == "writing" \in state  \* bug: given back without a look at the flag
Uncontended == state = {"writing"}
Release(t) ==
  /\ pc[t] = "release" /\ Uncontended
  /\ state' = {}
  /\ turnedAway' = FALSE
  /\ whole' = Result(t)
  /\ Idle(t)
  /\ UNCHANGED <<generation, version, payload, reading>>

(* Somebody was turned away: take the flag down and clear, token in hand.  *)
Unflag(t) ==
  /\ pc[t] = "release" /\ ~ Uncontended
  /\ state' = state \ {"contended"}
  /\ tries' = [tries EXCEPT ![t] = @ + 1]
  /\ At(t, 1)
  /\ Goto(t, "clear")
  /\ UNCHANGED <<generation, version, payload, update, value, left, reading, turnedAway,
                 whole>>

ClearSlot(t) ==
  /\ pc[t] = "clear"
  /\ Odd(t, NoPair)
  /\ UNCHANGED <<state, generation, payload, update, tries, idx, reading, turnedAway, whole>>

Surrender(t) ==
  /\ pc[t] = "surrender"
  /\ state' = {}
  /\ turnedAway' = FALSE
  /\ whole' = {}
  /\ Idle(t)
  /\ UNCHANGED <<generation, version, payload, reading>>

-----------------------------------------------------------------------------
(* get_with_token, on the effects worker: the token first, then the slots. *)

StartGet(m) ==
  /\ pc[Worker] = "idle"
  /\ update' = [update EXCEPT ![Worker] = m]
  /\ token' = generation
  /\ answer' = NoPair
  /\ Goto(Worker, "version")
  /\ UNCHANGED <<record, tries, idx, value, left, seen, copy, turnedAway, whole>>

(* A refusal is built on a mode that was found, and holds while the token  *)
(* read with it is still the generation.                                   *)
Current == token = generation
Done(mode) ==
  /\ answer' = IF mode # Empty /\ Current
               THEN [monitor |-> update[Worker], mode |-> mode] ELSE NoPair
  /\ Idle(Worker)
  /\ token' = 0 /\ seen' = 0 /\ copy' = EmptySlot

(* The scan goes to the next slot, or has found nothing.                   *)
NextSlot ==
  IF idx[Worker] < NSlots
  THEN /\ At(Worker, idx[Worker] + 1)
       /\ tries' = [tries EXCEPT ![Worker] = 0]
       /\ seen' = 0 /\ copy' = EmptySlot
       /\ Goto(Worker, "version")
       /\ UNCHANGED <<update, value, left, token, answer>>
  ELSE Done(Empty)

Retry ==
  IF tries[Worker] + 1 < ReadRetries
  THEN /\ tries' = [tries EXCEPT ![Worker] = @ + 1]
       /\ seen' = 0 /\ copy' = EmptySlot
       /\ Goto(Worker, "version")
       /\ UNCHANGED <<update, idx, value, left, token, answer>>
  ELSE NextSlot

ReadVersion ==
  /\ pc[Worker] = "version"
  /\ IF version[idx[Worker]] % 2 = 1
     THEN Retry
     ELSE /\ seen' = version[idx[Worker]]
          /\ Goto(Worker, "load")
          /\ UNCHANGED <<writing, token, copy, answer>>
  /\ UNCHANGED <<record, turnedAway, whole>>

Load ==
  /\ pc[Worker] = "load"
  /\ copy' = payload[idx[Worker]]
  /\ Goto(Worker, "validate")
  /\ UNCHANGED <<record, writing, token, seen, answer, turnedAway, whole>>

Unchecked == TRUE  \* bug: the second look at the version is left out
Unchanged == version[idx[Worker]] = seen
Validate ==
  /\ pc[Worker] = "validate"
  /\ IF ~ Unchanged THEN Retry
     ELSE IF copy.monitor = update[Worker] THEN Done(copy.size)
     ELSE NextSlot
  /\ UNCHANGED <<record, turnedAway, whole>>

-----------------------------------------------------------------------------
Write(t) ==
  \/ Acquire(t) \/ Flag(t) \/ Exhausted(t) \/ Lost(t)
  \/ VisitSlot(t) \/ Store(t) \/ Even(t)
  \/ Bump(t) \/ Release(t) \/ Unflag(t) \/ ClearSlot(t) \/ Surrender(t)

Next ==
  \/ \E t \in Modesets, c \in Commits : StartApply(t, c)
  \/ StartApply(Power, <<>>)
  \/ \E m \in Monitors : StartForget(m) \/ StartGet(m)
  \/ \E t \in Threads : Write(t)
  \/ ReadVersion \/ Load \/ Validate

Spec == Init /\ [][Next]_vars

-----------------------------------------------------------------------------
(* Types: a thread's update is what its kind of thread writes or reads.    *)
Labels == {"idle", "acquire", "flag", "exhausted", "lost", "slot", "store", "even",
           "bump", "release", "surrender", "clear", "version", "load", "validate"}
PairOrNone == Pairs \cup {NoPair}
PayloadType == [monitor : Monitors \cup {Empty}, size : Modes \cup {Empty},
                refresh : Modes \cup {Empty}]

RecordTypes ==
  /\ state \subseteq {"writing", "contended"} /\ generation \in Nat
  /\ version \in [Slots -> Nat] /\ payload \in [Slots -> PayloadType]
WriterTypes ==
  /\ pc \in [Threads -> Labels]
  /\ update \in [Threads -> Monitors \cup Commits \cup {<<>>}]
  /\ \A t \in Threads \ {Worker} : update[t] \in Commits
  /\ tries \in [Threads -> Nat] /\ idx \in [Threads -> Slots]
  /\ value \in [Threads -> PairOrNone] /\ left \in [Threads -> SUBSET Fields]
ReaderTypes ==
  /\ token \in Nat /\ seen \in Nat /\ copy \in PayloadType
  /\ answer \in PairOrNone
HistoryTypes == turnedAway \in BOOLEAN /\ whole \in SUBSET Pairs

TypeOK == RecordTypes /\ WriterTypes /\ ReaderTypes /\ HistoryTypes

(* A read that passes its version check holds what the slot holds at that  *)
(* moment: no size of one commit with the refresh rate of the next, and no *)
(* monitor with another one's mode (CommittedSlot::read against publish).  *)
ReadIsCurrent ==
  pc[Worker] = "validate" /\ Unchanged => copy = payload[idx[Worker]]

(* While nobody writes, the record is what one commit left, less the       *)
(* monitors forgotten since, or it is empty: writers that overlap leave no *)
(* mixture (begin_write and release around apply and forget).              *)
RecordIsOneCommit ==
  Unowned => {payload[s] : s \in Slots} \ {EmptySlot} = {Payload(p) : p \in whole}

(* A refusal remembered under the current generation names a mode that is  *)
(* still recorded, unless a writer is at work: every change of the record  *)
(* moves the generation before it gives the token back, and get_with_token *)
(* reads the generation first.                                             *)
TokenExpires == answer # NoPair /\ Unowned => answer \in whole

(* Giving the token back after somebody was turned away leaves an empty    *)
(* record: the lost update may cost every recorded mode, but none of them  *)
(* outlives it (release).                                                  *)
LossClears ==
  [][ "writing" \in state /\ "writing" \notin state' /\ turnedAway =>
        \A s \in Slots : payload'[s] = EmptySlot ]_vars

(* begin_write's comment: losing the race "can only ever CLEAR the record  *)
(* -- never leave a stale one behind".                                     *)
NothingStale ==
  turnedAway /\ Unowned => \A s \in Slots : payload[s] = EmptySlot
=============================================================================
