------------------------ MODULE CommittedPaths_proofs ------------------------
(* Theorems about CommittedPaths, for any number of slots, threads, monitors *)
(* and modes, and any number of attempts and retries.                        *)
EXTENDS CommittedPaths, TLAPS

-----------------------------------------------------------------------------
(* Types.                                                                  *)

(* A thread about to write has something to write, and only the effects    *)
(* worker reads.                                                           *)
Reads == {"version", "load", "validate"}
Busy ==
  /\ \A t \in Threads : pc[t] \in Reads => t = Worker
  /\ pc[Worker] # "idle" => update[Worker] \in Monitors

Typed == TypeOK /\ Busy

LEMMA FirstSlot == 1 \in Slots /\ \A s \in Slots : s \in Nat /\ (s < NSlots => s + 1 \in Slots)
  BY AttemptsAssumption DEF Slots

(* A commit lists pairs, no more than there are slots.                     *)
LEMMA CommitsAreLists ==
  /\ <<>> \in Commits
  /\ \A c \in Commits : \A s \in DOMAIN c : s \in Slots /\ c[s] \in Pairs
  <1>1. \A n \in 0 .. NSlots : 1 .. n \subseteq Slots
    BY AttemptsAssumption DEF Slots
  <1>2. \A c \in Commits : \A s \in DOMAIN c : s \in Slots /\ c[s] \in Pairs
    BY <1>1 DEF Commits
  <1>3. <<>> \in [1 .. 0 -> Pairs] /\ 0 \in 0 .. NSlots
    BY AttemptsAssumption
  <1>4. <<>> \in Commits
    BY <1>3 DEF Commits, OneEach
  <1> QED
    BY <1>2, <1>4

LEMMA PayloadTypes ==
  /\ NoPair \in PairOrNone
  /\ \A p \in PairOrNone : Payload(p) \in PayloadType
  /\ \A p \in PairOrNone : \A f \in Fields :
       Payload(p)[f] \in IF f = "monitor" THEN Monitors \cup {Empty} ELSE Modes \cup {Empty}
  /\ EmptySlot \in PayloadType
  BY DEF Payload, PairOrNone, Pairs, NoPair, PayloadType, EmptySlot, Fields

LEMMA TypingInit == Init => Typed
  <1> SUFFICES ASSUME Init PROVE Typed
    OBVIOUS
  <1>1. Busy
    BY DEF Init, Busy, Reads, Threads
  <1>2. TypeOK
    BY FirstSlot, PayloadTypes, CommitsAreLists DEF Init, TypeOK, Labels, Fields, RecordTypes, WriterTypes, ReaderTypes, HistoryTypes
  <1> QED
    BY <1>1, <1>2 DEF Typed

LEMMA TypingStep == Typed /\ [Next]_vars => Typed'
  <1> SUFFICES ASSUME Typed, [Next]_vars PROVE Typed'
    OBVIOUS
  <1> USE FirstSlot DEF Typed, TypeOK, Reads, Labels, Goto, At
  <1>1. ASSUME NEW t \in Modesets \cup {Power}, NEW c \in Commits, StartApply(t, c) PROVE Typed'
    <2>1. RecordTypes'
      BY <1>1 DEF RecordTypes, StartApply, record, reading, Threads
    <2>2. WriterTypes'
      BY <1>1, ThreadsAssumption DEF WriterTypes, StartApply, record, reading, Threads
    <2>3. ReaderTypes'
      BY <1>1 DEF ReaderTypes, StartApply, record, reading, Threads
    <2>4. HistoryTypes'
      BY <1>1 DEF HistoryTypes, StartApply, record, reading, Threads
    <2>5. Busy'
      BY <1>1, ThreadsAssumption DEF Busy, WriterTypes, StartApply, record, reading, Threads
    <2> QED
      BY <2>1, <2>2, <2>3, <2>4, <2>5
  <1>2. ASSUME NEW m \in Monitors, StartForget(m) PROVE Typed'
    <2>1. RecordTypes'
      BY <1>2 DEF RecordTypes, StartForget, record, reading, Threads
    <2>2. WriterTypes'
      BY <1>2 DEF WriterTypes, StartForget, record, reading, Threads
    <2>3. ReaderTypes'
      BY <1>2 DEF ReaderTypes, StartForget, record, reading, Threads
    <2>4. HistoryTypes'
      BY <1>2 DEF HistoryTypes, StartForget, record, reading, Threads
    <2>5. Busy'
      BY <1>2 DEF Busy, WriterTypes, StartForget, record, reading, Threads
    <2> QED
      BY <2>1, <2>2, <2>3, <2>4, <2>5
  <1>3. ASSUME NEW m \in Monitors, StartGet(m) PROVE Typed'
    <2>1. RecordTypes'
      BY <1>3 DEF RecordTypes, StartGet, record, Threads
    <2>2. WriterTypes'
      BY <1>3 DEF WriterTypes, StartGet, record, Threads
    <2>3. ReaderTypes'
      BY <1>3, PayloadTypes DEF RecordTypes, ReaderTypes, StartGet, record, Threads
    <2>4. HistoryTypes'
      BY <1>3 DEF HistoryTypes, StartGet, record, Threads
    <2>5. Busy'
      BY <1>3 DEF Busy, WriterTypes, StartGet, record, Threads
    <2> QED
      BY <2>1, <2>2, <2>3, <2>4, <2>5
  <1>4. ASSUME NEW t \in Threads, Write(t) PROVE Typed'
    <2>0. /\ Worker \in Threads /\ idx[t] \in Slots
          /\ idx[t] < NSlots => idx[t] + 1 \in Slots
      BY DEF Threads, WriterTypes
    <2>1. CASE Acquire(t)
      <3>1. RecordTypes'
        BY <2>1 DEF RecordTypes, Acquire, reading
      <3>2. WriterTypes'
        <4>1. CASE Unowned
          BY SMTT(20), <2>1, <4>1 DEF WriterTypes, Acquire, reading
        <4>2. CASE ~ (Unowned)
          BY <2>0, <2>1, <4>2 DEF WriterTypes, Acquire, reading
        <4> QED
          BY <4>1, <4>2
      <3>3. ReaderTypes'
        BY <2>1 DEF ReaderTypes, Acquire, reading
      <3>4. HistoryTypes'
        BY <2>1 DEF HistoryTypes, Acquire, reading
      <3>5. Busy'
        <4>1. CASE Unowned
          BY <2>0, <2>1, <4>1 DEF Busy, WriterTypes, Acquire, reading
        <4>2. CASE ~ (Unowned)
          BY <2>0, <2>1, <4>2 DEF Busy, WriterTypes, Acquire, reading
        <4> QED
          BY <4>1, <4>2
      <3> QED
        BY <3>1, <3>2, <3>3, <3>4, <3>5
    <2>2. CASE Flag(t)
      <3>1. RecordTypes'
        BY <2>0, <2>2 DEF RecordTypes, Flag, reading
      <3>2. WriterTypes'
        <4>1. CASE state = {"writing"}
          BY <2>0, <2>2, <4>1 DEF WriterTypes, Flag, reading
        <4>2. CASE ~ (state = {"writing"})
          BY <2>0, <2>2, <4>2 DEF WriterTypes, Flag, reading
        <4> QED
          BY <4>1, <4>2
      <3>3. ReaderTypes'
        BY <2>2 DEF ReaderTypes, Flag, reading
      <3>4. HistoryTypes'
        BY <2>2 DEF HistoryTypes, Flag, reading
      <3>5. Busy'
        <4>1. CASE state = {"writing"}
          BY <2>0, <2>2, <4>1 DEF Busy, WriterTypes, Flag, reading
        <4>2. CASE ~ (state = {"writing"})
          BY <2>0, <2>2, <4>2 DEF Busy, WriterTypes, Flag, reading
        <4> QED
          BY <4>1, <4>2
      <3> QED
        BY <3>1, <3>2, <3>3, <3>4, <3>5
    <2>3. CASE Exhausted(t)
      <3>1. RecordTypes'
        BY <2>0, <2>3 DEF RecordTypes, Exhausted, reading, writing
      <3>2. WriterTypes'
        BY <2>0, <2>3 DEF WriterTypes, Exhausted, reading, writing
      <3>3. ReaderTypes'
        BY <2>3 DEF ReaderTypes, Exhausted, reading, writing
      <3>4. HistoryTypes'
        BY <2>3 DEF HistoryTypes, Exhausted, reading, writing
      <3>5. Busy'
        BY <2>0, <2>3 DEF Busy, WriterTypes, Exhausted, reading, writing
      <3> QED
        BY <3>1, <3>2, <3>3, <3>4, <3>5
    <2>4. CASE Lost(t)
      <3>1. RecordTypes'
        BY <2>0, <2>4 DEF RecordTypes, Lost, NewGeneration, Idle
      <3>2. WriterTypes'
        BY <2>0, <2>4, PayloadTypes, CommitsAreLists DEF WriterTypes, Lost, NewGeneration, Idle
      <3>3. ReaderTypes'
        BY <2>4, PayloadTypes DEF ReaderTypes, Lost, NewGeneration, Idle
      <3>4. HistoryTypes'
        BY <2>4 DEF HistoryTypes, Lost, NewGeneration, Idle
      <3>5. Busy'
        BY <2>0, <2>4 DEF Busy, WriterTypes, Lost, NewGeneration, Idle
      <3> QED
        BY <3>1, <3>2, <3>3, <3>4, <3>5
    <2>5. CASE VisitSlot(t)
      <3>0. Wanted(t, idx[t]) \in PairOrNone
        BY CommitsAreLists, PayloadTypes DEF Wanted, PairOrNone, WriterTypes
      <3>1. RecordTypes'
        <4>1. CASE Keeps(t, idx[t])
          BY <2>0, <2>5, <4>1 DEF RecordTypes, VisitSlot
        <4>2. CASE ~ Keeps(t, idx[t])
          <5>1. version' = [version EXCEPT ![idx[t]] = @ + 1]
            BY <2>5, <4>2 DEF VisitSlot, Odd
          <5>2. UNCHANGED <<state, generation, payload>>
            BY <2>5 DEF VisitSlot
          <5> QED
            BY <2>0, <5>1, <5>2 DEF RecordTypes
        <4> QED
          BY <4>1, <4>2
      <3>2. WriterTypes'
        <4>1. CASE Keeps(t, idx[t])
          BY <2>0, <2>5, <4>1, <3>0 DEF WriterTypes, VisitSlot, Odd, reading
        <4>2. CASE ~ (Keeps(t, idx[t]))
          BY <2>0, <2>5, <4>2, <3>0 DEF WriterTypes, VisitSlot, Odd, reading
        <4> QED
          BY <4>1, <4>2
      <3>3. ReaderTypes'
        BY <2>5 DEF ReaderTypes, VisitSlot, Odd, reading
      <3>4. HistoryTypes'
        BY <2>5 DEF HistoryTypes, VisitSlot, Odd, reading
      <3>5. Busy'
        <4>1. CASE Keeps(t, idx[t])
          BY <2>0, <2>5, <4>1 DEF Busy, WriterTypes, VisitSlot, Odd, reading
        <4>2. CASE ~ (Keeps(t, idx[t]))
          BY <2>0, <2>5, <4>2 DEF Busy, WriterTypes, VisitSlot, Odd, reading
        <4> QED
          BY <4>1, <4>2
      <3> QED
        BY <3>1, <3>2, <3>3, <3>4, <3>5
    <2>6. CASE Store(t)
      <3>0. PICK f \in left[t] :
              /\ payload' = [payload EXCEPT ![idx[t]][f] = Payload(value[t])[f]]
              /\ left' = [left EXCEPT ![t] = @ \ {f}]
              /\ Goto(t, IF left[t] = {f} THEN "even" ELSE "store")
        BY <2>6 DEF Store
      <3>1. RecordTypes'
        <4>1. f \in Fields /\ idx[t] \in Slots /\ value[t] \in PairOrNone
          BY DEF WriterTypes
        <4>2. payload' \in [Slots -> PayloadType]
          BY <3>0, <4>1, PayloadTypes DEF PayloadType, Fields, RecordTypes
        <4> QED
          BY <2>0, <2>6, <4>2 DEF RecordTypes, Store
      <3>2. WriterTypes'
        BY <2>0, <2>6, <3>0 DEF WriterTypes, Store
      <3>3. ReaderTypes' /\ HistoryTypes'
        BY <2>6 DEF ReaderTypes, HistoryTypes, Store, reading
      <3>4. Busy'
        BY <2>0, <2>6, <3>0 DEF Busy, WriterTypes, Store
      <3> QED
        BY <3>1, <3>2, <3>3, <3>4
    <2>7. CASE Even(t)
      <3>1. RecordTypes'
        BY <2>0, <2>7 DEF RecordTypes, WriterTypes, Even, reading
      <3>2. WriterTypes'
        <4>1. CASE idx[t] < NSlots
          BY ZenonT(30), <2>0, <2>7, <4>1, PayloadTypes, CommitsAreLists DEF WriterTypes, Even, reading
        <4>2. CASE ~ (idx[t] < NSlots)
          BY <2>0, <2>7, <4>2, PayloadTypes, CommitsAreLists DEF WriterTypes, Even, reading
        <4> QED
          BY <4>1, <4>2
      <3>3. ReaderTypes'
        BY <2>7 DEF ReaderTypes, Even, reading
      <3>4. HistoryTypes'
        BY <2>7 DEF HistoryTypes, Even, reading
      <3>5. Busy'
        <4>1. CASE idx[t] < NSlots
          BY <2>0, <2>7, <4>1 DEF Busy, WriterTypes, Even, reading
        <4>2. CASE ~ (idx[t] < NSlots)
          BY <2>0, <2>7, <4>2 DEF Busy, WriterTypes, Even, reading
        <4> QED
          BY <4>1, <4>2
      <3> QED
        BY <3>1, <3>2, <3>3, <3>4, <3>5
    <2>8. CASE Bump(t)
      <3>1. RecordTypes'
        BY <2>0, <2>8 DEF RecordTypes, Bump, NewGeneration, writing
      <3>2. WriterTypes'
        BY <2>0, <2>8 DEF WriterTypes, Bump, NewGeneration, writing
      <3>3. ReaderTypes'
        BY <2>8, PayloadTypes DEF ReaderTypes, Bump, NewGeneration, writing
      <3>4. HistoryTypes'
        BY <2>8 DEF HistoryTypes, Bump, NewGeneration, writing
      <3>5. Busy'
        BY <2>0, <2>8 DEF Busy, WriterTypes, Bump, NewGeneration, writing
      <3> QED
        BY <3>1, <3>2, <3>3, <3>4, <3>5
    <2>9. CASE Release(t)
      <3>0. Result(t) \in SUBSET Pairs
        BY CommitsAreLists DEF Result, Written, WriterTypes, HistoryTypes
      <3>1. RecordTypes'
        BY <2>0, <2>9 DEF RecordTypes, Release, Idle, reading
      <3>2. WriterTypes'
        BY <2>0, <2>9, PayloadTypes, CommitsAreLists DEF WriterTypes, Release, Idle, reading
      <3>3. ReaderTypes'
        BY <2>9 DEF ReaderTypes, Release, Idle, reading
      <3>4. HistoryTypes'
        BY <2>9, <3>0 DEF HistoryTypes, Release, Idle, reading
      <3>5. Busy'
        BY <2>0, <2>9 DEF Busy, WriterTypes, Release, Idle, reading
      <3> QED
        BY <3>1, <3>2, <3>3, <3>4, <3>5
    <2>10. CASE Unflag(t)
      <3>1. RecordTypes'
        BY <2>0, <2>10 DEF RecordTypes, Unflag, reading
      <3>2. WriterTypes'
        BY <2>0, <2>10 DEF WriterTypes, Unflag, reading
      <3>3. ReaderTypes'
        BY <2>10 DEF ReaderTypes, Unflag, reading
      <3>4. HistoryTypes'
        BY <2>10 DEF HistoryTypes, Unflag, reading
      <3>5. Busy'
        BY <2>0, <2>10 DEF Busy, WriterTypes, Unflag, reading
      <3> QED
        BY <3>1, <3>2, <3>3, <3>4, <3>5
    <2>11. CASE ClearSlot(t)
      <3>1. RecordTypes'
        BY <2>0, <2>11 DEF RecordTypes, WriterTypes, ClearSlot, Odd, reading
      <3>2. WriterTypes'
        BY <2>0, <2>11, PayloadTypes, CommitsAreLists DEF WriterTypes, ClearSlot, Odd, reading
      <3>3. ReaderTypes'
        BY <2>11 DEF ReaderTypes, ClearSlot, Odd, reading
      <3>4. HistoryTypes'
        BY <2>11 DEF HistoryTypes, ClearSlot, Odd, reading
      <3>5. Busy'
        BY <2>0, <2>11 DEF Busy, WriterTypes, ClearSlot, Odd, reading
      <3> QED
        BY <3>1, <3>2, <3>3, <3>4, <3>5
    <2>12. CASE Surrender(t)
      <3>1. RecordTypes'
        BY <2>0, <2>12 DEF RecordTypes, Surrender, Idle, reading
      <3>2. WriterTypes'
        BY <2>0, <2>12, PayloadTypes, CommitsAreLists DEF WriterTypes, Surrender, Idle, reading
      <3>3. ReaderTypes'
        BY <2>12 DEF ReaderTypes, Surrender, Idle, reading
      <3>4. HistoryTypes'
        BY <2>12 DEF HistoryTypes, Surrender, Idle, reading
      <3>5. Busy'
        BY <2>0, <2>12 DEF Busy, WriterTypes, Surrender, Idle, reading
      <3> QED
        BY <3>1, <3>2, <3>3, <3>4, <3>5
    <2> QED
      BY <1>4, <2>1, <2>2, <2>3, <2>4, <2>5, <2>6, <2>7, <2>8, <2>9, <2>10, <2>11, <2>12 DEF Write
  <1>5. CASE ReadVersion
    <2>1. RecordTypes'
      BY <1>5 DEF RecordTypes, ReadVersion, Retry, NextSlot, Done, Idle, record, writing, Threads
    <2>2. WriterTypes'
      BY <1>5, PayloadTypes, CommitsAreLists DEF WriterTypes, ReadVersion, Retry, NextSlot, Done, Idle, record, writing, Threads
    <2>3. ReaderTypes'
      BY <1>5, PayloadTypes DEF ReaderTypes, RecordTypes, WriterTypes, EmptySlot, ReadVersion, Retry, NextSlot, Done, record, writing, Threads
    <2>4. HistoryTypes'
      BY <1>5 DEF HistoryTypes, ReadVersion, Retry, NextSlot, Done, Idle, record, writing, Threads
    <2>5. Busy'
      BY <1>5 DEF Busy, WriterTypes, ReadVersion, Retry, NextSlot, Done, Idle, record, writing, Threads
    <2> QED
      BY <2>1, <2>2, <2>3, <2>4, <2>5
  <1>6. CASE Load
    <2>1. RecordTypes'
      BY <1>6 DEF RecordTypes, Load, record, writing, Threads
    <2>2. WriterTypes'
      BY <1>6 DEF WriterTypes, Load, record, writing, Threads
    <2>3. ReaderTypes'
      BY <1>6 DEF ReaderTypes, RecordTypes, WriterTypes, Load, record, writing, Threads
    <2>4. HistoryTypes'
      BY <1>6 DEF HistoryTypes, Load, record, writing, Threads
    <2>5. Busy'
      BY <1>6 DEF Busy, WriterTypes, Load, record, writing, Threads
    <2> QED
      BY <2>1, <2>2, <2>3, <2>4, <2>5
  <1>7. CASE Validate
    <2>0. copy.size # Empty => [monitor |-> update[Worker], mode |-> copy.size] \in PairOrNone
      BY <1>7 DEF Validate, Busy, Pairs, PairOrNone, ReaderTypes, PayloadType
    <2>1. RecordTypes'
      BY <1>7 DEF RecordTypes, Validate, Retry, NextSlot, Done, Idle, record, writing, Threads
    <2>2. WriterTypes'
      BY <1>7, PayloadTypes, CommitsAreLists DEF WriterTypes, Validate, Retry, NextSlot, Done, Idle, record, writing, Threads
    <2>3. ReaderTypes'
      BY <1>7, <2>0, PayloadTypes DEF ReaderTypes, Validate, Retry, NextSlot, Done, Idle, record, writing, Threads
    <2>4. HistoryTypes'
      BY <1>7 DEF HistoryTypes, Validate, Retry, NextSlot, Done, Idle, record, writing, Threads
    <2>5. Busy'
      BY <1>7 DEF Busy, WriterTypes, Validate, Retry, NextSlot, Done, Idle, record, writing, Threads
    <2> QED
      BY <2>1, <2>2, <2>3, <2>4, <2>5
  <1>8. CASE UNCHANGED vars
    BY <1>8 DEF vars, record, writing, reading, RecordTypes, WriterTypes, ReaderTypes, HistoryTypes, Busy
  <1> QED
    BY <1>1, <1>2, <1>3, <1>4, <1>5, <1>6, <1>7, <1>8, CommitsAreLists DEF Next

(* Every variable stays within its type: an update is what its kind of     *)
(* thread writes or reads, a slot holds one payload.                       *)
THEOREM TypeCorrect == Spec => []TypeOK
  <1>1. Spec => []Typed
    BY TypingInit, TypingStep, PTL DEF Spec
  <1>2. Typed => TypeOK
    BY DEF Typed
  <1> QED
    BY <1>1, <1>2, PTL

-----------------------------------------------------------------------------
(* One writer at a time.                                                   *)

Holding == {"slot", "store", "even", "bump", "release", "surrender", "clear"}
Holds(t) == pc[t] \in Holding

OneWriter ==
  /\ \A t \in Threads : Holds(t) => "writing" \in state
  /\ \A t, u \in Threads : Holds(t) /\ Holds(u) => t = u

LEMMA OneWriterStep == Typed /\ OneWriter /\ [Next]_vars => OneWriter'
  <1> SUFFICES ASSUME Typed, OneWriter, [Next]_vars PROVE OneWriter'
    OBVIOUS
  <1>0. pc \in [Threads -> Labels] /\ Worker \in Threads
    BY DEF Typed, TypeOK, WriterTypes, Threads
  <1> USE <1>0 DEF OneWriter, Holds, Holding, Goto
  <1>1. ASSUME NEW t \in Modesets \cup {Power}, NEW c \in Commits, StartApply(t, c) PROVE OneWriter'
    BY <1>1 DEF StartApply, record, Threads
  <1>2. ASSUME NEW m \in Monitors, StartForget(m) \/ StartGet(m) PROVE OneWriter'
    BY <1>2 DEF StartForget, StartGet, record
  <1>3. ASSUME NEW t \in Threads, Write(t) PROVE OneWriter'
    <2>1. CASE Acquire(t)
      <3>1. CASE Unowned
        BY <2>1, <3>1 DEF Acquire, Unowned
      <3>2. CASE ~ Unowned
        BY <2>1, <3>2 DEF Acquire, Unowned
      <3> QED
        BY <3>1, <3>2
    <2>2. CASE Flag(t)
      <3>1. CASE state = {"writing"}
        BY <2>2, <3>1 DEF Flag
      <3>2. CASE state # {"writing"}
        BY <2>2, <3>2 DEF Flag
      <3> QED
        BY <3>1, <3>2
    <2>3. CASE Exhausted(t)
      BY <2>3 DEF Exhausted
    <2>4. CASE Lost(t)
      BY <2>4 DEF Lost, Idle
    <2>5. CASE VisitSlot(t)
      BY <2>5 DEF VisitSlot, Odd
    <2>6. CASE Store(t)
      BY <2>6 DEF Store
    <2>7. CASE Even(t)
      <3>1. \E l \in {"clear", "slot", "bump"} : pc' = [pc EXCEPT ![t] = l]
        BY <2>7 DEF Even
      <3> QED
        BY <2>7, <3>1 DEF Even
    <2>8. CASE Bump(t)
      BY <2>8 DEF Bump
    <2>9. CASE Release(t)
      BY <2>9 DEF Release, Idle
    <2>10. CASE Unflag(t)
      BY <2>10 DEF Unflag
    <2>11. CASE ClearSlot(t)
      BY <2>11 DEF ClearSlot, Odd
    <2>12. CASE Surrender(t)
      BY <2>12 DEF Surrender, Idle
    <2> QED
      BY <1>3, <2>1, <2>2, <2>3, <2>4, <2>5, <2>6, <2>7, <2>8, <2>9, <2>10, <2>11, <2>12 DEF Write
  <1>4. CASE ReadVersion \/ Load \/ Validate
    <2>1. /\ state' = state
          /\ \E l \in {"version", "load", "validate", "idle"} : pc' = [pc EXCEPT ![Worker] = l]
      BY <1>4 DEF ReadVersion, Load, Validate, Retry, NextSlot, Done, Idle, record, writing
    <2> QED
      BY <2>1
  <1>5. CASE UNCHANGED vars
    BY <1>5 DEF vars, record
  <1> QED
    BY <1>1, <1>2, <1>3, <1>4, <1>5, CommitsAreLists DEF Next

-----------------------------------------------------------------------------
(* A slot's version is odd exactly while somebody stores into the slot, so *)
(* an even version that has not moved means a payload that has not.        *)

Storing(t, s) == pc[t] \in {"store", "even"} /\ idx[t] = s

Parity ==
  \A s \in Slots : version[s] % 2 = 1 <=> \E t \in Threads : Storing(t, s)

ReadsStable ==
  pc[Worker] \in {"load", "validate"} =>
    /\ seen % 2 = 0 /\ seen <= version[idx[Worker]]
    /\ pc[Worker] = "validate" /\ version[idx[Worker]] = seen => copy = payload[idx[Worker]]

Stable == Parity /\ ReadsStable

LEMMA Alternates == \A n \in Nat : n % 2 \in {0, 1} /\ ((n + 1) % 2 = 1 <=> n % 2 = 0)
  OBVIOUS

LEMMA StableStep == Typed /\ OneWriter /\ Stable /\ [Next]_vars => Stable'
  <1> SUFFICES ASSUME Typed, OneWriter, Stable, [Next]_vars PROVE Stable'
    OBVIOUS
  <1>0. /\ pc \in [Threads -> Labels] /\ idx \in [Threads -> Slots]
        /\ version \in [Slots -> Nat] /\ payload \in [Slots -> PayloadType]
        /\ seen \in Nat /\ Worker \in Threads
    BY DEF Typed, TypeOK, RecordTypes, WriterTypes, ReaderTypes, Threads
  <1> USE <1>0 DEF Stable
  (* A step that moves neither a version nor a thread that stores.          *)
  <1>a. ASSUME NEW t \in Threads, NEW l \in Labels \ {"store", "even"},
               pc[t] \notin {"store", "even"}, version' = version,
               pc' = [pc EXCEPT ![t] = l], \A u \in Threads \ {t} : idx'[u] = idx[u]
        PROVE Parity'
    BY <1>a DEF Parity, Storing
  (* A step of a writer that stores nothing.                                *)
  <1>b. ASSUME NEW t \in Threads, pc[t] \notin {"load", "validate"}, NEW l \in Labels \ {"load", "validate"},
               UNCHANGED <<version, payload, seen, copy>>,
               pc' = [pc EXCEPT ![t] = l], \A u \in Threads \ {t} : idx'[u] = idx[u]
        PROVE ReadsStable'
    BY <1>b DEF ReadsStable
  (* A writer that moves the version of its slot.                           *)
  <1>c. ASSUME NEW t \in Threads, pc[t] \notin {"load", "validate"}, NEW l \in Labels \ {"load", "validate"},
               UNCHANGED <<payload, seen, copy>>, version' = [version EXCEPT ![idx[t]] = @ + 1],
               pc' = [pc EXCEPT ![t] = l], \A u \in Threads \ {t} : idx'[u] = idx[u]
        PROVE ReadsStable'
    <2> SUFFICES ASSUME pc[Worker] \in {"load", "validate"}
                 PROVE /\ seen <= version'[idx[Worker]]
                       /\ version'[idx[Worker]] = seen => version'[idx[Worker]] = version[idx[Worker]]
      BY <1>c DEF ReadsStable
    <2>1. version[idx[Worker]] \in Nat /\ seen <= version[idx[Worker]]
      BY DEF ReadsStable
    <2>2. CASE idx[Worker] = idx[t]
      BY <1>c, <2>1, <2>2
    <2>3. CASE idx[Worker] # idx[t]
      BY <1>c, <2>1, <2>3
    <2> QED
      BY <2>2, <2>3
  (* A writer begins to store, or ends: nobody else is at it.               *)
  <1>d. ASSUME NEW t \in Threads, pc[t] \in {"slot", "clear"}, idx' = idx,
               version' = [version EXCEPT ![idx[t]] = @ + 1], pc' = [pc EXCEPT ![t] = "store"]
        PROVE Parity'
    <2> SUFFICES ASSUME NEW s \in Slots
                 PROVE version'[s] % 2 = 1 <=> \E u \in Threads : Storing(u, s)'
      BY DEF Parity
    <2>1. CASE s = idx[t]
      <3>1. \A u \in Threads : ~ Storing(u, s)
        BY <1>d DEF OneWriter, Holds, Holding, Storing
      <3>2. version[s] % 2 = 0
        BY <3>1, Alternates DEF Parity
      <3>3. Storing(t, s)'
        BY <1>d, <2>1 DEF Storing
      <3> QED
        BY <1>d, <2>1, <3>2, <3>3, Alternates
    <2>2. CASE s # idx[t]
      <3>1. \A u \in Threads : Storing(u, s)' <=> Storing(u, s)
        BY <1>d, <2>2 DEF Storing
      <3> QED
        BY <1>d, <2>2, <3>1 DEF Parity
    <2> QED
      BY <2>1, <2>2
  <1>e. ASSUME NEW t \in Threads, pc[t] = "even", NEW l \in Labels \ {"store", "even"},
               \A u \in Threads \ {t} : idx'[u] = idx[u],
               version' = [version EXCEPT ![idx[t]] = @ + 1], pc' = [pc EXCEPT ![t] = l]
        PROVE Parity'
    <2> SUFFICES ASSUME NEW s \in Slots
                 PROVE version'[s] % 2 = 1 <=> \E u \in Threads : Storing(u, s)'
      BY DEF Parity
    <2>1. CASE s = idx[t]
      <3>1. \A u \in Threads : ~ Storing(u, s)'
        BY <1>e DEF OneWriter, Holds, Holding, Storing
      <3>2. version[s] % 2 = 1
        BY <1>e, <2>1 DEF Parity, Storing
      <3> QED
        BY <1>e, <2>1, <3>1, <3>2, Alternates
    <2>2. CASE s # idx[t]
      <3>1. \A u \in Threads : Storing(u, s)' <=> Storing(u, s)
        BY <1>e, <2>2 DEF Storing
      <3> QED
        BY <1>e, <2>2, <3>1 DEF Parity
    <2> QED
      BY <2>1, <2>2
  <1>1. ASSUME NEW t \in Modesets \cup {Power}, NEW c \in Commits, StartApply(t, c) PROVE Stable'
    BY <1>1, <1>a, <1>b DEF StartApply, record, reading, Goto, Threads, Labels
  <1>2. ASSUME NEW m \in Monitors, StartForget(m) PROVE Stable'
    BY <1>2, <1>a, <1>b DEF StartForget, record, reading, Goto, Labels
  <1>3. ASSUME NEW m \in Monitors, StartGet(m) PROVE Stable'
    BY <1>3, <1>a, <1>b DEF StartGet, record, Goto, Labels
  <1>4. ASSUME NEW t \in Threads, Write(t) PROVE Stable'
    <2>1. CASE Acquire(t)
      <3>1. \E l \in {"slot", "flag"} : pc' = [pc EXCEPT ![t] = l]
        BY <2>1 DEF Acquire, Goto
      <3> QED
        BY <2>1, <3>1, <1>a, <1>b DEF Acquire, reading, Labels
    <2>2. CASE Flag(t)
      <3>1. \E l \in {"lost", "acquire", "exhausted"} : pc' = [pc EXCEPT ![t] = l]
        BY <2>2 DEF Flag, Goto
      <3> QED
        BY <2>2, <3>1, <1>a, <1>b DEF Flag, reading, Labels
    <2>3. CASE Exhausted(t)
      BY <2>3, <1>a, <1>b DEF Exhausted, reading, writing, Goto, Labels
    <2>4. CASE Lost(t)
      BY <2>4, <1>a, <1>b DEF Lost, Idle, NewGeneration, Goto, Labels
    <2>5. CASE VisitSlot(t)
      <3>1. CASE Keeps(t, idx[t])
        <4>1. /\ \E l \in {"slot", "bump"} : pc' = [pc EXCEPT ![t] = l]
              /\ \A u \in Threads \ {t} : idx'[u] = idx[u]
          <5>1. CASE idx[t] < NSlots
            BY <2>5, <3>1, <5>1 DEF VisitSlot, Goto, At
          <5>2. CASE ~ (idx[t] < NSlots)
            BY <2>5, <3>1, <5>2 DEF VisitSlot, Goto
          <5> QED
            BY <5>1, <5>2
        <4> QED
          BY <2>5, <3>1, <4>1, <1>a, <1>b DEF VisitSlot, reading, Labels
      <3>2. CASE ~ Keeps(t, idx[t])
        BY <2>5, <3>2, <1>c, <1>d DEF VisitSlot, Odd, reading, Goto, Labels
      <3> QED
        BY <3>1, <3>2
    <2>6. CASE Store(t)
      <3>1. PICK f \in left[t] :
              /\ payload' = [payload EXCEPT ![idx[t]][f] = Payload(value[t])[f]]
              /\ pc' = [pc EXCEPT ![t] = IF left[t] = {f} THEN "even" ELSE "store"]
        BY <2>6 DEF Store, Goto
      <3>2. /\ pc[t] = "store" /\ pc'[t] \in {"store", "even"}
            /\ \A u \in Threads \ {t} : pc'[u] = pc[u]
            /\ UNCHANGED <<version, idx, seen, copy>>
        BY <2>6, <3>1 DEF Store, reading
      <3>3. Parity'
        BY <3>2 DEF Parity, Storing
      <3>4. ReadsStable'
        <4>1. idx[Worker] = idx[t] /\ seen % 2 = 0 => version[idx[Worker]] # seen
          BY <3>2 DEF Parity, Storing
        <4>2. idx[Worker] # idx[t] => payload'[idx[Worker]] = payload[idx[Worker]]
          BY <3>1
        <4>3. t = Worker => pc'[Worker] \notin {"load", "validate"}
          BY <3>2
        <4> QED
          BY <3>2, <4>1, <4>2, <4>3 DEF ReadsStable
      <3> QED
        BY <3>3, <3>4
    <2>7. CASE Even(t)
      <3>1. /\ \E l \in {"clear", "slot", "bump"} : pc' = [pc EXCEPT ![t] = l]
            /\ \A u \in Threads \ {t} : idx'[u] = idx[u]
        <4>1. CASE idx[t] < NSlots
          BY <2>7, <4>1 DEF Even, Goto, At
        <4>2. CASE ~ (idx[t] < NSlots)
          BY <2>7, <4>2 DEF Even, Goto
        <4> QED
          BY <4>1, <4>2
      <3> QED
        BY <2>7, <3>1, <1>c, <1>e DEF Even, reading, Labels
    <2>8. CASE Bump(t)
      <3>1. \E l \in {"release", "surrender"} : pc' = [pc EXCEPT ![t] = l]
        BY <2>8 DEF Bump, Goto
      <3> QED
        BY <2>8, <3>1, <1>a, <1>b DEF Bump, NewGeneration, writing, Labels
    <2>9. CASE Release(t)
      BY <2>9, <1>a, <1>b DEF Release, Idle, reading, Goto, Labels
    <2>10. CASE Unflag(t)
      BY <2>10, <1>a, <1>b DEF Unflag, reading, Goto, At, Labels
    <2>11. CASE ClearSlot(t)
      BY <2>11, <1>c, <1>d DEF ClearSlot, Odd, reading, Goto, Labels
    <2>12. CASE Surrender(t)
      BY <2>12, <1>a, <1>b DEF Surrender, Idle, reading, Goto, Labels
    <2> QED
      BY <1>4, <2>1, <2>2, <2>3, <2>4, <2>5, <2>6, <2>7, <2>8, <2>9, <2>10, <2>11, <2>12 DEF Write
  <1>5. CASE ReadVersion
    <2>1. CASE version[idx[Worker]] % 2 = 1
      <3>1. /\ \E l \in {"version", "idle"} : pc' = [pc EXCEPT ![Worker] = l]
            /\ \A u \in Threads \ {Worker} : idx'[u] = idx[u]
            /\ version' = version
        BY <1>5, <2>1 DEF ReadVersion, Retry, NextSlot, Done, Idle, Goto, At, record, writing
      <3>2. Parity'
        BY <1>5, <3>1, <1>a DEF ReadVersion, Labels
      <3>3. ReadsStable'
        BY <3>1 DEF ReadsStable
      <3> QED
        BY <3>2, <3>3
    <2>2. CASE version[idx[Worker]] % 2 # 1
      <3>1. /\ pc[Worker] = "version" /\ pc' = [pc EXCEPT ![Worker] = "load"]
            /\ seen' = version[idx[Worker]] /\ UNCHANGED <<version, idx>>
        BY <1>5, <2>2 DEF ReadVersion, Goto, record, writing
      <3>2. Parity'
        BY <3>1, <1>a DEF Labels
      <3>3. ReadsStable'
        BY <2>2, <3>1, Alternates DEF ReadsStable
      <3> QED
        BY <3>2, <3>3
    <2> QED
      BY <2>1, <2>2
  <1>6. CASE Load
    <2>1. /\ pc[Worker] = "load" /\ pc' = [pc EXCEPT ![Worker] = "validate"]
          /\ copy' = payload[idx[Worker]] /\ UNCHANGED <<version, payload, idx, seen>>
      BY <1>6 DEF Load, Goto, record, writing
    <2>2. Parity'
      BY <2>1, <1>a DEF Labels
    <2>3. ReadsStable'
      BY <2>1 DEF ReadsStable
    <2> QED
      BY <2>2, <2>3
  <1>7. CASE Validate
    <2>1. /\ pc[Worker] = "validate"
          /\ \E l \in {"version", "idle"} : pc' = [pc EXCEPT ![Worker] = l]
          /\ \A u \in Threads \ {Worker} : idx'[u] = idx[u]
          /\ version' = version
      BY <1>7 DEF Validate, Retry, NextSlot, Done, Idle, Goto, At, record, writing
    <2>2. Parity'
      BY <2>1, <1>a DEF Labels
    <2>3. ReadsStable'
      BY <2>1 DEF ReadsStable
    <2> QED
      BY <2>2, <2>3
  <1>8. CASE UNCHANGED vars
    BY <1>8 DEF vars, record, writing, reading, Parity, Storing, ReadsStable
  <1> QED
    BY <1>1, <1>2, <1>3, <1>4, <1>5, <1>6, <1>7, <1>8, CommitsAreLists DEF Next

(* A read that passes its version check holds what the slot holds.          *)
THEOREM ReadsAreWhole == Spec => []ReadIsCurrent
  <1>1. Init => Typed /\ OneWriter /\ Stable
    <2> SUFFICES ASSUME Init PROVE OneWriter /\ Stable
      BY TypingInit
    <2>1. Worker \in Threads
      BY DEF Threads
    <2>2. OneWriter
      BY DEF Init, OneWriter, Holds, Holding
    <2>3. Stable
      BY <2>1, Alternates DEF Init, Stable, Parity, Storing, ReadsStable
    <2> QED
      BY <2>2, <2>3
  <1>2. Typed /\ OneWriter /\ Stable => ReadIsCurrent
    BY DEF Stable, ReadsStable, ReadIsCurrent, Unchanged
  <1> QED
    BY <1>1, <1>2, TypingStep, OneWriterStep, StableStep, PTL DEF Spec

-----------------------------------------------------------------------------
(* How far the one writer has come.                                        *)

(* A write begins at the first slot; clearing begins with Unflag.          *)
Prepared(t) ==
  /\ pc[t] \in {"idle", "acquire", "flag", "exhausted", "lost"} => idx[t] = 1
  /\ pc[t] = "slot" => ~ Clearing(t)
  /\ pc[t] \in {"clear", "surrender"} => Clearing(t)

(* The fields of the slot it is at that it has stored.                     *)
Stored(t) ==
  pc[t] \in {"store", "even"} =>
    /\ value[t] = IF Clearing(t) THEN NoPair ELSE Wanted(t, idx[t])
    /\ \A f \in Fields \ left[t] : payload[idx[t]][f] = Payload(value[t])[f]
    /\ pc[t] = "even" => left[t] = {}

(* The slots it has left hold what it wants there.                         *)
Passed(t, s) ==
  \/ pc[t] \in {"bump", "release", "surrender"}
  \/ pc[t] \in {"slot", "clear", "store", "even"} /\ s < idx[t]
Final(t, s) ==
  IF Clearing(t) THEN payload[s] = EmptySlot
  ELSE IF t = Worker THEN payload[s].monitor # update[t]
  ELSE payload[s] = Payload(Wanted(t, s))
Visited(t) == \A s \in Slots : Passed(t, s) => Final(t, s)

(* While a monitor is being forgotten, every other pair of the record is   *)
(* in a slot that is not being stored into, and no slot holds another.     *)
Untouched(t, s) == pc[t] = "store" => s # idx[t]
Forgetting(t) ==
  t = Worker /\ ~ Clearing(t) =>
    /\ \A s \in Slots : Untouched(t, s) =>
          payload[s] = EmptySlot \/ \E p \in whole : payload[s] = Payload(p)
    /\ \A p \in whole : p.monitor # update[t] =>
          \E s \in Slots : Untouched(t, s) /\ payload[s] = Payload(p)

Progress(t) == Holds(t) => Stored(t) /\ Visited(t) /\ Forgetting(t)

(* What the slots hold, and that it is the pairs of a set.                 *)
Recorded == {payload[s] : s \in Slots} \ {EmptySlot}
RecordHolds(S) == Recorded = {Payload(p) : p \in S}

OneCommit ==
  /\ \A t \in Threads : Prepared(t) /\ Progress(t)
  /\ RecordIsOneCommit

(* A loser's flag stays up until the holder takes it down to clear.        *)
LossIsSeen ==
  turnedAway => "contended" \in state \/ \E t \in Threads : Holds(t) /\ Clearing(t)

(* What was read under the current generation is still in a slot once the  *)
(* holder of the token, if any, has moved the generation.                  *)
AnswerStands ==
  answer # NoPair /\ (Unowned \/ \E t \in Threads : pc[t] \in {"release", "surrender"}) =>
    \E s \in Slots : payload[s] = Payload(answer)

LEMMA PayloadsDiffer ==
  /\ \A a, b \in PayloadType : (\A f \in Fields : a[f] = b[f]) => a = b
  /\ \A p, q \in PairOrNone : Payload(p) = Payload(q) => p = q
  /\ \A p \in Pairs : p \in PairOrNone /\ Payload(p) # EmptySlot /\ Payload(p).monitor = p.monitor
  /\ EmptySlot = Payload(NoPair) /\ EmptySlot.monitor = Empty /\ NoPair \in PairOrNone
  /\ Empty \notin Monitors
  <1>1. \A a, b \in PayloadType : (\A f \in Fields : a[f] = b[f]) => a = b
    BY DEF PayloadType, Fields
  <1>2. \A p, q \in PairOrNone : Payload(p) = Payload(q) => p = q
    BY DEF Payload, PairOrNone, Pairs, NoPair
  <1>3. \A p \in Pairs : p \in PairOrNone /\ Payload(p) # EmptySlot /\ Payload(p).monitor = p.monitor
    BY ThreadsAssumption DEF Pairs, PairOrNone, Payload, EmptySlot, NoPair
  <1>4. EmptySlot.monitor = Empty /\ NoPair \in PairOrNone /\ EmptySlot = Payload(NoPair)
    BY DEF EmptySlot, Payload, NoPair, PairOrNone
  <1> QED
    BY <1>1, <1>2, <1>3, <1>4, ThreadsAssumption

(* What a thread wants in a slot, and that it wants the pairs of Result.   *)
LEMMA WantedPairs ==
  ASSUME Typed, NEW t \in Threads
  PROVE  /\ \A s \in Slots : Wanted(t, s) \in PairOrNone
         /\ t = Worker => \A s \in Slots : Wanted(t, s) = NoPair
         /\ t # Worker => {Payload(Wanted(t, s)) : s \in Slots} \ {EmptySlot} = {Payload(p) : p \in Written(t)}
  <1>1. t # Worker => update[t] \in Commits
    BY DEF Typed, TypeOK, WriterTypes
  <1>2. ASSUME t # Worker
        PROVE {Payload(Wanted(t, s)) : s \in Slots} \ {EmptySlot} = {Payload(p) : p \in Written(t)}
    <2>1. \A s \in DOMAIN update[t] : s \in Slots /\ update[t][s] \in Pairs
      BY <1>1, <1>2, CommitsAreLists
    <2>2. Written(t) = {update[t][i] : i \in DOMAIN update[t]}
      BY <1>2 DEF Written
    <2>3. \A s \in Slots : Payload(Wanted(t, s)) # EmptySlot
            => s \in DOMAIN update[t] /\ Wanted(t, s) = update[t][s]
      BY PayloadsDiffer DEF Wanted
    <2>4. \A s \in DOMAIN update[t] : Wanted(t, s) = update[t][s] /\ Payload(Wanted(t, s)) # EmptySlot
      BY <1>2, <2>1, PayloadsDiffer DEF Wanted
    <2> QED
      BY <2>1, <2>2, <2>3, <2>4
  <1> QED
    BY <1>1, <1>2, CommitsAreLists, PayloadsDiffer DEF Wanted

(* A holder that has visited every slot leaves the record of its result.   *)
LEMMA VisitedRecord ==
  ASSUME Typed, OneCommit, NEW t \in Threads, pc[t] \in {"release", "surrender"}
  PROVE  /\ RecordHolds(Result(t))
         /\ Clearing(t) => \A s \in Slots : payload[s] = EmptySlot
  <1>1. Progress(t) /\ \A s \in Slots : Final(t, s)
    BY DEF OneCommit, Progress, Visited, Passed, Holds, Holding
  <1>2. CASE Clearing(t)
    BY <1>1, <1>2 DEF Final, RecordHolds, Recorded, Result
  <1>3. CASE ~ Clearing(t) /\ t # Worker
    <2>1. Recorded = {Payload(Wanted(t, s)) : s \in Slots} \ {EmptySlot}
      BY <1>1, <1>3 DEF Final, Recorded
    <2> QED
      BY <1>3, <2>1, WantedPairs DEF RecordHolds, Result
  <1>4. CASE ~ Clearing(t) /\ t = Worker
    <2>1. \A s \in Slots : payload[s].monitor # update[t]
      BY <1>1, <1>4 DEF Final
    <2>2. /\ \A s \in Slots : payload[s] = EmptySlot \/ \E p \in whole : payload[s] = Payload(p)
          /\ \A p \in whole : p.monitor # update[t] => \E s \in Slots : payload[s] = Payload(p)
      BY <1>1, <1>4 DEF Progress, Forgetting, Untouched, Holds, Holding
    <2>3. whole \subseteq Pairs
      BY DEF Typed, TypeOK, HistoryTypes
    <2>4. Result(t) = {p \in whole : p.monitor # update[t]}
      BY <1>4 DEF Result, Written
    <2>5. \A s \in Slots : payload[s] # EmptySlot => \E p \in Result(t) : payload[s] = Payload(p)
      BY <2>1, <2>2, <2>3, <2>4, PayloadsDiffer
    <2>6. \A p \in Result(t) : \E s \in Slots : payload[s] = Payload(p) /\ payload[s] # EmptySlot
      BY <2>2, <2>3, <2>4, PayloadsDiffer
    <2> QED
      BY <1>4, <2>5, <2>6 DEF RecordHolds, Recorded
  <1> QED
    BY <1>2, <1>3, <1>4

LEMMA OneCommitInit == Init => OneCommit
  <1> SUFFICES ASSUME Init PROVE OneCommit
    OBVIOUS
  <1>1. \A t \in Threads : Prepared(t) /\ Progress(t)
    BY DEF Init, Prepared, Progress, Clearing, Holds, Holding
  <1>2. RecordIsOneCommit
    BY DEF Init, RecordIsOneCommit
  <1> QED
    BY <1>1, <1>2 DEF OneCommit

LEMMA OneCommitStep == Typed /\ OneWriter /\ OneCommit /\ [Next]_vars => OneCommit'
  <1> SUFFICES ASSUME Typed, OneWriter, OneCommit, [Next]_vars PROVE OneCommit'
    OBVIOUS
  <1>0. /\ pc \in [Threads -> Labels] /\ idx \in [Threads -> Slots] /\ tries \in [Threads -> Nat]
        /\ value \in [Threads -> PairOrNone] /\ left \in [Threads -> SUBSET Fields]
        /\ payload \in [Slots -> PayloadType] /\ DOMAIN update = Threads
        /\ Worker \in Threads /\ (pc[Worker] # "idle" => update[Worker] \in Monitors)
        /\ Slots \subseteq Nat /\ NSlots \in Slots /\ 1 \in Slots
    BY AttemptsAssumption DEF Typed, TypeOK, RecordTypes, WriterTypes, Busy, Threads, Slots
  <1> USE <1>0
  <1> DEFINE Apart(t) == \A u \in Threads \ {t} :
                /\ pc'[u] = pc[u] /\ idx'[u] = idx[u] /\ value'[u] = value[u]
                /\ left'[u] = left[u] /\ tries'[u] = tries[u] /\ update'[u] = update[u]
  (* The others are where they were: only the holder stores.                *)
  <1>a. ASSUME NEW t \in Threads, Apart(t), UNCHANGED <<payload, whole>> \/ Holds(t)
        PROVE \A u \in Threads \ {t} : Prepared(u)' /\ Progress(u)'
    <2> SUFFICES ASSUME NEW u \in Threads \ {t} PROVE Prepared(u)' /\ Progress(u)'
      OBVIOUS
    <2>1. Prepared(u)'
      BY <1>a DEF OneCommit, Prepared, Clearing
    <2>2. CASE Holds(u)
      <3>1. ~ Holds(t) /\ UNCHANGED <<payload, whole>>
        BY <1>a, <2>2 DEF OneWriter
      <3>2. Progress(u)
        BY DEF OneCommit
      <3>3. Stored(u)'
        BY <1>a, <2>2, <3>1, <3>2 DEF Progress, Stored, Clearing, Wanted
      <3>4. Visited(u)'
        BY <1>a, <2>2, <3>1, <3>2 DEF Progress, Visited, Passed, Final, Clearing, Wanted
      <3>5. Forgetting(u)'
        BY ZenonT(30), <1>a, <2>2, <3>1, <3>2 DEF Progress, Forgetting, Untouched, Clearing
      <3> QED
        BY <2>1, <3>3, <3>4, <3>5 DEF Progress
    <2>3. CASE ~ Holds(u)
      BY <1>a, <2>1, <2>3 DEF Progress, Holds
    <2> QED
      BY <2>1, <2>2, <2>3
  (* A step that leaves the record alone, of a thread that does not hold it. *)
  <1>b. ASSUME NEW t \in Threads, Apart(t), UNCHANGED <<payload, whole>>,
               "writing" \in state' <=> "writing" \in state,
               Prepared(t)', ~ Holds(t)'
        PROVE OneCommit'
    <2>1. Progress(t)'
      BY <1>b DEF Progress
    <2>2. RecordIsOneCommit'
      BY <1>b DEF OneCommit, RecordIsOneCommit, Unowned
    <2> QED
      BY <1>a, <1>b, <2>1, <2>2 DEF OneCommit
  (* A step of the holder that does not give the token back.                *)
  <1>c. ASSUME NEW t \in Threads, Apart(t), Holds(t), "writing" \in state',
               Prepared(t)', Progress(t)'
        PROVE OneCommit'
    <2>1. RecordIsOneCommit'
      BY <1>c DEF RecordIsOneCommit, Unowned
    <2> QED
      BY <1>a, <1>c, <2>1 DEF OneCommit
  <1>d. ASSUME NEW t \in Threads, Holds(t)
        PROVE "writing" \in state /\ Prepared(t) /\ Stored(t) /\ Visited(t) /\ Forgetting(t)
    BY <1>d DEF OneWriter, OneCommit, Progress
  <1>1. ASSUME NEW t \in Modesets \cup {Power}, NEW c \in Commits, StartApply(t, c) PROVE OneCommit'
    <2>1. t \in Threads
      BY DEF Threads
    <2> QED
      BY <1>1, <2>1, <1>b DEF StartApply, record, Goto, OneCommit, Prepared, Holds, Holding
  <1>2. ASSUME NEW m \in Monitors, StartForget(m) \/ StartGet(m) PROVE OneCommit'
    <2> PICK t \in Threads : t = Worker
      OBVIOUS
    <2>1. Apart(t) /\ UNCHANGED <<state, payload, whole>>
      BY <1>2 DEF StartForget, StartGet, record, Goto
    <2>2. Prepared(t)' /\ ~ Holds(t)'
      <3>1. pc[t] = "idle" /\ idx' = idx /\ pc'[t] \in {"acquire", "version"}
        BY <1>2 DEF StartForget, StartGet, Goto
      <3> QED
        BY <3>1 DEF OneCommit, Prepared, Holds, Holding
    <2> QED
      BY <2>1, <2>2, <1>b
  <1>3. ASSUME NEW t \in Threads, Write(t) PROVE OneCommit'
    <2> USE DEF Goto, At
    <2>1. CASE Acquire(t)
      <3>1. CASE Unowned
        <4>1. /\ pc' = [pc EXCEPT ![t] = "slot"] /\ tries' = [tries EXCEPT ![t] = 0] /\ idx' = idx
              /\ Apart(t) /\ UNCHANGED <<payload, whole, value, left, update>> /\ idx[t] = 1
              /\ state' = state \cup {"writing"}
          BY <2>1, <3>1 DEF Acquire, OneCommit, Prepared
        <4>2. Prepared(t)'
          BY <4>1 DEF Prepared, Clearing
        <4>3. Forgetting(t)'
          <5>1. Recorded = {Payload(p) : p \in whole}
            BY <3>1 DEF OneCommit, RecordIsOneCommit, Recorded
          <5> QED
            BY <4>1, <5>1 DEF Forgetting, Untouched, Recorded
        <4>4. Stored(t)' /\ Visited(t)'
          BY <4>1 DEF Stored, Visited, Passed, Slots
        <4>5. RecordIsOneCommit'
          BY <4>1 DEF RecordIsOneCommit, Unowned
        <4> QED
          BY <1>a, <4>1, <4>2, <4>3, <4>4, <4>5 DEF OneCommit, Progress
      <3>2. CASE ~ Unowned
        BY <2>1, <3>2, <1>b DEF Acquire, Unowned, OneCommit, Prepared, Holds, Holding
      <3> QED
        BY <3>1, <3>2
    <2>2. CASE Flag(t)
      <3>1. /\ Apart(t) /\ UNCHANGED <<payload, whole>> /\ idx' = idx /\ idx[t] = 1
            /\ pc'[t] \in {"lost", "acquire", "exhausted"}
            /\ "writing" \in state' <=> "writing" \in state
        BY <2>2 DEF Flag, OneCommit, Prepared
      <3> QED
        BY <3>1, <1>b DEF Prepared, Holds, Holding
    <2>3. CASE Exhausted(t)
      BY <2>3, <1>b DEF Exhausted, writing, OneCommit, Prepared, Holds, Holding
    <2>4. CASE Lost(t)
      BY <2>4, <1>b DEF Lost, Idle, Prepared, Holds, Holding
    <2>5. CASE VisitSlot(t)
      <3>0. Holds(t) /\ ~ Clearing(t) /\ Apart(t) /\ UNCHANGED <<state, payload, whole, tries, update>>
        BY <2>5 DEF VisitSlot, Odd, OneCommit, Prepared, Holds, Holding
      <3>1. CASE Keeps(t, idx[t])
        <4>1. t = Worker /\ payload[idx[t]].monitor # update[t]
          BY <3>1 DEF Keeps
        <4>2. /\ UNCHANGED value
              /\ \/ idx[t] < NSlots /\ pc'[t] = "slot" /\ idx'[t] = idx[t] + 1
                 \/ idx[t] = NSlots /\ pc'[t] = "bump" /\ idx'[t] = idx[t]
          BY <2>5, <3>1 DEF VisitSlot, Slots
        <4>3. Prepared(t)' /\ Stored(t)'
          BY <3>0, <4>2 DEF Prepared, Stored, Clearing
        <4>4. \A s \in Slots : Passed(t, s)' => s = idx[t] \/ Passed(t, s)
          BY <2>5, <4>2 DEF Passed, VisitSlot, Slots
        <4>5. Visited(t)'
          BY <3>0, <4>1, <4>4, <1>d DEF Visited, Final, Clearing
        <4>6. Forgetting(t)'
          BY <2>5, <3>0, <4>2, <1>d DEF Forgetting, Untouched, Clearing, VisitSlot
        <4> QED
          BY <3>0, <4>3, <4>5, <4>6, <1>c, <1>d DEF Progress
      <3>2. CASE ~ Keeps(t, idx[t])
        <4>1. /\ pc' = [pc EXCEPT ![t] = "store"] /\ idx' = idx /\ pc[t] = "slot"
              /\ value' = [value EXCEPT ![t] = Wanted(t, idx[t])]
              /\ left' = [left EXCEPT ![t] = Fields]
          BY <2>5, <3>2 DEF VisitSlot, Odd
        <4>2. Prepared(t)'
          BY <3>0, <4>1 DEF Prepared, Clearing
        <4>3. Stored(t)'
          BY <3>0, <4>1 DEF Stored, Clearing, Wanted
        <4>4. Visited(t)'
          BY <3>0, <4>1, <1>d DEF Visited, Final, Passed, Clearing, Wanted
        <4>5. Forgetting(t)'
          <5> SUFFICES ASSUME t = Worker
                       PROVE Forgetting(t)'
            BY DEF Forgetting
          <5>1. payload[idx[t]].monitor = update[t]
            BY <3>2 DEF Keeps
          <5>2. \A p \in whole : p.monitor = Payload(p).monitor
            BY PayloadsDiffer DEF Typed, TypeOK, HistoryTypes
          <5> QED
            BY <3>0, <4>1, <5>1, <5>2, <1>d DEF Forgetting, Untouched, Clearing
        <4> QED
          BY <3>0, <4>2, <4>3, <4>4, <4>5, <1>c, <1>d DEF Progress
      <3> QED
        BY <3>1, <3>2
    <2>6. CASE Store(t)
      <3>1. PICK f \in left[t] :
              /\ payload' = [payload EXCEPT ![idx[t]][f] = Payload(value[t])[f]]
              /\ left' = [left EXCEPT ![t] = @ \ {f}]
              /\ pc' = [pc EXCEPT ![t] = IF left[t] = {f} THEN "even" ELSE "store"]
        BY <2>6 DEF Store
      <3>2. /\ Holds(t) /\ Apart(t) /\ pc[t] = "store" /\ pc'[t] \in {"store", "even"}
            /\ UNCHANGED <<state, whole, tries, update, idx, value>>
        BY <2>6, <3>1 DEF Store, Holds, Holding
      <3>3. /\ \A s \in Slots \ {idx[t]} : payload'[s] = payload[s]
            /\ \A g \in Fields : payload'[idx[t]][g] =
                 IF g = f THEN Payload(value[t])[f] ELSE payload[idx[t]][g]
        <4>1. DOMAIN payload[idx[t]] = Fields /\ DOMAIN payload = Slots
          BY DEF PayloadType, Fields
        <4> QED
          BY <3>1, <4>1
      <3>4. Prepared(t)'
        BY <3>2 DEF Prepared
      <3>5. Stored(t)'
        <4>1. pc'[t] = "even" => left'[t] = {}
          BY <3>1, <3>2
        <4>2. \A g \in Fields \ left'[t] : payload'[idx[t]][g] = Payload(value[t])[g]
          BY <3>1, <3>2, <3>3, <1>d DEF Stored
        <4> QED
          BY <3>2, <4>1, <4>2, <1>d DEF Stored, Clearing, Wanted
      <3>6. Visited(t)'
        <4>1. \A s \in Slots : Passed(t, s)' => Passed(t, s) /\ s # idx[t]
          BY <3>2 DEF Passed, Slots
        <4> QED
          BY <3>2, <3>3, <4>1, <1>d DEF Visited, Final, Clearing, Wanted
      <3>7. Forgetting(t)'
        <4> SUFFICES ASSUME t = Worker, ~ Clearing(t)
                     PROVE Forgetting(t)'
          BY <3>2 DEF Forgetting, Clearing
        <4>1. \A s \in Slots \ {idx[t]} : Untouched(t, s)
          BY DEF Untouched
        <4>2. ~ Untouched(t, idx[t])
          BY <3>2 DEF Untouched
        <4>3. pc'[t] = "even" => payload'[idx[t]] = EmptySlot
          <5> SUFFICES ASSUME pc'[t] = "even" PROVE payload'[idx[t]] = EmptySlot
            OBVIOUS
          <5>1. value[t] = NoPair
            <6>1. value[t] = Wanted(t, idx[t])
              BY <3>2, <1>d DEF Stored
            <6>2. idx[t] \in Slots
              OBVIOUS
            <6> QED
              BY <6>1, <6>2, WantedPairs
          <5>2. \A g \in Fields : payload'[idx[t]][g] = EmptySlot[g]
            BY <3>2, <3>5, <5>1, PayloadsDiffer DEF Stored
          <5>3. payload'[idx[t]] \in PayloadType
            BY TypingStep DEF Typed, TypeOK, RecordTypes
          <5> QED
            BY <5>2, <5>3, PayloadsDiffer, PayloadTypes
        <4>4. \A s \in Slots : Untouched(t, s)' =>
                payload'[s] = EmptySlot \/ \E p \in whole : payload'[s] = Payload(p)
          BY <3>2, <3>3, <4>1, <4>3, <1>d DEF Forgetting, Untouched
        <4>5. \A p \in whole : p.monitor # update[t] =>
                \E s \in Slots : Untouched(t, s)' /\ payload'[s] = Payload(p)
          BY <3>2, <3>3, <4>2, <1>d DEF Forgetting, Untouched
        <4> QED
          BY <3>2, <4>4, <4>5 DEF Forgetting, Clearing
      <3> QED
        BY <3>2, <3>4, <3>5, <3>6, <3>7, <1>c, <1>d DEF Progress
    <2>7. CASE Even(t)
      <3>1. /\ Holds(t) /\ Apart(t) /\ UNCHANGED <<state, payload, whole, tries, update, left>>
            /\ pc[t] = "even" /\ left[t] = {}
            /\ \/ idx[t] < NSlots /\ idx'[t] = idx[t] + 1
                  /\ pc'[t] = IF Clearing(t) THEN "clear" ELSE "slot"
               \/ idx[t] = NSlots /\ idx'[t] = idx[t] /\ pc'[t] = "bump"
        BY <2>7, <1>d DEF Even, Holds, Holding, Slots, Stored
      <3>2. Prepared(t)' /\ Stored(t)'
        BY <3>1 DEF Prepared, Stored, Clearing
      <3>3. payload[idx[t]] = Payload(value[t])
        <4>1. \A f \in Fields : payload[idx[t]][f] = Payload(value[t])[f]
          BY <3>1, <1>d DEF Stored
        <4>2. payload[idx[t]] \in PayloadType /\ Payload(value[t]) \in PayloadType
          BY PayloadTypes
        <4> QED
          BY <4>1, <4>2, PayloadsDiffer
      <3>4. Final(t, idx[t])
        <4>1. value[t] = IF Clearing(t) THEN NoPair ELSE Wanted(t, idx[t])
          BY <3>1, <1>d DEF Stored
        <4>2. t = Worker => Wanted(t, idx[t]) = NoPair /\ update[t] # Empty
          BY <3>1, WantedPairs, PayloadsDiffer
        <4> QED
          BY <3>3, <4>1, <4>2, PayloadsDiffer DEF Final
      <3>5. \A s \in Slots : Passed(t, s)' => s = idx[t] \/ Passed(t, s)
        BY <3>1 DEF Passed, Slots
      <3>6. Visited(t)'
        BY <3>1, <3>4, <3>5, <1>d DEF Visited, Final, Clearing, Wanted
      <3>7. Forgetting(t)'
        BY <3>1, <1>d DEF Forgetting, Untouched, Clearing
      <3> QED
        BY <3>1, <3>2, <3>6, <3>7, <1>c, <1>d DEF Progress
    <2>8. CASE Bump(t)
      <3>1. /\ Holds(t) /\ Apart(t) /\ UNCHANGED <<state, payload, whole, writing>> /\ pc[t] = "bump"
            /\ pc'[t] = IF tries[t] < ReleaseAttempts THEN "release" ELSE "surrender"
        BY <2>8 DEF Bump, Holds, Holding, writing
      <3>2. Prepared(t)'
        BY <3>1, AttemptsAssumption DEF Prepared, Clearing, writing
      <3>3. Stored(t)' /\ Visited(t)'
        BY <3>1, <1>d DEF Stored, Visited, Passed, Final, Clearing, Wanted, writing
      <3>4. Forgetting(t)'
        BY <3>1, <1>d DEF Forgetting, Untouched, Clearing, writing
      <3> QED
        BY <3>1, <3>2, <3>3, <3>4, <1>c, <1>d DEF Progress
    <2>9. CASE Release(t) \/ Surrender(t)
      <3>1. /\ Holds(t) /\ Apart(t) /\ pc'[t] = "idle" /\ idx'[t] = 1 /\ payload' = payload
            /\ pc[t] \in {"release", "surrender"} /\ whole' = Result(t)
        BY <2>9 DEF Release, Surrender, Idle, Holds, Holding, Result, OneCommit, Prepared
      <3>2. RecordIsOneCommit'
        BY ZenonT(30), <3>1, VisitedRecord DEF RecordIsOneCommit, RecordHolds, Recorded
      <3>3. Prepared(t)' /\ Progress(t)'
        BY <3>1 DEF Prepared, Progress, Holds, Holding
      <3> QED
        BY <1>a, <3>1, <3>2, <3>3 DEF OneCommit
    <2>10. CASE Unflag(t)
      <3>1. /\ Holds(t) /\ Apart(t) /\ pc'[t] = "clear" /\ idx'[t] = 1 /\ tries'[t] > 0
            /\ state' = state \ {"contended"}
        BY <2>10 DEF Unflag, Holds, Holding
      <3>2. Prepared(t)' /\ Progress(t)'
        BY <3>1 DEF Prepared, Progress, Stored, Visited, Passed, Forgetting, Clearing, Slots
      <3> QED
        BY <3>1, <3>2, <1>c, <1>d
    <2>11. CASE ClearSlot(t)
      <3>1. /\ Holds(t) /\ Apart(t) /\ pc'[t] = "store" /\ pc[t] = "clear" /\ Clearing(t)
            /\ value'[t] = NoPair /\ left'[t] = Fields
            /\ UNCHANGED <<state, payload, whole, idx, tries, update>>
        BY <2>11 DEF ClearSlot, Odd, Holds, Holding, OneCommit, Prepared
      <3>2. Prepared(t)' /\ Stored(t)' /\ Forgetting(t)'
        BY <3>1 DEF Prepared, Stored, Forgetting, Clearing
      <3>3. Visited(t)'
        BY <3>1, <1>d DEF Visited, Passed, Final, Clearing
      <3> QED
        BY <3>1, <3>2, <3>3, <1>c, <1>d DEF Progress
    <2> QED
      BY <1>3, <2>1, <2>2, <2>3, <2>4, <2>5, <2>6, <2>7, <2>8, <2>9, <2>10, <2>11 DEF Write
  <1>4. CASE ReadVersion \/ Load \/ Validate
    <2> PICK t \in Threads : t = Worker
      OBVIOUS
    <2>1. /\ Apart(t) /\ UNCHANGED record /\ UNCHANGED whole
          /\ pc'[t] \in {"version", "load", "validate", "idle"}
          /\ pc'[t] = "idle" => idx'[t] = 1
      BY <1>4 DEF ReadVersion, Load, Validate, Retry, NextSlot, Done, Idle, record, writing, Goto, At
    <2>2. UNCHANGED <<state, payload, whole>>
      BY <2>1 DEF record
    <2>3. Prepared(t)' /\ ~ Holds(t)'
      BY <2>1 DEF Prepared, Holds, Holding
    <2> QED
      BY <2>1, <2>2, <2>3, <1>b
  <1>5. CASE UNCHANGED vars
    <2>1. Apart(Worker) /\ UNCHANGED <<payload, whole, state, pc, idx, value, left, tries, update>>
      BY <1>5 DEF vars, record, writing
    <2>2. \A t \in Threads : Prepared(t)' /\ Progress(t)'
      BY <2>1 DEF OneCommit, Prepared, Progress, Holds, Stored, Visited, Passed, Final, Forgetting, Untouched, Clearing, Wanted
    <2>3. RecordIsOneCommit'
      BY <2>1 DEF OneCommit, RecordIsOneCommit, Unowned
    <2> QED
      BY <2>2, <2>3 DEF OneCommit
  <1> QED
    BY <1>1, <1>2, <1>3, <1>4, <1>5, CommitsAreLists DEF Next

(* While nobody writes, the record is what one commit left, less the       *)
(* monitors forgotten since, or it is empty.                               *)
THEOREM RecordIsWhole == Spec => []RecordIsOneCommit
  <1>1. OneCommit => RecordIsOneCommit
    BY DEF OneCommit
  <1>2. Init => Typed /\ OneWriter /\ OneCommit
    BY TypingInit, OneCommitInit DEF Init, OneWriter, Holds, Holding
  <1> QED
    BY <1>1, <1>2, TypingStep, OneWriterStep, OneCommitStep, PTL DEF Spec

-----------------------------------------------------------------------------
(* A loss is seen, and what is remembered expires.                         *)

LEMMA LossIsSeenStep == Typed /\ OneWriter /\ LossIsSeen /\ [Next]_vars => LossIsSeen'
  <1> SUFFICES ASSUME Typed, OneWriter, LossIsSeen, [Next]_vars, turnedAway' PROVE LossIsSeen'
    BY DEF LossIsSeen
  <1>0. pc \in [Threads -> Labels] /\ tries \in [Threads -> Nat] /\ Worker \in Threads
    BY DEF Typed, TypeOK, WriterTypes, Threads
  <1> USE <1>0 DEF Goto
  (* The flag stays up, or the holder that took it down has not moved.      *)
  <1>a. ASSUME turnedAway' = turnedAway, state \subseteq state', NEW t \in Threads,
               \A u \in Threads \ {t} : pc'[u] = pc[u] /\ tries'[u] = tries[u],
               Holds(t) /\ Clearing(t) => Holds(t)' /\ Clearing(t)'
        PROVE LossIsSeen'
    BY <1>a DEF LossIsSeen, Holds, Clearing
  <1>1. ASSUME NEW t \in Threads, NEW c \in Commits, StartApply(t, c) PROVE LossIsSeen'
    BY <1>1, <1>a DEF StartApply, record, Holds, Holding
  <1>2. ASSUME NEW m \in Monitors, StartForget(m) \/ StartGet(m) PROVE LossIsSeen'
    BY <1>2, <1>a DEF StartForget, StartGet, record, Holds, Holding
  <1>3. ASSUME NEW t \in Threads, Write(t) PROVE LossIsSeen'
    <2>1. CASE Acquire(t)
      BY <2>1, <1>a DEF Acquire, Holds, Holding
    <2>2. CASE Flag(t)
      <3>1. CASE state = {"writing"}
        BY <2>2, <3>1 DEF Flag, LossIsSeen
      <3>2. CASE state # {"writing"}
        BY <2>2, <3>2, <1>a DEF Flag, Holds, Holding
      <3> QED
        BY <3>1, <3>2
    <2>3. CASE Exhausted(t)
      BY <2>3 DEF Exhausted, LossIsSeen
    <2>4. CASE Lost(t)
      BY <2>4, <1>a DEF Lost, Idle, Holds, Holding
    <2>5. CASE VisitSlot(t)
      <3>1. pc'[t] \in Holding /\ UNCHANGED <<state, tries, turnedAway>>
            /\ \A u \in Threads \ {t} : pc'[u] = pc[u]
        BY <2>5 DEF VisitSlot, Odd, Holding
      <3> QED
        BY <3>1, <1>a DEF Holds, Clearing
    <2>6. CASE Store(t)
      <3>1. pc'[t] \in Holding /\ UNCHANGED <<state, tries, turnedAway>>
            /\ \A u \in Threads \ {t} : pc'[u] = pc[u]
        BY <2>6 DEF Store, Holding
      <3> QED
        BY <3>1, <1>a DEF Holds, Clearing
    <2>7. CASE Even(t)
      <3>1. pc'[t] \in Holding /\ UNCHANGED <<state, tries, turnedAway>>
            /\ \A u \in Threads \ {t} : pc'[u] = pc[u]
        BY <2>7 DEF Even, Holding
      <3> QED
        BY <3>1, <1>a DEF Holds, Clearing
    <2>8. CASE Bump(t)
      <3>1. pc'[t] \in Holding /\ UNCHANGED <<state, tries, turnedAway>>
            /\ \A u \in Threads \ {t} : pc'[u] = pc[u]
        BY <2>8 DEF Bump, Holding, writing
      <3> QED
        BY <3>1, <1>a DEF Holds, Clearing
    <2>9. CASE Release(t) \/ Surrender(t)
      BY <2>9 DEF Release, Surrender
    <2>10. CASE Unflag(t)
      BY <2>10 DEF Unflag, LossIsSeen, Holds, Holding, Clearing
    <2>11. CASE ClearSlot(t)
      <3>1. pc'[t] \in Holding /\ UNCHANGED <<state, tries, turnedAway>>
            /\ \A u \in Threads \ {t} : pc'[u] = pc[u]
        BY <2>11 DEF ClearSlot, Odd, Holding
      <3> QED
        BY <3>1, <1>a DEF Holds, Clearing
    <2> QED
      BY <1>3, <2>1, <2>2, <2>3, <2>4, <2>5, <2>6, <2>7, <2>8, <2>9, <2>10, <2>11 DEF Write
  <1>4. CASE ReadVersion \/ Load \/ Validate
    <2>1. /\ pc[Worker] \notin Holding /\ UNCHANGED <<state, turnedAway>>
          /\ \A u \in Threads \ {Worker} : pc'[u] = pc[u] /\ tries'[u] = tries[u]
      BY <1>4 DEF ReadVersion, Load, Validate, Retry, NextSlot, Done, Idle, record, writing, Holding
    <2> QED
      BY <2>1, <1>a DEF Holds
  <1>5. CASE UNCHANGED vars
    BY <1>5 DEF vars, record, writing, LossIsSeen, Holds, Clearing
  <1> QED
    BY <1>1, <1>2, <1>3, <1>4, <1>5, CommitsAreLists DEF Next, Threads

(* Giving the token back after somebody was turned away leaves an empty    *)
(* record.                                                                 *)
THEOREM LossesClear == Spec => LossClears
  <1>1. Init => Typed /\ OneWriter /\ OneCommit /\ LossIsSeen
    BY TypingInit, OneCommitInit DEF Init, OneWriter, Holds, Holding, LossIsSeen
  <1>2. ASSUME Typed, OneWriter, OneCommit, LossIsSeen, [Next]_vars,
               "writing" \in state, "writing" \notin state', turnedAway
        PROVE \A s \in Slots : payload'[s] = EmptySlot
    <2>1. PICK t \in Threads : Release(t) \/ Surrender(t)
      <3>1. ASSUME NEW t \in Threads, Write(t) PROVE Release(t) \/ Surrender(t)
        BY <1>2, <3>1 DEF Write, Acquire, Flag, Exhausted, Lost, VisitSlot, Store, Even, Bump, Unflag, ClearSlot
      <3>2. ~ UNCHANGED state
        BY <1>2
      <3> QED
        BY <1>2, <3>1, <3>2 DEF Next, StartApply, StartForget, StartGet, ReadVersion, Load, Validate, record, vars
    <2>2. Holds(t) /\ pc[t] \in {"release", "surrender"} /\ payload' = payload
      BY <2>1 DEF Release, Surrender, Holds, Holding
    <2>3. Clearing(t)
      <3>1. CASE Release(t)
        BY <1>2, <2>2, <3>1 DEF Release, Uncontended, LossIsSeen, OneWriter
      <3>2. CASE Surrender(t)
        BY <1>2, <3>2 DEF Surrender, OneCommit, Prepared
      <3> QED
        BY <2>1, <3>1, <3>2
    <2> QED
      BY <1>2, <2>2, <2>3, VisitedRecord
  <1> QED
    BY <1>1, <1>2, TypingStep, OneWriterStep, OneCommitStep, LossIsSeenStep, PTL DEF Spec, LossClears

LEMMA AnswerStandsStep ==
  Typed /\ OneWriter /\ Stable /\ OneCommit /\ AnswerStands /\ [Next]_vars => AnswerStands'
  <1> SUFFICES ASSUME Typed, OneWriter, Stable, OneCommit, AnswerStands, [Next]_vars, answer' # NoPair
               PROVE AnswerStands'
    BY DEF AnswerStands
  <1>0. pc \in [Threads -> Labels] /\ Worker \in Threads
    BY DEF Typed, TypeOK, WriterTypes, Threads
  <1> USE <1>0 DEF Goto
  (* A step that leaves the record, and leads nobody to the release.        *)
  <1>a. ASSUME answer' = answer, payload' = payload, "writing" \notin state' => "writing" \notin state,
               \A u \in Threads : pc'[u] \in {"release", "surrender"} => pc[u] = pc'[u]
        PROVE AnswerStands'
    BY <1>a DEF AnswerStands, Unowned
  <1>b. ASSUME NEW t \in Threads, Holds(t)', "writing" \in state', pc'[t] \notin {"release", "surrender"}
        PROVE AnswerStands'
    BY <1>b, OneWriterStep DEF OneWriter, AnswerStands, Unowned, Holds, Holding
  <1>1. ASSUME NEW t \in Threads, NEW c \in Commits, StartApply(t, c) PROVE AnswerStands'
    BY <1>1, <1>a DEF StartApply, record, reading
  <1>2. ASSUME NEW m \in Monitors, StartForget(m) PROVE AnswerStands'
    BY <1>2, <1>a DEF StartForget, record, reading
  <1>3. ASSUME NEW m \in Monitors, StartGet(m) PROVE AnswerStands'
    BY <1>3 DEF StartGet
  <1>4. ASSUME NEW t \in Threads, Write(t) PROVE AnswerStands'
    <2>1. CASE Acquire(t)
      BY <2>1, <1>a DEF Acquire, reading, Unowned
    <2>2. CASE Flag(t)
      BY <2>2, <1>a DEF Flag, reading
    <2>3. CASE Exhausted(t)
      BY <2>3, <1>a DEF Exhausted, reading
    <2>4. CASE Lost(t) \/ Bump(t)
      BY <2>4 DEF Lost, Bump, NewGeneration
    <2>5. CASE VisitSlot(t)
      <3>1. pc'[t] \in {"slot", "store", "bump"} /\ pc[t] = "slot" /\ state' = state
        BY <2>5 DEF VisitSlot, Odd
      <3> QED
        BY <3>1, <1>b DEF OneWriter, Holds, Holding
    <2>6. CASE Store(t)
      <3>1. pc'[t] \in {"store", "even"} /\ pc[t] = "store" /\ state' = state
        BY <2>6 DEF Store
      <3> QED
        BY <3>1, <1>b DEF OneWriter, Holds, Holding
    <2>7. CASE Even(t)
      <3>1. pc'[t] \in {"slot", "clear", "bump"} /\ pc[t] = "even" /\ state' = state
        BY <2>7 DEF Even
      <3> QED
        BY <3>1, <1>b DEF OneWriter, Holds, Holding
    <2>8. CASE Release(t) \/ Surrender(t)
      <3>1. answer' = answer /\ payload' = payload /\ pc[t] \in {"release", "surrender"}
        BY <2>8 DEF Release, Surrender, reading
      <3> QED
        BY <3>1 DEF AnswerStands
    <2>9. CASE Unflag(t)
      <3>1. pc'[t] = "clear" /\ pc[t] = "release" /\ state' = state \ {"contended"}
        BY <2>9 DEF Unflag
      <3> QED
        BY <3>1, <1>b DEF OneWriter, Holds, Holding
    <2>10. CASE ClearSlot(t)
      BY <2>10, <1>a DEF ClearSlot, Odd, reading
    <2> QED
      BY <1>4, <2>1, <2>2, <2>3, <2>4, <2>5, <2>6, <2>7, <2>8, <2>9, <2>10 DEF Write
  <1>5. CASE ReadVersion \/ Load \/ Validate
    <2>1. /\ payload' = payload /\ state' = state
          /\ \A u \in Threads : pc'[u] \in {"release", "surrender"} => pc[u] = pc'[u]
      BY <1>5 DEF ReadVersion, Load, Validate, Retry, NextSlot, Done, Idle, record, writing, At
    <2>2. CASE answer' = answer
      BY <2>1, <2>2, <1>a
    (* A mode was found, in a slot that has not changed since.             *)
    <2>3. CASE answer' # answer
      <3> DEFINE s == idx[Worker]
      <3>1. /\ pc[Worker] = "validate" /\ Unchanged /\ copy.monitor = update[Worker] /\ copy.size # Empty
            /\ answer' = [monitor |-> copy.monitor, mode |-> copy.size]
        BY <1>5, <2>3 DEF ReadVersion, Load, Validate, Retry, NextSlot, Done, record, writing
      <3>2. /\ s \in Slots /\ payload[s] = copy /\ payload[s] # EmptySlot /\ ~ Holds(Worker)
            /\ copy \in PayloadType
        <4>1. copy = payload[s]
          BY <3>1 DEF Stable, ReadsStable, Unchanged
        <4>2. EmptySlot.size = Empty
          BY DEF EmptySlot, Payload, NoPair
        <4> QED
          BY <3>1, <4>1, <4>2 DEF Typed, TypeOK, WriterTypes, ReaderTypes, Holds, Holding
      <3>3. ASSUME NEW p \in PairOrNone, payload[s] = Payload(p) PROVE payload[s] = Payload(answer')
        BY <3>1, <3>2, <3>3 DEF Payload, PairOrNone, Pairs, NoPair
      <3>4. ASSUME Unowned PROVE \E p \in PairOrNone : payload[s] = Payload(p)
        <4>1. payload[s] \in {Payload(p) : p \in whole} /\ whole \subseteq Pairs
          BY <3>2, <3>4 DEF OneCommit, RecordIsOneCommit, Typed, TypeOK, HistoryTypes
        <4> QED
          BY <4>1 DEF PairOrNone
      <3>5. ASSUME NEW t \in Threads, pc[t] \in {"release", "surrender"}
            PROVE \E p \in PairOrNone : payload[s] = Payload(p)
        <4>1. Final(t, s) /\ t # Worker
          BY <3>2, <3>5 DEF OneCommit, Progress, Visited, Passed, Holds, Holding
        <4>2. payload[s] = Payload(Wanted(t, s))
          BY <3>2, <4>1 DEF Final
        <4> QED
          BY <3>2, <4>2, WantedPairs
      <3> QED
        BY <2>1, <3>2, <3>3, <3>4, <3>5 DEF AnswerStands, Unowned
    <2> QED
      BY <2>2, <2>3
  <1>6. CASE UNCHANGED vars
    BY <1>6, <1>a DEF vars, record, reading
  <1> QED
    BY <1>1, <1>2, <1>3, <1>4, <1>5, <1>6, CommitsAreLists DEF Next, Threads

(* A refusal remembered under the current generation names a mode that is  *)
(* still recorded, unless a writer is at work.                             *)
THEOREM TokensExpire == Spec => []TokenExpires
  <1>1. Init => Typed /\ OneWriter /\ Stable /\ OneCommit /\ AnswerStands
    <2> SUFFICES ASSUME Init PROVE Stable /\ OneWriter /\ AnswerStands
      BY TypingInit, OneCommitInit
    <2>1. Worker \in Threads
      BY DEF Threads
    <2>2. OneWriter /\ AnswerStands
      BY DEF Init, OneWriter, Holds, Holding, AnswerStands
    <2>3. Stable
      BY <2>1, Alternates DEF Init, Stable, Parity, Storing, ReadsStable
    <2> QED
      BY <2>2, <2>3
  <1>2. Typed /\ OneCommit /\ AnswerStands => TokenExpires
    <2> SUFFICES ASSUME Typed, OneCommit, AnswerStands, answer # NoPair, Unowned PROVE answer \in whole
      BY DEF TokenExpires
    <2>1. PICK s \in Slots : payload[s] = Payload(answer)
      BY DEF AnswerStands
    <2>2. answer \in PairOrNone /\ whole \subseteq Pairs
      BY DEF Typed, TypeOK, ReaderTypes, HistoryTypes
    <2>3. payload[s] # EmptySlot
      BY <2>1, <2>2, PayloadsDiffer
    <2>4. PICK p \in whole : payload[s] = Payload(p)
      BY <2>3 DEF OneCommit, RecordIsOneCommit
    <2> QED
      BY <2>1, <2>2, <2>4, PayloadsDiffer
  <1> QED
    BY <1>1, <1>2, TypingStep, OneWriterStep, StableStep, OneCommitStep, AnswerStandsStep, PTL DEF Spec
=============================================================================
