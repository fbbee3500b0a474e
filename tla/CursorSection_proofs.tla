------------------------- MODULE CursorSection_proofs -------------------------
(* Theorems about CursorSection, for any number of arrivals, shapes and      *)
(* parts.  First the workers' ends, which need no more than who holds which  *)
(* CursorRt; then the shape, which needs only that one worker writes it.     *)
EXTENDS CursorSection, TLAPS

-----------------------------------------------------------------------------
(* The inductive invariant of the threads that start and stop workers.     *)

Plugging == {"insert", "displaced", "close displaced", "arrive", "create", "zero"}

Places ==
  /\ at["pw"] \in {"idle", "drain", "drained", "close"}
  /\ at["fx"] \notin {"drain", "drained"}
  /\ at["pw"] \in {"idle", "drain"} => held["pw"] = {}
  /\ at["fx"] \in {"idle", "plug", "insert", "arrive", "create", "zero"} => held["fx"] = {}

Adapters ==
  /\ gone \subseteq born \cup {mon} /\ departed \subseteq born /\ entry.mon \subseteq born
  /\ ~ up => born \subseteq gone
  /\ at["pw"] # "idle" => ~ up
  /\ at["fx"] = "plug" => mon \notin born /\ (~ up => mon \in gone)
  /\ at["fx"] # "plug" => gone \subseteq born
  /\ at["fx"] \notin {"idle", "plug"} => mon \in born

Births ==
  /\ \A w \in Workers :
       /\ pc[w] = "unborn" <=> join[w] = "none"
       /\ join[w] = "joined" => pc[w] = "exit"
       /\ w \notin born => pc[w] = "unborn"
  /\ at["fx"] \in Plugging => pc[mon] = "unborn" /\ mon \notin departed
  /\ at["fx"] \in {"plug", "insert"} => entry.mon \subseteq gone

(* Who holds a CursorRt whose worker has not been joined or detached.      *)
Cursors ==
  /\ \A v, w \in entry.mon : v = w
  /\ \A w \in entry.cursor : w \in entry.mon /\ join[w] # "none"
  /\ \A t \in Threads : \A w \in held[t] :
       /\ join[w] # "none"
       /\ at[t] \in {"depart", "close", "close displaced"} => join[w] # "running"
  /\ \A w \in Workers :
       join[w] = "running" => w \in entry.cursor \cup held["fx"] \cup held["pw"]

(* What the effects worker may rely on between two of its steps, whatever  *)
(* a final exit does meanwhile.                                            *)
Halfway ==
  /\ at["fx"] \in {"displaced", "close displaced", "arrive", "create", "zero", "store",
                   "stop", "depart"} =>
       /\ entry.cursor = {}
       /\ entry.mon = {mon} \/ (entry.mon = {} /\ mon \in gone)
  /\ at["fx"] \in {"stop", "depart"} => held["fx"] \subseteq {mon} /\ mon \notin held["pw"]
  /\ at["fx"] \in {"store", "discard"} => held["fx"] = {mon}
  /\ at["fx"] = "discard" => mon \in gone
  /\ at["fx"] \in {"displaced", "close displaced"} => held["fx"] \subseteq gone
  /\ at["fx"] = "close" => held["fx"] \subseteq departed \cup gone
  /\ held["pw"] \subseteq gone /\ held["pw"] \cap entry.mon = {}

Ends ==
  /\ \A w \in departed : join[w] # "running"
  /\ \A w \in closed : join[w] = "joined" /\ w \in departed \cup gone

Inv == TypeOK /\ Places /\ Adapters /\ Births /\ Cursors /\ Halfway /\ Ends

LEMMA TypeInit == Init => TypeOK
  <1> SUFFICES ASSUME Init PROVE TypeOK
    OBVIOUS
  <1> USE DEF Init
  <1>1. SectionTypes /\ LoopTypes
    BY DEF SectionTypes, LoopTypes, Generations, Fresh
  <1>2. RuntimeTypes /\ ThreadTypes
    BY DEF RuntimeTypes, ThreadTypes, Labels, Stopping
  <1>3. ShellTypes /\ HostTypes
    BY DEF ShellTypes, HostTypes, Entries, NoEntry, Generations, Fresh
  <1> QED
    BY <1>1, <1>2, <1>3 DEF TypeOK

LEMMA InvInit == Init => Inv
  <1> SUFFICES ASSUME Init PROVE Inv
    OBVIOUS
  <1> USE DEF Init, NoEntry, Threads
  <1>1. Places /\ Adapters /\ Births
    BY DEF Places, Adapters, Births, Plugging
  <1>2. Cursors /\ Halfway /\ Ends
    BY DEF Cursors, Halfway, Ends
  <1> QED
    BY <1>1, <1>2, TypeInit DEF Inv

-----------------------------------------------------------------------------
(* The types.                                                              *)

LEMMA TypeLoop ==
  ASSUME TypeOK, NEW w \in Workers, CursorLoop(w)
  PROVE  TypeOK'
  <1> USE DEF TypeOK
  <1>a. ASSUME Quiet PROVE RuntimeTypes' /\ ThreadTypes' /\ ShellTypes' /\ HostTypes'
    BY <1>a DEF Quiet, runtime, control, os, host, RuntimeTypes, ThreadTypes, ShellTypes, HostTypes
  <1>b. ASSUME NEW from, NEW to \in {"check", "setup", "loop", "wait", "recheck", "query",
                                    "load", "odd", "write", "exit"},
               Worker(w, from, to), UNCHANGED <<start, new, todo>>
        PROVE LoopTypes'
    BY <1>b DEF Worker, LoopTypes
  <1>c. ASSUME UNCHANGED section PROVE SectionTypes'
    BY <1>c DEF section, SectionTypes
  <1>1. CASE CheckStop(w)
    <2>1. \E from, to \in {"check", "setup", "loop", "wait", "recheck", "query", "exit"} :
            Worker(w, from, to)
      BY <1>1 DEF CheckStop, UnlessStopped
    <2> QED
      BY <1>1, <2>1, <1>a, <1>b, <1>c DEF CheckStop
  <1>2. CASE Setup(w)
    BY <1>2, <1>a, <1>b, <1>c DEF Setup
  <1>3. CASE Wait(w)
    BY <1>3, <1>a, <1>b, <1>c DEF Wait
  <1>4. CASE Query(w)
    <2>1. LoopTypes'
      BY <1>4 DEF Query, Worker, LoopTypes
    <2> QED
      BY <1>4, <2>1, <1>a, <1>c DEF Query
  <1>5. CASE LoadStart(w)
    <2>1. LoopTypes'
      BY <1>5 DEF LoadStart, Worker, LoopTypes, SectionTypes
    <2> QED
      BY <1>5, <2>1, <1>a, <1>c DEF LoadStart
  <1>6. CASE StoreOdd(w)
    <2>1. LoopTypes'
      BY <1>6 DEF StoreOdd, Worker, LoopTypes
    <2>2. SectionTypes'
      BY <1>6 DEF StoreOdd, Odd, SectionTypes, LoopTypes, Generations
    <2> QED
      BY <1>6, <2>1, <2>2, <1>a DEF StoreOdd
  <1>7. ASSUME NEW p \in Parts, WritePart(w, p) PROVE TypeOK'
    <2>1. LoopTypes'
      BY <1>7 DEF WritePart, Worker, LoopTypes
    <2>2. SectionTypes'
      BY <1>7 DEF WritePart, SectionTypes, LoopTypes
    <2> QED
      BY <1>7, <2>1, <2>2, <1>a DEF WritePart
  <1>8. CASE StoreEven(w)
    <2>1. SectionTypes'
      BY <1>8 DEF StoreEven, NextEven, SectionTypes, LoopTypes, Generations
    <2> QED
      BY <1>8, <2>1, <1>a, <1>b DEF StoreEven
  <1> QED
    BY <1>1, <1>2, <1>3, <1>4, <1>5, <1>6, <1>7, <1>8 DEF CursorLoop

LEMMA TypeStop ==
  ASSUME TypeOK, NEW t \in Threads, Stop(t)
  PROVE  TypeOK'
  <1> USE DEF TypeOK
  <1>1. SectionTypes' /\ LoopTypes' /\ ShellTypes' /\ HostTypes'
    BY DEF Stop, AskToStop, Joined, TimedOut, Close, Calm, section, loop, os, host,
           SectionTypes, LoopTypes, ShellTypes, HostTypes
  <1>2. RuntimeTypes'
    <2>1. CASE AskToStop(t)
      BY <2>1 DEF AskToStop, Calm, RuntimeTypes, ThreadTypes
    <2>2. CASE Joined(t) \/ TimedOut(t)
      BY <2>2 DEF Joined, TimedOut, Calm, RuntimeTypes
    <2>3. CASE Close(t)
      BY <2>3 DEF Close, RuntimeTypes, ThreadTypes
    <2> QED
      BY <2>1, <2>2, <2>3 DEF Stop
  <1>3. ThreadTypes'
    <2>1. UNCHANGED <<mon, duck, left>> /\ (UNCHANGED held \/ held' = [held EXCEPT ![t] = {}])
      BY DEF Stop, AskToStop, Joined, TimedOut, Close, Calm
    <2>2. UNCHANGED at \/ \E l \in Labels : at' = [at EXCEPT ![t] = l]
      BY DEF Stop, AskToStop, Joined, TimedOut, Close, AfterStop, Labels
    <2> QED
      BY <2>1, <2>2 DEF ThreadTypes
  <1> QED
    BY <1>1, <1>2, <1>3

LEMMA TypeOthers ==
  ASSUME TypeOK, PlugOrDepart \/ FinalExit \/ Drain \/ AdapterUp \/ Shape
  PROVE  TypeOK'
  <1> USE DEF TypeOK
  <1>a. ASSUME NEW from, NEW to \in Labels, Effects(from, to),
               UNCHANGED <<mon, duck, left>>, held' \in [Threads -> SUBSET Workers]
        PROVE ThreadTypes'
    BY <1>a DEF Effects, ThreadTypes
  <1>b. ASSUME Still PROVE LoopTypes' /\ RuntimeTypes' /\ UNCHANGED duck /\ UNCHANGED host
    BY <1>b DEF Still, loop, runtime, LoopTypes, RuntimeTypes
  <1>c. ASSUME UNCHANGED section PROVE SectionTypes'
    BY <1>c DEF section, SectionTypes
  <1>d. ASSUME UNCHANGED host, crossed' \in BOOLEAN, shared' \in BOOLEAN PROVE HostTypes'
    BY <1>d DEF host, HostTypes
  <1>e. ASSUME UNCHANGED os PROVE ShellTypes'
    BY <1>e DEF os, ShellTypes
  <1>f. crossed \in BOOLEAN /\ shared \in BOOLEAN /\ held \in [Threads -> SUBSET Workers]
        /\ entry.mon \in SUBSET Workers /\ entry.cursor \in SUBSET Workers
        /\ [held EXCEPT !["fx"] = {}] \in [Threads -> SUBSET Workers]
        /\ [held EXCEPT !["fx"] = entry.cursor] \in [Threads -> SUBSET Workers]
        /\ "fx" \in Threads /\ "pw" \in Threads /\ NoEntry \in Entries
    BY DEF HostTypes, ThreadTypes, ShellTypes, Entries, Threads, NoEntry
  <1>1. ASSUME \/ \E w \in Workers : Plug(w)
               \/ CreateMonitor
        PROVE  TypeOK'
    <2>1. ThreadTypes'
      BY <1>1, <1>b DEF Plug, CreateMonitor, Effects, ThreadTypes, Labels
    <2>2. ShellTypes'
      BY <1>1 DEF Plug, CreateMonitor, os, ShellTypes, ThreadTypes
    <2> QED
      BY <1>1, <2>1, <2>2, <1>b, <1>c, <1>d, <1>f DEF Plug, CreateMonitor
  <1>2. CASE Insert
    <2>1. ThreadTypes'
      BY <1>2, <1>a, <1>b, <1>f DEF Insert, Labels, Stopping
    <2>2. ShellTypes'
      BY <1>2 DEF Insert, ShellTypes, Entries, ThreadTypes
    <2> QED
      BY <1>2, <2>1, <2>2, <1>b, <1>c, <1>d, <1>f DEF Insert
  <1>3. CASE Arrive
    <2>1. ThreadTypes'
      BY <1>3, <1>a, <1>b, <1>f DEF Arrive, Labels
    <2>2. ShellTypes'
      BY <1>3, <1>f DEF Arrive, ShellTypes
    <2> QED
      BY <1>3, <2>1, <2>2, <1>b, <1>c, <1>d, <1>f DEF Arrive
  <1>4. CASE Create
    <2>1. ThreadTypes'
      BY <1>4, <1>b DEF Create, Effects, ThreadTypes, Labels
    <2>2. crossed' \in BOOLEAN /\ shared' \in BOOLEAN
      BY <1>4, <1>f DEF Create
    <2> QED
      BY <1>4, <2>1, <2>2, <1>b, <1>c, <1>d, <1>e DEF Create
  <1>5. ASSUME NEW p \in left, Zero(p) PROVE TypeOK'
    <2>1. ThreadTypes'
      BY <1>5, <1>b DEF Zero, Effects, ThreadTypes, Labels
    <2>2. SectionTypes'
      <3>1. Fresh \in Generations /\ gen \in Generations /\ part \in [Parts -> Shapes \cup {Blank}]
        BY DEF Fresh, Generations, SectionTypes
      <3>2. CASE p = "gen"
        BY <3>1, <3>2, <1>5 DEF Zero, SectionTypes
      <3>3. CASE p # "gen"
        BY <3>1, <3>3, <1>5 DEF Zero, SectionTypes
      <3> QED
        BY <3>2, <3>3
    <2> QED
      BY <1>5, <2>1, <2>2, <1>b, <1>d, <1>e, <1>f DEF Zero
  <1>6. CASE Spawn
    <2>1. LoopTypes' /\ RuntimeTypes'
      BY <1>6 DEF Spawn, LoopTypes, RuntimeTypes
    <2>2. ThreadTypes'
      <3>1. {mon} \in SUBSET Workers /\ [held EXCEPT !["fx"] = {mon}] \in [Threads -> SUBSET Workers]
        BY <1>f DEF ThreadTypes
      <3>2. held' \in [Threads -> SUBSET Workers] /\ UNCHANGED <<mon, duck, left>>
        BY <1>6, <1>f, <3>1 DEF Spawn
      <3>3. Effects("zero", "store") \/ Effects("zero", "idle")
        BY <1>6 DEF Spawn
      <3> QED
        BY <3>2, <3>3, <1>a DEF Labels
    <2> QED
      BY <1>6, <2>1, <2>2, <1>c, <1>d, <1>e, <1>f DEF Spawn
  <1>7. CASE Store
    <2>1. ThreadTypes'
      BY <1>7, <1>a, <1>b, <1>f DEF Store, Labels, Stopping
    <2>2. ShellTypes'
      BY <1>7, <1>f DEF Store, ShellTypes, Entries
    <2> QED
      BY <1>7, <2>1, <2>2, <1>b, <1>c, <1>d, <1>f DEF Store
  <1>8. ASSUME NEW ducks \in BOOLEAN, Take(ducks) PROVE TypeOK'
    <2>1. ThreadTypes'
      BY <1>8, <1>f DEF Take, Effects, ThreadTypes, Labels, Stopping
    <2>2. ShellTypes'
      BY <1>8, <1>f DEF Take, ShellTypes, Entries
    <2>3. LoopTypes' /\ RuntimeTypes'
      BY <1>8 DEF Take, loop, runtime, LoopTypes, RuntimeTypes
    <2> QED
      BY <1>8, <2>1, <2>2, <2>3, <1>c, <1>d, <1>f DEF Take
  <1>9. CASE Depart
    <2>1. ThreadTypes'
      BY <1>9, <1>a, <1>b, <1>f DEF Depart, Labels
    <2>2. ShellTypes'
      BY <1>9, <1>f DEF Depart, ShellTypes, ThreadTypes
    <2> QED
      BY <1>9, <2>1, <2>2, <1>b, <1>c, <1>d, <1>f DEF Depart
  <1>10. CASE HandBack
    <2>1. ThreadTypes'
      BY <1>10, <1>a, <1>b, <1>f DEF HandBack, Labels
    <2>2. ShellTypes'
      BY <1>10, <1>f DEF HandBack, ShellTypes, Entries
    <2> QED
      BY <1>10, <2>1, <2>2, <1>b, <1>c, <1>d, <1>f DEF HandBack
  <1>11. CASE FinalExit \/ Drain \/ AdapterUp
    <2>1. ThreadTypes'
      BY <1>11, <1>b, <1>f DEF FinalExit, Drain, AdapterUp, ThreadTypes, Labels, Stopping
    <2>2. ShellTypes'
      BY <1>11, <1>f DEF FinalExit, Drain, AdapterUp, ShellTypes, ThreadTypes
    <2>3. Still /\ UNCHANGED <<section, crossed, shared>>
      BY <1>11 DEF FinalExit, Drain, AdapterUp
    <2> QED
      BY <2>1, <2>2, <2>3, <1>b, <1>c, <1>d, <1>f
  <1>12. CASE Shape
    <2>1. SectionTypes' /\ LoopTypes' /\ RuntimeTypes' /\ ThreadTypes' /\ ShellTypes'
      BY <1>12 DEF Shape, HostLoad, HostCopy, HostValidate, Around, section, loop, runtime, control, os,
                   SectionTypes, LoopTypes, RuntimeTypes, ThreadTypes, ShellTypes
    <2>2. HostTypes'
      BY <1>12 DEF Shape, HostLoad, HostCopy, HostValidate, Around, HostTypes, SectionTypes
    <2> QED
      BY <2>1, <2>2
  <1> QED
    BY <1>1, <1>2, <1>3, <1>4, <1>5, <1>6, <1>7, <1>8, <1>9, <1>10, <1>11, <1>12 DEF PlugOrDepart

LEMMA TypeStep == TypeOK /\ [Next]_vars => TypeOK'
  <1>1. ASSUME TypeOK, UNCHANGED vars PROVE TypeOK'
    BY <1>1 DEF vars, section, loop, runtime, control, os, host, TypeOK,
                SectionTypes, LoopTypes, RuntimeTypes, ThreadTypes, ShellTypes, HostTypes
  <1> QED
    BY <1>1, TypeLoop, TypeStop, TypeOthers DEF Next

(* Every variable keeps its type.                                          *)
THEOREM TypeCorrect == Spec => []TypeOK
  BY TypeInit, TypeStep, PTL DEF Spec

LEMMA InvOthers ==
  ASSUME Inv, PlugOrDepart \/ FinalExit \/ Drain \/ AdapterUp
  PROVE  Places' /\ Adapters' /\ Births' /\ Cursors' /\ Halfway' /\ Ends'
  <1> USE DEF Threads, Plugging
  <1>t. /\ at \in [Threads -> Labels] /\ held \in [Threads -> SUBSET Workers] /\ mon \in Workers
        /\ join \in [Workers -> {"none", "running", "joined", "detached"}]
        /\ pc \in [Workers -> {pc[w] : w \in Workers}] /\ entry = [mon |-> entry.mon, cursor |-> entry.cursor]
        /\ entry.mon \subseteq Workers /\ entry.cursor \subseteq Workers
        /\ born \subseteq Workers /\ gone \subseteq Workers /\ departed \subseteq Workers
    BY DEF Inv, TypeOK, ThreadTypes, RuntimeTypes, LoopTypes, ShellTypes, Entries
  <1>i. Places /\ Adapters /\ Births /\ Cursors /\ Halfway /\ Ends
    BY DEF Inv
  <1>1. ASSUME \/ \E w \in Workers : Plug(w)
               \/ CreateMonitor
        PROVE  Places' /\ Adapters' /\ Births' /\ Cursors' /\ Halfway' /\ Ends'
    <2>a. CASE \E w \in Workers : Plug(w)
      <3>a. /\ at["fx"] = "idle" /\ at'["fx"] = "plug" /\ at'["pw"] = at["pw"] /\ up
            /\ mon' \in Workers \ born /\ entry.mon \subseteq gone
            /\ UNCHANGED <<held, entry, up, born, gone, departed, closed, pc, join>>
        BY <1>t, <2>a DEF Plug, Effects, Still, loop, runtime, os
      <3>1. Places'
        BY <1>t, <1>i, <3>a DEF Places, Adapters, Births, Cursors, Halfway, Ends
      <3>2. Adapters'
        BY <1>t, <1>i, <3>a DEF Places, Adapters, Births, Cursors, Halfway, Ends
      <3>3. Births'
        BY <1>t, <1>i, <3>a DEF Places, Adapters, Births, Cursors, Halfway, Ends
      <3>4. Cursors'
        BY <1>t, <1>i, <3>a DEF Places, Adapters, Births, Cursors, Halfway, Ends
      <3>5. Halfway'
        BY <1>t, <1>i, <3>a DEF Places, Adapters, Births, Cursors, Halfway, Ends
      <3>6. Ends'
        BY <1>t, <1>i, <3>a DEF Places, Adapters, Births, Cursors, Halfway, Ends
      <3> QED
        BY <3>1, <3>2, <3>3, <3>4, <3>5, <3>6
    <2>b. CASE CreateMonitor
      <3>a. /\ at["fx"] = "plug" /\ at'["pw"] = at["pw"]
            /\ UNCHANGED <<mon, held, entry, up, departed, closed, pc, join>>
            /\ \/ at'["fx"] = "insert" /\ born' = born \cup {mon} /\ gone' = gone
               \/ at'["fx"] = "idle" /\ born' = born /\ gone' = gone \ {mon}
        BY <1>t, <2>b DEF CreateMonitor, Effects, Still, loop, runtime
      <3>b. /\ pc[mon] = "unborn" /\ mon \notin departed /\ mon \notin closed
            /\ mon \notin held["pw"] /\ mon \notin entry.mon
        BY <1>t, <1>i, <3>a DEF Adapters, Births, Cursors, Ends
      <3>1. Places'
        BY <1>t, <1>i, <3>a, <3>b DEF Places, Adapters, Births, Cursors, Halfway, Ends
      <3>2. Adapters'
        BY <1>t, <1>i, <3>a, <3>b DEF Places, Adapters, Births, Cursors, Halfway, Ends
      <3>3. Births'
        BY <1>t, <1>i, <3>a, <3>b DEF Places, Adapters, Births, Cursors, Halfway, Ends
      <3>4. Cursors'
        BY <1>t, <1>i, <3>a, <3>b DEF Places, Adapters, Births, Cursors, Halfway, Ends
      <3>5. Halfway'
        BY <1>t, <1>i, <3>a, <3>b DEF Places, Adapters, Births, Cursors, Halfway, Ends
      <3>6. Ends'
        BY <1>t, <1>i, <3>a, <3>b DEF Places, Adapters, Births, Cursors, Halfway, Ends
      <3> QED
        BY <3>1, <3>2, <3>3, <3>4, <3>5, <3>6
    <2> QED
      BY <1>1, <2>a, <2>b
  <1>2. ASSUME Insert PROVE Places' /\ Adapters' /\ Births' /\ Cursors' /\ Halfway' /\ Ends'
    <2> USE DEF Insert, Effects, Still, loop, runtime, host
    <2>a. /\ entry'.mon = {mon} /\ entry'.cursor = {} /\ held'["fx"] = entry.cursor /\ held'["pw"] = held["pw"]
          /\ at'["fx"] = "displaced" /\ at'["pw"] = at["pw"]
      BY <1>t, <1>2
    <2>b. mon \notin held["pw"] /\ join[mon] = "none" /\ entry.cursor \subseteq gone
      BY <1>t, <1>i, <1>2 DEF Births, Cursors
    <2>1. Places'
      BY <1>t, <1>i, <1>2, <2>a, <2>b DEF Places, Adapters, Births, Cursors, Halfway, Ends
    <2>2. Adapters'
      BY <1>t, <1>i, <1>2, <2>a, <2>b DEF Places, Adapters, Births, Cursors, Halfway, Ends
    <2>3. Births'
      BY <1>t, <1>i, <1>2, <2>a, <2>b DEF Places, Adapters, Births, Cursors, Halfway, Ends
    <2>4. Cursors'
      BY ZenonT(30), <1>t, <1>i, <1>2, <2>a, <2>b DEF Places, Adapters, Births, Cursors, Halfway, Ends
    <2>5. Halfway'
      BY ZenonT(30), <1>t, <1>i, <1>2, <2>a, <2>b DEF Places, Adapters, Births, Cursors, Halfway, Ends
    <2>6. Ends'
      BY <1>t, <1>i, <1>2, <2>a, <2>b DEF Places, Adapters, Births, Cursors, Halfway, Ends
    <2> QED
      BY <2>1, <2>2, <2>3, <2>4, <2>5, <2>6
  <1>3. ASSUME Arrive PROVE Places' /\ Adapters' /\ Births' /\ Cursors' /\ Halfway' /\ Ends'
    <2> USE DEF Arrive, Effects, Still, loop, runtime, host
    <2>a. /\ entry'.mon \subseteq entry.mon /\ entry'.cursor = {} /\ entry.cursor = {}
          /\ UNCHANGED <<held, mon, born, gone, departed, up, pc, join, closed>>
          /\ at'["fx"] \in {"create", "idle"} /\ at'["pw"] = at["pw"]
          /\ at'["fx"] = "create" => entry'.mon = entry.mon
      <3>1. entry.cursor = {}
        BY <1>i, <1>3 DEF Halfway
      <3>2. CASE Effects("arrive", "create") /\ UNCHANGED entry
        BY <1>t, <1>3, <3>1, <3>2
      <3>3. CASE Effects("arrive", "idle") /\ entry' = NoEntry
        BY <1>t, <1>3, <3>1, <3>3 DEF NoEntry
      <3> QED
        BY <1>3, <3>2, <3>3
    <2>b. at["fx"] = "arrive"
      BY <1>3
    <2> HIDE DEF Arrive
    <2>1. Places'
      BY <1>t, <1>i, <2>b, <2>a DEF Places, Adapters, Births, Cursors, Halfway, Ends
    <2>2. Adapters'
      BY <1>t, <1>i, <2>b, <2>a DEF Places, Adapters, Births, Cursors, Halfway, Ends
    <2>3. Births'
      BY <1>t, <1>i, <2>b, <2>a DEF Places, Adapters, Births, Cursors, Halfway, Ends
    <2>4. Cursors'
      BY ZenonT(30), <1>t, <1>i, <2>b, <2>a DEF Places, Adapters, Births, Cursors, Halfway, Ends
    <2>5. Halfway'
      <3>1. CASE at'["fx"] = "idle"
        BY <1>i, <2>a, <3>1 DEF Halfway
      <3>2. CASE at'["fx"] = "create"
        BY <1>i, <2>a, <2>b, <3>2 DEF Halfway
      <3> QED
        BY <2>a, <3>1, <3>2
    <2>6. Ends'
      BY <1>t, <1>i, <2>b, <2>a DEF Places, Adapters, Births, Cursors, Halfway, Ends
    <2> QED
      BY <2>1, <2>2, <2>3, <2>4, <2>5, <2>6
  <1>4. ASSUME Create PROVE Places' /\ Adapters' /\ Births' /\ Cursors' /\ Halfway' /\ Ends'
    <2> USE DEF Create, Effects, Still, loop, runtime, host, os
    <2>1. Places'
      BY <1>t, <1>i, <1>4 DEF Places, Adapters, Births, Cursors, Halfway, Ends
    <2>2. Adapters'
      BY <1>t, <1>i, <1>4 DEF Places, Adapters, Births, Cursors, Halfway, Ends
    <2>3. Births'
      BY ZenonT(30), <1>t, <1>i, <1>4 DEF Places, Adapters, Births, Cursors, Halfway, Ends
    <2>4. Cursors'
      BY ZenonT(30), <1>t, <1>i, <1>4 DEF Places, Adapters, Births, Cursors, Halfway, Ends
    <2>5. Halfway'
      BY <1>t, <1>i, <1>4 DEF Places, Adapters, Births, Cursors, Halfway, Ends
    <2>6. Ends'
      BY <1>t, <1>i, <1>4 DEF Places, Adapters, Births, Cursors, Halfway, Ends
    <2> QED
      BY <2>1, <2>2, <2>3, <2>4, <2>5, <2>6
  <1>5. ASSUME NEW p \in left, Zero(p) PROVE Places' /\ Adapters' /\ Births' /\ Cursors' /\ Halfway' /\ Ends'
    <2> USE DEF Zero, Effects, Still, loop, runtime, host, os
    <2>1. Places'
      BY <1>t, <1>i, <1>5 DEF Places, Adapters, Births, Cursors, Halfway, Ends
    <2>2. Adapters'
      BY <1>t, <1>i, <1>5 DEF Places, Adapters, Births, Cursors, Halfway, Ends
    <2>3. Births'
      BY <1>t, <1>i, <1>5 DEF Places, Adapters, Births, Cursors, Halfway, Ends
    <2>4. Cursors'
      BY <1>t, <1>i, <1>5 DEF Places, Adapters, Births, Cursors, Halfway, Ends
    <2>5. Halfway'
      BY <1>t, <1>i, <1>5 DEF Places, Adapters, Births, Cursors, Halfway, Ends
    <2>6. Ends'
      BY <1>t, <1>i, <1>5 DEF Places, Adapters, Births, Cursors, Halfway, Ends
    <2> QED
      BY <2>1, <2>2, <2>3, <2>4, <2>5, <2>6
  <1>6. ASSUME Spawn PROVE Places' /\ Adapters' /\ Births' /\ Cursors' /\ Halfway' /\ Ends'
    <2>a. /\ at["fx"] = "zero" /\ at'["pw"] = at["pw"]
          /\ UNCHANGED <<mon, entry, up, born, gone, departed, closed>> /\ held'["pw"] = held["pw"]
          /\ mon \in born /\ pc[mon] = "unborn" /\ join[mon] = "none" /\ held["fx"] = {}
      BY <1>t, <1>i, <1>6 DEF Spawn, Effects, os, Places, Adapters, Births
    <2>b. CASE held' = [held EXCEPT !["fx"] = {mon}] /\ at'["fx"] = "store"
               /\ pc' = [pc EXCEPT ![mon] = "check"] /\ join' = [join EXCEPT ![mon] = "running"]
      <3>1. Places'
        BY <1>t, <1>i, <2>a, <2>b DEF Places, Adapters, Births, Cursors, Halfway, Ends
      <3>2. Adapters'
        BY <1>t, <1>i, <2>a, <2>b DEF Places, Adapters, Births, Cursors, Halfway, Ends
      <3>3. Births'
        BY <1>t, <1>i, <2>a, <2>b DEF Places, Adapters, Births, Cursors, Halfway, Ends
      <3>4. Cursors'
        <4>1. /\ held'["fx"] = {mon} /\ join'[mon] = "running"
              /\ \A w \in Workers : w # mon => join'[w] = join[w]
          BY <1>t, <2>b
        <4>2. mon \notin entry.cursor /\ mon \notin held["pw"]
          BY <1>t, <1>i, <2>a DEF Cursors
        <4>3. \A w \in held["pw"] : join'[w] = join[w] /\ join[w] # "none"
          BY <1>t, <1>i, <4>1, <4>2 DEF Cursors
        <4>4. \A w \in entry.cursor : join'[w] = join[w]
          BY <1>t, <4>1, <4>2
        <4>5. \A t \in Threads : \A w \in held'[t] :
                /\ join'[w] # "none"
                /\ at'[t] \in {"depart", "close", "close displaced"} => join'[w] # "running"
          <5>1. ASSUME NEW w \in held'["fx"]
                PROVE  join'[w] # "none" /\ at'["fx"] \notin {"depart", "close", "close displaced"}
            BY <5>1, <2>b, <4>1
          <5>2. ASSUME NEW w \in held'["pw"]
                PROVE  /\ join'[w] # "none"
                       /\ at'["pw"] \in {"depart", "close", "close displaced"} => join'[w] # "running"
            <6>1. w \in held["pw"] /\ join'[w] = join[w] /\ at'["pw"] = at["pw"]
              BY <5>2, <2>a, <4>3
            <6> QED
              BY <6>1, <1>i DEF Cursors
          <5> QED
            BY <5>1, <5>2
        <4>6. \A w \in Workers :
                join'[w] = "running" => w \in entry.cursor \cup held'["fx"] \cup held'["pw"]
          BY <1>i, <2>a, <4>1 DEF Cursors
        <4> QED
          BY <1>i, <2>a, <4>4, <4>5, <4>6 DEF Cursors
      <3>5. Halfway'
        BY <1>t, <1>i, <2>a, <2>b DEF Places, Adapters, Births, Cursors, Halfway, Ends
      <3>6. Ends'
        BY <1>t, <1>i, <2>a, <2>b DEF Places, Adapters, Births, Cursors, Halfway, Ends
      <3> QED
        BY <3>1, <3>2, <3>3, <3>4, <3>5, <3>6
    <2>c. CASE UNCHANGED <<held, pc, join>> /\ at'["fx"] = "idle"
      <3>1. Places'
        BY <1>t, <1>i, <2>a, <2>c DEF Places, Adapters, Births, Cursors, Halfway, Ends
      <3>2. Adapters'
        BY <1>t, <1>i, <2>a, <2>c DEF Places, Adapters, Births, Cursors, Halfway, Ends
      <3>3. Births'
        BY <1>t, <1>i, <2>a, <2>c DEF Places, Adapters, Births, Cursors, Halfway, Ends
      <3>4. Cursors'
        BY <1>t, <1>i, <2>a, <2>c DEF Places, Adapters, Births, Cursors, Halfway, Ends
      <3>5. Halfway'
        BY <1>t, <1>i, <2>a, <2>c DEF Places, Adapters, Births, Cursors, Halfway, Ends
      <3>6. Ends'
        BY <1>t, <1>i, <2>a, <2>c DEF Places, Adapters, Births, Cursors, Halfway, Ends
      <3> QED
        BY <3>1, <3>2, <3>3, <3>4, <3>5, <3>6
    <2> QED
      BY <1>t, <1>6, <2>b, <2>c DEF Spawn, Effects
  <1>7. ASSUME Store PROVE Places' /\ Adapters' /\ Births' /\ Cursors' /\ Halfway' /\ Ends'
    <2>a. /\ at["fx"] = "store" /\ at'["pw"] = at["pw"] /\ held'["pw"] = held["pw"] /\ entry.cursor = {}
          /\ UNCHANGED <<mon, up, born, gone, departed, closed, pc, join>>
      BY <1>t, <1>i, <1>7 DEF Store, Effects, Still, loop, runtime, host, Halfway
    <2>b. CASE /\ entry.mon = {mon} /\ entry'.mon = entry.mon /\ entry'.cursor = held["fx"]
               /\ held'["fx"] = {} /\ at'["fx"] = "idle"
      <3>1. Places'
        BY <1>t, <1>i, <2>a, <2>b DEF Places, Adapters, Births, Cursors, Halfway, Ends
      <3>2. Adapters'
        BY <1>t, <1>i, <2>a, <2>b DEF Places, Adapters, Births, Cursors, Halfway, Ends
      <3>3. Births'
        BY <1>t, <1>i, <2>a, <2>b DEF Places, Adapters, Births, Cursors, Halfway, Ends
      <3>4. Cursors'
        <4>1. held["fx"] = {mon} /\ join[mon] # "none"
          BY <1>i, <2>a DEF Cursors, Halfway
        <4> QED
          BY ZenonT(30), <1>t, <1>i, <2>a, <2>b, <4>1 DEF Cursors
      <3>5. Halfway'
        BY <1>t, <1>i, <2>a, <2>b DEF Places, Adapters, Births, Cursors, Halfway, Ends
      <3>6. Ends'
        BY <1>t, <1>i, <2>a, <2>b DEF Places, Adapters, Births, Cursors, Halfway, Ends
      <3> QED
        BY <3>1, <3>2, <3>3, <3>4, <3>5, <3>6
    <2>c. CASE entry.mon = {} /\ UNCHANGED <<entry, held>> /\ at'["fx"] = "discard"
      <3>1. Places'
        BY <1>t, <1>i, <2>a, <2>c DEF Places, Adapters, Births, Cursors, Halfway, Ends
      <3>2. Adapters'
        BY <1>t, <1>i, <2>a, <2>c DEF Places, Adapters, Births, Cursors, Halfway, Ends
      <3>3. Births'
        BY <1>t, <1>i, <2>a, <2>c DEF Places, Adapters, Births, Cursors, Halfway, Ends
      <3>4. Cursors'
        BY <1>t, <1>i, <2>a, <2>c DEF Places, Adapters, Births, Cursors, Halfway, Ends
      <3>5. Halfway'
        BY <1>t, <1>i, <2>a, <2>c DEF Places, Adapters, Births, Cursors, Halfway, Ends
      <3>6. Ends'
        BY <1>t, <1>i, <2>a, <2>c DEF Places, Adapters, Births, Cursors, Halfway, Ends
      <3> QED
        BY <3>1, <3>2, <3>3, <3>4, <3>5, <3>6
    <2>d. entry.mon # {} => entry.mon = {mon}
      BY <2>a, <1>i DEF Halfway
    <2> QED
      BY <1>t, <1>7, <2>b, <2>c, <2>d DEF Store, Effects
  <1>8. ASSUME NEW ducks \in BOOLEAN, Take(ducks) PROVE Places' /\ Adapters' /\ Births' /\ Cursors' /\ Halfway' /\ Ends'
    <2>a. /\ at["fx"] = "idle" /\ at'["fx"] = "stop" /\ at'["pw"] = at["pw"]
          /\ held'["pw"] = held["pw"] /\ held'["fx"] = entry.cursor
          /\ entry'.mon = entry.mon /\ entry'.cursor = {} /\ mon' \in entry.mon
          /\ UNCHANGED <<up, born, gone, departed, closed, pc, join>>
      BY <1>t, <1>8 DEF Take, Effects, loop, runtime
    <2>b. entry.mon = {mon'} /\ entry.cursor \subseteq {mon'} /\ mon' \notin held["pw"] /\ held["fx"] = {}
      BY <1>i, <2>a DEF Cursors, Halfway, Places
    <2>1. Places'
      BY <1>t, <1>i, <2>a, <2>b DEF Places, Adapters, Births, Cursors, Halfway, Ends
    <2>2. Adapters'
      BY <1>t, <1>i, <2>a, <2>b DEF Places, Adapters, Births, Cursors, Halfway, Ends
    <2>3. Births'
      BY <1>t, <1>i, <2>a, <2>b DEF Places, Adapters, Births, Cursors, Halfway, Ends
    <2>4. Cursors'
      BY ZenonT(30), <1>t, <1>i, <2>a, <2>b DEF Places, Adapters, Births, Cursors, Halfway, Ends
    <2>5. Halfway'
      BY <1>t, <1>i, <2>a, <2>b DEF Places, Adapters, Births, Cursors, Halfway, Ends
    <2>6. Ends'
      BY <1>t, <1>i, <2>a, <2>b DEF Places, Adapters, Births, Cursors, Halfway, Ends
    <2> QED
      BY <2>1, <2>2, <2>3, <2>4, <2>5, <2>6
  <1>9. ASSUME Depart PROVE Places' /\ Adapters' /\ Births' /\ Cursors' /\ Halfway' /\ Ends'
    <2>a. /\ at["fx"] = "depart" /\ at'["fx"] = "close" /\ at'["pw"] = at["pw"]
          /\ entry'.mon = {} /\ entry'.cursor = {} /\ entry.cursor = {} /\ departed' = departed \cup {mon}
          /\ UNCHANGED <<held, mon, up, born, gone, closed, pc, join>>
      BY <1>t, <1>i, <1>9 DEF Depart, Effects, Still, loop, runtime, host, NoEntry, Halfway
    <2>1. Places'
      BY <1>t, <1>i, <2>a DEF Places, Adapters, Births, Cursors, Halfway, Ends
    <2>2. Adapters'
      BY <1>t, <1>i, <2>a DEF Places, Adapters, Births, Cursors, Halfway, Ends
    <2>3. Births'
      BY <1>t, <1>i, <2>a DEF Places, Adapters, Births, Cursors, Halfway, Ends
    <2>4. Cursors'
      BY <1>t, <1>i, <2>a DEF Places, Adapters, Births, Cursors, Halfway, Ends
    <2>5. Halfway'
      BY <1>t, <1>i, <2>a DEF Places, Adapters, Births, Cursors, Halfway, Ends
    <2>6. Ends'
      BY <1>t, <1>i, <2>a DEF Places, Adapters, Births, Cursors, Halfway, Ends
    <2> QED
      BY <2>1, <2>2, <2>3, <2>4, <2>5, <2>6
  <1>10. ASSUME HandBack PROVE Places' /\ Adapters' /\ Births' /\ Cursors' /\ Halfway' /\ Ends'
    <2>a. /\ at["fx"] = "depart" /\ at'["pw"] = at["pw"] /\ held'["pw"] = held["pw"] /\ entry.cursor = {}
          /\ UNCHANGED <<mon, up, born, gone, departed, closed, pc, join>>
      BY <1>t, <1>i, <1>10 DEF HandBack, Effects, Still, loop, runtime, host, Halfway
    <2>b. CASE /\ entry.mon = {mon} /\ entry'.mon = entry.mon /\ entry'.cursor = held["fx"]
               /\ held'["fx"] = {} /\ at'["fx"] = "idle"
      <3>1. Places'
        BY <1>t, <1>i, <2>a, <2>b DEF Places, Adapters, Births, Cursors, Halfway, Ends
      <3>2. Adapters'
        BY <1>t, <1>i, <2>a, <2>b DEF Places, Adapters, Births, Cursors, Halfway, Ends
      <3>3. Births'
        BY <1>t, <1>i, <2>a, <2>b DEF Places, Adapters, Births, Cursors, Halfway, Ends
      <3>4. Cursors'
        <4>1. held["fx"] \subseteq {mon} /\ \A w \in held["fx"] : join[w] # "none" /\ join[w] # "running"
          BY <1>i, <2>a DEF Cursors, Halfway
        <4> QED
          BY ZenonT(30), <1>t, <1>i, <2>a, <2>b, <4>1 DEF Cursors
      <3>5. Halfway'
        BY <1>t, <1>i, <2>a, <2>b DEF Places, Adapters, Births, Cursors, Halfway, Ends
      <3>6. Ends'
        BY <1>t, <1>i, <2>a, <2>b DEF Places, Adapters, Births, Cursors, Halfway, Ends
      <3> QED
        BY <3>1, <3>2, <3>3, <3>4, <3>5, <3>6
    <2>c. CASE entry.mon = {} /\ UNCHANGED <<entry, held>> /\ at'["fx"] = "close"
      <3>1. Places'
        BY <1>t, <1>i, <2>a, <2>c DEF Places, Adapters, Births, Cursors, Halfway, Ends
      <3>2. Adapters'
        BY <1>t, <1>i, <2>a, <2>c DEF Places, Adapters, Births, Cursors, Halfway, Ends
      <3>3. Births'
        BY <1>t, <1>i, <2>a, <2>c DEF Places, Adapters, Births, Cursors, Halfway, Ends
      <3>4. Cursors'
        BY <1>t, <1>i, <2>a, <2>c DEF Places, Adapters, Births, Cursors, Halfway, Ends
      <3>5. Halfway'
        BY <1>t, <1>i, <2>a, <2>c DEF Places, Adapters, Births, Cursors, Halfway, Ends
      <3>6. Ends'
        BY <1>t, <1>i, <2>a, <2>c DEF Places, Adapters, Births, Cursors, Halfway, Ends
      <3> QED
        BY <3>1, <3>2, <3>3, <3>4, <3>5, <3>6
    <2>d. entry.mon # {} => entry.mon = {mon}
      BY <2>a, <1>i DEF Halfway
    <2> QED
      BY <1>t, <1>10, <2>b, <2>c, <2>d DEF HandBack, Effects
  <1>11. ASSUME FinalExit PROVE Places' /\ Adapters' /\ Births' /\ Cursors' /\ Halfway' /\ Ends'
    <2> USE DEF FinalExit, Still, loop, runtime, host
    <2>1. Places'
      BY <1>t, <1>i, <1>11 DEF Places, Adapters, Births, Cursors, Halfway, Ends
    <2>2. Adapters'
      BY <1>t, <1>i, <1>11 DEF Places, Adapters, Births, Cursors, Halfway, Ends
    <2>3. Births'
      BY <1>t, <1>i, <1>11 DEF Places, Adapters, Births, Cursors, Halfway, Ends
    <2>4. Cursors'
      BY <1>t, <1>i, <1>11 DEF Places, Adapters, Births, Cursors, Halfway, Ends
    <2>5. Halfway'
      BY <1>t, <1>i, <1>11 DEF Places, Adapters, Births, Cursors, Halfway, Ends
    <2>6. Ends'
      BY <1>t, <1>i, <1>11 DEF Places, Adapters, Births, Cursors, Halfway, Ends
    <2> QED
      BY <2>1, <2>2, <2>3, <2>4, <2>5, <2>6
  <1>12. ASSUME Drain PROVE Places' /\ Adapters' /\ Births' /\ Cursors' /\ Halfway' /\ Ends'
    <2> USE DEF Drain, NoEntry, Still, loop, runtime, host
    <2>1. Places'
      BY <1>t, <1>i, <1>12 DEF Places, Adapters, Births, Cursors, Halfway, Ends
    <2>2. Adapters'
      BY <1>t, <1>i, <1>12 DEF Places, Adapters, Births, Cursors, Halfway, Ends
    <2>3. Births'
      BY <1>t, <1>i, <1>12 DEF Places, Adapters, Births, Cursors, Halfway, Ends
    <2>4. Cursors'
      BY <1>t, <1>i, <1>12 DEF Places, Adapters, Births, Cursors, Halfway, Ends
    <2>5. Halfway'
      BY <1>t, <1>i, <1>12 DEF Places, Adapters, Births, Cursors, Halfway, Ends
    <2>6. Ends'
      BY <1>t, <1>i, <1>12 DEF Places, Adapters, Births, Cursors, Halfway, Ends
    <2> QED
      BY <2>1, <2>2, <2>3, <2>4, <2>5, <2>6
  <1>13. ASSUME AdapterUp PROVE Places' /\ Adapters' /\ Births' /\ Cursors' /\ Halfway' /\ Ends'
    <2> USE DEF AdapterUp, Still, loop, runtime, host
    <2>1. Places'
      BY <1>t, <1>i, <1>13 DEF Places, Adapters, Births, Cursors, Halfway, Ends
    <2>2. Adapters'
      BY <1>t, <1>i, <1>13 DEF Places, Adapters, Births, Cursors, Halfway, Ends
    <2>3. Births'
      BY <1>t, <1>i, <1>13 DEF Places, Adapters, Births, Cursors, Halfway, Ends
    <2>4. Cursors'
      BY <1>t, <1>i, <1>13 DEF Places, Adapters, Births, Cursors, Halfway, Ends
    <2>5. Halfway'
      BY <1>t, <1>i, <1>13 DEF Places, Adapters, Births, Cursors, Halfway, Ends
    <2>6. Ends'
      BY <1>t, <1>i, <1>13 DEF Places, Adapters, Births, Cursors, Halfway, Ends
    <2> QED
      BY <2>1, <2>2, <2>3, <2>4, <2>5, <2>6
  <1> QED
    BY <1>1, <1>2, <1>3, <1>4, <1>5, <1>6, <1>7, <1>8, <1>9, <1>10, <1>11, <1>12, <1>13 DEF PlugOrDepart

LEMMA InvLoop ==
  ASSUME Inv, NEW w \in Workers, CursorLoop(w)
  PROVE  Places' /\ Adapters' /\ Births' /\ Cursors' /\ Halfway' /\ Ends'
  <1>1. UNCHANGED <<stopped, join, closed, at, held, mon, entry, up, born, gone, departed>>
    BY DEF CursorLoop, CheckStop, UnlessStopped, Setup, Wait, Query, LoadStart, StoreOdd,
           WritePart, StoreEven, Quiet, runtime, control, os
  <1>2. /\ pc[w] \notin {"unborn", "exit"} /\ pc'[w] # "unborn"
        /\ \A v \in Workers : v # w => pc'[v] = pc[v]
    <2>1. \E from, to \in {"check", "setup", "loop", "wait", "recheck", "query", "load", "odd",
                           "write", "exit"} : from # "exit" /\ Worker(w, from, to)
      BY DEF CursorLoop, CheckStop, UnlessStopped, Setup, Wait, Query, LoadStart, StoreOdd,
             WritePart, StoreEven
    <2> QED
      BY <2>1 DEF Worker, Inv, TypeOK, LoopTypes
  <1>3. Births'
    <2>1. mon \in Workers /\ Births
      BY DEF Inv, TypeOK, ThreadTypes
    <2>2. \A v \in Workers : v = w \/ pc'[v] = pc[v]
      BY <1>2
    <2>3. pc[mon] = "unborn" => pc'[mon] = "unborn"
      BY <1>2, <2>1, <2>2
    <2> QED
      BY <1>1, <1>2, <2>1, <2>2, <2>3 DEF Births, Plugging
  <1> QED
    BY <1>1, <1>3 DEF Inv, Places, Adapters, Cursors, Halfway, Ends

LEMMA InvStop ==
  ASSUME Inv, NEW t \in Threads, Stop(t)
  PROVE  Places' /\ Adapters' /\ Births' /\ Cursors' /\ Halfway' /\ Ends'
  <1> USE DEF Threads, Plugging, Stopping
  <1>t. /\ at \in [Threads -> Labels] /\ held \in [Threads -> SUBSET Workers]
        /\ join \in [Workers -> {"none", "running", "joined", "detached"}]
        /\ closed \subseteq Workers /\ departed \subseteq Workers
        /\ entry.mon \subseteq Workers /\ entry.cursor \subseteq Workers
    BY DEF Inv, TypeOK, ThreadTypes, RuntimeTypes, ShellTypes, Entries
  <1>i. Places /\ Adapters /\ Births /\ Cursors /\ Halfway /\ Ends
    BY DEF Inv
  <1>1. CASE AskToStop(t)
    BY ZenonT(30), <1>1, <1>i DEF AskToStop, Calm, loop, os, Places, Adapters, Births, Cursors, Halfway, Ends
  <1>2. CASE Joined(t) \/ TimedOut(t)
    <2>a. UNCHANGED <<pc, closed, held, mon, entry, up, born, gone, departed>>
      BY <1>2 DEF Joined, TimedOut, Calm, loop, os
    <2>b. /\ at[t] \in Stopping
          /\ \A r \in Threads : r # t => at'[r] = at[r]
          /\ at'[t] = IF at[t] = "displaced" THEN "close displaced"
                      ELSE IF at[t] = "stop" THEN "depart" ELSE "close"
      BY <1>t, <1>2 DEF Joined, TimedOut, AfterStop
    <2>c. \A w \in Workers :
            \/ join'[w] = join[w] /\ (w \in held[t] => join[w] # "running")
            \/ w \in held[t] /\ join[w] = "running" /\ join'[w] = "joined" /\ pc[w] = "exit"
            \/ w \in held[t] /\ join[w] = "running" /\ join'[w] = "detached"
      BY <1>t, <1>2 DEF Joined, TimedOut
    <2>1. Places'
      BY <1>t, <1>i, <2>a, <2>b DEF Places
    <2>2. Adapters' 
      BY <1>t, <1>i, <2>a, <2>b DEF Adapters, Places
    <2>3. Births'
      BY <1>t, <1>i, <2>a, <2>b, <2>c DEF Births, Places
    <2>4. Cursors'
      <3>1. \A w \in Workers : /\ join[w] # "none" => join'[w] # "none"
                               /\ join[w] # "running" => join'[w] # "running"
                               /\ w \in held[t] => join'[w] # "running"
        BY <1>t, <2>c
      <3>2. \A r \in Threads : \A w \in held[r] :
              /\ join'[w] # "none"
              /\ at'[r] \in {"depart", "close", "close displaced"} => join'[w] # "running"
        BY <1>t, <1>i, <2>b, <3>1 DEF Cursors
      <3>3. \A w \in Workers :
              join'[w] = "running" => w \in entry.cursor \cup held["fx"] \cup held["pw"]
        BY <1>i, <3>1 DEF Cursors
      <3>4. \A w \in entry.cursor : w \in entry.mon /\ join'[w] # "none"
        BY <1>t, <1>i, <3>1 DEF Cursors
      <3> QED
        BY <1>i, <2>a, <3>2, <3>3, <3>4 DEF Cursors
    <2>5. Halfway'
      BY <1>t, <1>i, <2>a, <2>b DEF Halfway, Places
    <2>6. Ends'
      <3>1. \A w \in Workers : /\ join[w] # "running" => join'[w] # "running"
                               /\ join[w] = "joined" => join'[w] = "joined"
        BY <1>t, <2>c
      <3> QED
        BY <1>t, <1>i, <2>a, <3>1 DEF Ends
    <2> QED
      BY <2>1, <2>2, <2>3, <2>4, <2>5, <2>6
  <1>3. CASE Close(t)
    <2>a. /\ UNCHANGED <<pc, join, mon, entry, up, born, gone, departed>>
          /\ at[t] \in {"close", "close displaced"} /\ held'[t] = {}
          /\ closed' = closed \cup {w \in held[t] : join[w] # "detached"}
          /\ \A r \in Threads : r # t => at'[r] = at[r] /\ held'[r] = held[r]
          /\ at'[t] = IF at[t] = "close" THEN "idle" ELSE "arrive"
      BY <1>t, <1>3 DEF Close, loop, os
    <2>1. Places' /\ Adapters' /\ Births'
      BY <1>t, <1>i, <2>a DEF Places, Adapters, Births
    <2>2. Cursors'
      BY ZenonT(30), <1>t, <1>i, <2>a DEF Cursors, Places
    <2>3. Halfway'
      BY <1>t, <1>i, <2>a DEF Halfway, Places
    <2>4. Ends'
      BY ZenonT(30), <1>t, <1>i, <2>a DEF Ends, Cursors, Halfway, Places
    <2> QED
      BY <2>1, <2>2, <2>3, <2>4
  <1> QED
    BY <1>1, <1>2, <1>3 DEF Stop

LEMMA InvStep == Inv /\ [Next]_vars => Inv'
  <1> SUFFICES ASSUME Inv, [Next]_vars PROVE Inv'
    OBVIOUS
  <1>1. TypeOK'
    BY TypeStep DEF Inv
  <1>2. CASE UNCHANGED vars \/ Shape
    <2>1. UNCHANGED <<pc, join, closed, at, held, mon, entry, up, born, gone, departed>>
      BY <1>2 DEF vars, Shape, HostLoad, HostCopy, HostValidate, Around, loop, runtime, control, os
    <2> QED
      BY ZenonT(30), <1>1, <2>1 DEF Inv, Places, Adapters, Births, Cursors, Halfway, Ends
  <1> QED
    BY <1>1, <1>2, InvLoop, InvStop, InvOthers DEF Next, Inv

-----------------------------------------------------------------------------
(* No cursor query ever targets a monitor that has departed, save by a     *)
(* worker whose stop timed out.                                            *)
THEOREM DepartedAreQuiet == Spec => []NoQueryAfterDeparture
  <1>1. Inv => NoQueryAfterDeparture
    <2> SUFFICES ASSUME Inv, NEW w \in departed, join[w] # "detached" PROVE ~ Live(w)
      BY DEF NoQueryAfterDeparture
    <2>1. w \in Workers /\ join[w] \in {"none", "joined"}
      BY DEF Inv, TypeOK, ShellTypes, RuntimeTypes, Ends
    <2> QED
      BY <2>1 DEF Inv, Births, Live
  <1> QED
    BY <1>1, InvInit, InvStep, PTL DEF Spec

(* The event handle the OS signals is closed after its worker and after    *)
(* the monitor, or with the adapter.                                       *)
THEOREM EventsOutlive == Spec => []EventOutlives
  <1>1. Inv => EventOutlives
    BY DEF Inv, TypeOK, RuntimeTypes, Births, Ends, EventOutlives, Live
  <1> QED
    BY <1>1, InvInit, InvStep, PTL DEF Spec

-----------------------------------------------------------------------------
(* The seqlock.  As long as the section was never zeroed under a live      *)
(* worker, at most one worker is live, and none while it is zeroed.        *)

Alone ==
  ~ shared =>
    /\ \A v, w \in Workers : Live(v) /\ Live(w) => v = w
    /\ at["fx"] = "zero" => \A w \in Workers : ~ Live(w)

(* Its generation is odd exactly while it writes, and between two writes   *)
(* the parts are those of one shape.                                       *)
Settled == at["fx"] # "zero" /\ \A w \in Workers : pc[w] # "write"
Seqlock ==
  ~ shared =>
    /\ \A w \in Workers : pc[w] = "odd" => start[w] = gen
    /\ \A w \in Workers : pc[w] = "write" =>
         /\ gen = Odd(start[w]) /\ ~ start[w].odd
         /\ \A p \in Parts \ todo[w] : part[p] = new[w]
    /\ gen.odd => \E w \in Workers : pc[w] = "write"
    /\ Settled /\ gen.n > 0 => \E s \in Shapes : \A p \in Parts : part[p] = s
    /\ at["fx"] = "zero" /\ "gen" \notin left => gen = Fresh

(* While the generation is the one the host loaded, what it has copied is  *)
(* what the section holds.                                                 *)
Copying ==
  ~ shared /\ ~ crossed /\ hpc = "copy" =>
    /\ at["fx"] # "zero" /\ ~ g1.odd /\ g1.n > 0 /\ gen.n >= g1.n
    /\ gen = g1 => \A p \in Parts \ hleft : copy[p] = part[p]

LEMMA LockInit == Init => Alone /\ Seqlock /\ Copying
  BY DEF Init, Alone, Seqlock, Copying, Live, Settled, Fresh, Threads

LEMMA LockWriter ==
  ASSUME TypeOK, Alone, Seqlock, Copying, NEW w \in Workers, CursorLoop(w)
  PROVE  Alone' /\ Seqlock' /\ Copying'
  <1>t. /\ gen \in Generations /\ part \in [Parts -> Shapes \cup {Blank}]
        /\ pc \in [Workers -> {pc[v] : v \in Workers}]
        /\ start \in [Workers -> Generations] /\ new \in [Workers -> Shapes]
        /\ todo \in [Workers -> SUBSET Parts] /\ g1 \in Generations
    BY DEF TypeOK, SectionTypes, LoopTypes, HostTypes
  <1>q. UNCHANGED <<at, left, hpc, g1, copy, hleft, crossed, shared>>
    BY DEF CursorLoop, CheckStop, Setup, Wait, Query, LoadStart, StoreOdd, WritePart, StoreEven,
           Quiet, control, host
  <1>l. /\ \A v \in Workers : v # w => pc'[v] = pc[v]
        /\ Live(w)
    <2>1. \E from, to \in {"check", "setup", "loop", "wait", "recheck", "query", "load", "odd",
                           "write", "exit"} : from # "exit" /\ Worker(w, from, to)
      BY DEF CursorLoop, CheckStop, UnlessStopped, Setup, Wait, Query, LoadStart, StoreOdd,
             WritePart, StoreEven
    <2> QED
      BY <2>1, <1>t DEF Worker, Live
  <1>1. Alone'
    BY <1>q, <1>l DEF Alone, Live
  <1> SUFFICES ASSUME ~ shared PROVE Seqlock' /\ Copying'
    BY <1>1, <1>q DEF Seqlock, Copying
  <1>a. /\ at["fx"] # "zero"
        /\ \A v \in Workers : v # w => pc[v] \notin {"odd", "write"}
    BY <1>l DEF Alone, Live
  <1>s. Seqlock /\ gen.n \in Nat
    BY <1>t DEF Generations
  <1>2. CASE /\ UNCHANGED <<section, start, todo>>
             /\ pc[w] \notin {"odd", "write"} /\ pc'[w] \notin {"odd", "write"}
    <2>1. \A v \in Workers : pc[v] \notin {"odd", "write"} /\ pc'[v] \notin {"odd", "write"}
      BY <1>2, <1>a, <1>l
    <2>2. Seqlock'
      BY <1>2, <2>1, <1>s, <1>q DEF Seqlock, section, Settled
    <2>3. Copying'
      BY <1>2, <1>q DEF Copying, section
    <2> QED
      BY <2>2, <2>3
  <1>3. CASE LoadStart(w)
    <2>1. /\ UNCHANGED <<section, new, todo>> /\ start'[w] = gen /\ pc'[w] = "odd" /\ pc[w] = "load"
      BY <1>3, <1>t DEF LoadStart, Worker
    <2>2. \A v \in Workers : pc[v] # "write" /\ pc'[v] # "write" /\ (v # w => pc'[v] # "odd")
      BY <2>1, <1>a, <1>l
    <2>3. Seqlock'
      BY <2>1, <2>2, <1>s, <1>q DEF Seqlock, section, Settled
    <2>4. Copying'
      BY <2>1, <1>q DEF Copying, section
    <2> QED
      BY <2>3, <2>4
  <1>4. CASE StoreOdd(w)
    <2>1. /\ UNCHANGED <<part, start, new>> /\ todo'[w] = Parts
          /\ pc[w] = "odd" /\ pc'[w] = "write" /\ gen' = Odd(gen)
      BY <1>4, <1>s, <1>t DEF StoreOdd, Worker, Seqlock
    <2>2. ~ gen.odd /\ start[w] = gen
      BY <2>1, <1>a, <1>s DEF Seqlock
    <2>3. gen'.odd /\ gen'.n = gen.n
      BY <2>1, <1>t DEF Odd, Generations
    <2>4. Seqlock'
      BY <2>1, <2>2, <1>a, <1>l, <1>q DEF Seqlock, Settled
    <2>5. Copying'
      BY <2>3, <1>q DEF Copying
    <2> QED
      BY <2>4, <2>5
  <1>5. ASSUME NEW p \in Parts, WritePart(w, p) PROVE Seqlock' /\ Copying'
    <2>1. /\ UNCHANGED <<gen, start, new>> /\ p \in todo[w] /\ pc[w] = "write" /\ pc'[w] = "write"
          /\ todo'[w] = todo[w] \ {p} /\ part' = [part EXCEPT ![p] = new[w]]
      BY <1>5, <1>t DEF WritePart, Worker
    <2>2. gen.odd
      BY <2>1, <1>s, <1>t DEF Seqlock, Odd, Generations
    <2>3. \A r \in Parts \ todo'[w] : part'[r] = new[w]
      BY <2>1, <1>s, <1>t DEF Seqlock
    <2>4. Seqlock'
      BY <2>1, <2>3, <1>a, <1>l, <1>s, <1>q DEF Seqlock, Settled
    <2>5. Copying'
      BY <2>1, <2>2, <1>q DEF Copying
    <2> QED
      BY <2>4, <2>5
  <1>6. CASE StoreEven(w)
    <2>1. /\ UNCHANGED <<part, start, new, todo>> /\ todo[w] = {} /\ pc[w] = "write" /\ pc'[w] = "loop"
          /\ gen' = NextEven(start[w])
      BY <1>6, <1>t DEF StoreEven, Worker
    <2>2. gen = Odd(start[w]) /\ \A p \in Parts : part[p] = new[w]
      BY <2>1, <1>s DEF Seqlock
    <2>3. ~ gen'.odd /\ gen'.n = gen.n + 1
      BY <2>1, <2>2, <1>t DEF Odd, NextEven, Generations
    <2>4. \A v \in Workers : pc'[v] \notin {"odd", "write"}
      BY <2>1, <1>a, <1>l
    <2>5. \E s \in Shapes : \A p \in Parts : part'[p] = s
      BY <2>1, <2>2, <1>t
    <2>6. Seqlock'
      BY <2>3, <2>4, <2>5, <1>a, <1>q DEF Seqlock
    <2>7. Copying'
      <3>1. gen.n >= g1.n /\ g1.n \in Nat => gen'.n >= g1.n /\ gen' # g1
        BY <2>3, <1>s
      <3> QED
        BY <3>1, <1>t, <1>q DEF Copying, Generations
    <2> QED
      BY <2>6, <2>7
  <1>7. ASSUME CheckStop(w) \/ Setup(w) \/ Wait(w) \/ Query(w)
        PROVE  /\ UNCHANGED <<section, start, todo>>
               /\ pc[w] \notin {"odd", "write"} /\ pc'[w] \notin {"odd", "write"}
    BY <1>7, <1>t DEF CheckStop, UnlessStopped, Setup, Wait, Query, Worker
  <1> QED
    BY <1>1, <1>2, <1>3, <1>4, <1>5, <1>6, <1>7 DEF CursorLoop

LEMMA LockOthers ==
  ASSUME TypeOK, Alone, Seqlock, Copying,
         UNCHANGED vars \/ (\E t \in Threads : Stop(t)) \/ PlugOrDepart
           \/ FinalExit \/ Drain \/ AdapterUp \/ Shape
  PROVE  Alone' /\ Seqlock' /\ Copying'
  <1>t. /\ gen \in Generations /\ part \in [Parts -> Shapes \cup {Blank}]
        /\ at \in [Threads -> Labels] /\ mon \in Workers
        /\ pc \in [Workers -> {pc[v] : v \in Workers}]
        /\ copy \in [Parts -> Shapes \cup {Blank}] /\ hleft \subseteq Parts /\ g1 \in Generations
        /\ "fx" \in Threads /\ "pw" \in Threads /\ "fx" # "pw"
    BY DEF TypeOK, SectionTypes, LoopTypes, ThreadTypes, HostTypes, Threads
  <1>a. ASSUME UNCHANGED <<section, loop, left, host, crossed, shared>>,
               at'["fx"] = "zero" => at["fx"] = "zero", at["fx"] = "zero" => at'["fx"] = "zero"
        PROVE  Alone' /\ Seqlock' /\ Copying'
    BY <1>a DEF section, loop, host, Alone, Live, Seqlock, Settled, Copying
  <1>1. CASE UNCHANGED vars
    BY <1>1, <1>a DEF vars, control
  <1>2. ASSUME NEW t \in Threads, Stop(t) PROVE Alone' /\ Seqlock' /\ Copying'
    <2>1. UNCHANGED <<section, loop, left, host, crossed, shared>>
      BY <1>2 DEF Stop, AskToStop, Joined, TimedOut, Close, Calm
    <2>2. at' = at \/ \E l \in Labels \ {"zero"} : at' = [at EXCEPT ![t] = l] /\ at[t] # "zero"
      BY <1>2 DEF Stop, AskToStop, Joined, TimedOut, Close, Calm, AfterStop, Stopping, Labels
    <2> QED
      BY <2>1, <2>2, <1>a, <1>t
  <1>3. CASE \/ (\E w \in Workers : Plug(w)) \/ CreateMonitor \/ Insert \/ Arrive \/ Store \/ Depart \/ HandBack
             \/ \E ducks \in BOOLEAN : Take(ducks)
    <2>1. UNCHANGED <<section, loop, left, host, crossed, shared>>
      BY <1>3 DEF Plug, CreateMonitor, Insert, Arrive, Store, Depart, HandBack, Take, Still
    <2>2. at["fx"] # "zero" /\ at'["fx"] # "zero"
      BY <1>3, <1>t DEF Plug, CreateMonitor, Insert, Arrive, Store, Depart, HandBack, Take, Effects
    <2> QED
      BY <2>1, <2>2, <1>a
  <1>4. CASE Create
    <2>1. CASE UNCHANGED <<left, shared, crossed>> /\ Effects("create", "idle")
      BY <1>4, <2>1, <1>a, <1>t DEF Create, Effects, Still
    <2>2. CASE Effects("create", "zero") /\ left' = Parts \cup {"gen"}
               /\ shared' = (shared \/ \E w \in Workers : Live(w))
               /\ crossed' = (crossed \/ hpc # "idle")
      <3>1. at'["fx"] = "zero" /\ at["fx"] # "zero" /\ UNCHANGED <<section, loop, host>>
        BY <1>4, <2>2, <1>t DEF Create, Effects, Still
      <3>2. Alone' /\ Copying'
        BY <2>2, <3>1, <1>t DEF Alone, Live, loop, Copying, host, HostTypes, TypeOK
      <3>3. Seqlock'
        BY <2>2, <3>1 DEF Seqlock, Settled, section, loop
      <3> QED
        BY <3>2, <3>3
    <2> QED
      BY <1>4, <2>1, <2>2 DEF Create
  <1>5. ASSUME NEW p \in left, Zero(p) PROVE Alone' /\ Seqlock' /\ Copying'
    <2>1. /\ at["fx"] = "zero" /\ at'["fx"] = "zero" /\ left' = left \ {p}
          /\ UNCHANGED <<loop, host, crossed, shared>>
          /\ (p = "gen" /\ gen' = Fresh) \/ (p # "gen" /\ gen' = gen)
      BY <1>5, <1>t DEF Zero, Effects, Still
    <2>2. Alone' /\ Copying'
      BY <2>1 DEF Alone, Live, loop, Copying, host
    <2>3. Seqlock'
      BY <2>1 DEF Alone, Live, Seqlock, Settled, Fresh, loop
    <2> QED
      BY <2>2, <2>3
  <1>6. CASE Spawn
    <2>1. /\ at["fx"] = "zero" /\ at'["fx"] # "zero" /\ left = {}
          /\ UNCHANGED <<section, start, new, todo, host, crossed, shared>>
          /\ pc' = pc \/ pc' = [pc EXCEPT ![mon] = "check"]
      BY <1>6, <1>t DEF Spawn, Effects
    <2>2. ~ shared => /\ gen = Fresh
                      /\ \A w \in Workers : ~ Live(w) /\ (w # mon => ~ Live(w)')
                      /\ \A w \in Workers : pc'[w] \notin {"odd", "write"}
      BY <2>1, <1>t DEF Alone, Live, Seqlock
    <2>3. Alone'
      BY <2>1, <2>2 DEF Alone
    <2>4. Seqlock'
      BY <2>1, <2>2 DEF Seqlock, Fresh, section
    <2>5. Copying'
      BY <2>1 DEF Copying, host
    <2> QED
      BY <2>3, <2>4, <2>5
  <1>7. CASE FinalExit \/ Drain \/ AdapterUp
    <2>1. UNCHANGED <<section, loop, left, host, crossed, shared>> /\ at'["fx"] = at["fx"]
      BY <1>7, <1>t DEF FinalExit, Drain, AdapterUp, Still
    <2> QED
      BY <2>1, <1>a
  <1>8. CASE Shape
    <2>1. UNCHANGED <<section, loop, at, left, shared>>
      BY <1>8 DEF Shape, HostLoad, HostCopy, HostValidate, Around, control
    <2>2. Alone' /\ Seqlock'
      BY <2>1 DEF section, loop, Alone, Live, Seqlock, Settled
    <2>3. Copying'
      <3>1. CASE HostLoad
        <4>1. /\ gen' = gen /\ g1' = gen /\ hleft' = Parts /\ ~ gen.odd /\ gen.n > 0 /\ gen.n \in Nat
              /\ at' = at /\ crossed' = (at["fx"] = "zero")
          BY <2>1, <3>1, <1>t DEF HostLoad, section, Generations
        <4>2. gen.n >= gen.n
          BY <4>1
        <4> QED
          BY <4>1, <4>2 DEF Copying
      <3>2. ASSUME NEW p \in Parts, HostCopy(p) PROVE Copying'
        BY <2>1, <3>2, <1>t DEF HostCopy, Copying, section
      <3>3. CASE HostValidate
        BY <3>3 DEF HostValidate, Copying
      <3> QED
        BY <1>8, <3>1, <3>2, <3>3 DEF Shape
    <2> QED
      BY <2>2, <2>3
  <1> QED
    BY <1>1, <1>2, <1>3, <1>4, <1>5, <1>6, <1>7, <1>8 DEF PlugOrDepart

(* CursorView::shape returns a whole shape: the parts it copied between    *)
(* two equal even generations are those of one write.                      *)
THEOREM ShapesAreWhole == Spec => []CopyIsWhole
  <1> DEFINE Lock == TypeOK /\ Alone /\ Seqlock /\ Copying
  <1>1. Init => Lock
    BY TypeInit, LockInit
  <1>2. Lock /\ [Next]_vars => Lock'
    BY TypeStep, LockWriter, LockOthers DEF Next
  <1>3. Lock => CopyIsWhole
    <2> SUFFICES ASSUME Lock, hpc = "copy", hleft = {}, gen = g1, ~ crossed, ~ shared
                 PROVE  \E s \in Shapes : copy = [p \in Parts |-> s]
      BY DEF CopyIsWhole
    <2>1. at["fx"] # "zero" /\ ~ gen.odd /\ gen.n > 0 /\ \A p \in Parts : copy[p] = part[p]
      BY DEF Copying
    <2>2. Settled
      <3>1. \A w \in Workers : pc[w] = "write" => gen.odd
        BY DEF Seqlock, Odd, TypeOK, LoopTypes, Generations
      <3> QED
        BY <2>1, <3>1 DEF Settled
    <2>3. PICK s \in Shapes : \A p \in Parts : part[p] = s
      BY <2>1, <2>2 DEF Seqlock
    <2> QED
      BY <2>1, <2>3 DEF TypeOK, HostTypes
  <1> QED
    BY <1>1, <1>2, <1>3, PTL DEF Spec

=============================================================================
