---------------------------- MODULE CursorSection ----------------------------
(***************************************************************************)
(* The hardware cursor of one session: the worker each arrival of its      *)
(* monitor starts, the shared section the worker writes and the host       *)
(* copies, and how the effects worker and a final exit end the worker.     *)
(*                                                                         *)
(* A stop waits 500 ms and then detaches the thread; a worker stuck in an  *)
(* IddCx call is one that takes no step.  The section is found by the      *)
(* session's name: the worker of the next arrival zeroes and writes the    *)
(* memory a host has mapped, and a detached worker still has.              *)
(*                                                                         *)
(* A shape is its header and its rows, copied part by part.  Position and  *)
(* visibility are written after it without a protocol and left out; so is  *)
(* the number of times shape() tries again.                                *)
(*                                                                         *)
(* External: the session table plugs no session twice (ControlPlane), so   *)
(* an entry that a plug displaces is of an adapter that has exited.        *)
(***************************************************************************)
EXTENDS Naturals

CONSTANTS
  Workers,   \* the monitor objects of the session, each with the worker it starts
  Shapes,    \* cursor shapes
  Parts,     \* header and rows
  Blank      \* a part that was zeroed

VARIABLES
  \* the section
  gen,       \* shape_generation: [n: its upper bits, odd: its lowest bit]
  part,      \* header and rows
  \* cursor_loop, of a worker
  pc, start, new, todo,
  \* CursorRt
  stopped,   \* the stop flag
  join,      \* the JoinHandle: none yet, running, joined or detached
  closed,    \* workers whose event handle is closed
  \* the effects worker ("fx") and the power callback of the final exit ("pw")
  at,        \* what each is doing
  held,      \* the CursorRt each has on its stack, if any: a set
  mon,       \* the monitor the effects worker is at
  duck,      \* it is a duck-out, not an unplug
  left,      \* of the section: still to be zeroed
  \* the shell and the OS
  entry,     \* the session's MonitorRt: its monitor and cursor, sets of at most one
  up,        \* the adapter is published
  born,      \* monitors created
  gone,      \* monitors of an adapter whose final exit has begun, and one being made on it
  departed,  \* monitors whose departure has returned
  \* CursorView::shape
  hpc, g1, copy, hleft,
  \* history
  crossed,   \* the section was being zeroed since the host loaded g1
  shared     \* the section was zeroed under a worker that was still alive

section == <<gen, part>>
loop == <<pc, start, new, todo>>
runtime == <<stopped, join, closed>>
control == <<at, held, mon, duck>>
os == <<entry, up, born, gone, departed>>
host == <<hpc, g1, copy, hleft>>
vars == <<section, loop, runtime, control, left, os, host, crossed, shared>>

Threads == {"fx", "pw"}
Fresh == [n |-> 0, odd |-> FALSE]
Odd(g) == [g EXCEPT !.odd = TRUE]                   \* g | 1
NextEven(g) == [n |-> g.n + 1, odd |-> FALSE]       \* (g | 1) + 1
NoEntry == [mon |-> {}, cursor |-> {}]
Live(w) == pc[w] \notin {"unborn", "exit"}

Init ==
  /\ gen = Fresh /\ part = [p \in Parts |-> Blank]
  /\ pc = [w \in Workers |-> "unborn"] /\ start = [w \in Workers |-> Fresh]
  /\ new \in [Workers -> Shapes] /\ todo = [w \in Workers |-> {}]
  /\ stopped = [w \in Workers |-> FALSE] /\ join = [w \in Workers |-> "none"] /\ closed = {}
  /\ at = [t \in Threads |-> "idle"] /\ held = [t \in Threads |-> {}]
  /\ mon \in Workers /\ duck = FALSE /\ left = {}
  /\ entry = NoEntry /\ up = TRUE /\ born = {} /\ gone = {} /\ departed = {}
  /\ hpc = "idle" /\ g1 = Fresh /\ copy = part /\ hleft = {}
  /\ crossed = FALSE /\ shared = FALSE

-----------------------------------------------------------------------------
(* cursor_loop                                                             *)

Worker(w, from, to) == pc[w] = from /\ pc' = [pc EXCEPT ![w] = to]
Quiet == UNCHANGED <<runtime, control, left, os, host, crossed, shared>>

(* The flag is looked at before every round of the setup and every wait,   *)
(* and again after the wait.                                               *)
UnlessStopped(w, from, to) == Worker(w, from, IF stopped[w] THEN "exit" ELSE to)
CheckStop(w) ==
  /\ \/ UnlessStopped(w, "check", "setup") \/ UnlessStopped(w, "loop", "wait")
     \/ UnlessStopped(w, "recheck", "query")
  /\ UNCHANGED <<section, start, new, todo>> /\ Quiet

(* setup_attempt: accepted, to be tried again, or given up.                *)
Setup(w) ==
  /\ \E to \in {"loop", "check", "exit"} : Worker(w, "setup", to)
  /\ UNCHANGED <<section, start, new, todo>> /\ Quiet

Wait(w) ==
  /\ \E to \in {"loop", "recheck"} : Worker(w, "wait", to)
  /\ UNCHANGED <<section, start, new, todo>> /\ Quiet

(* The query fails, or brings a position only, or a shape.                 *)
Query(w) ==
  /\ \/ Worker(w, "query", "loop") /\ UNCHANGED new
     \/ Worker(w, "query", "load") /\ \E s \in Shapes : new' = [new EXCEPT ![w] = s]
  /\ UNCHANGED <<section, start, todo>> /\ Quiet

(* write_shape                                                             *)
LoadStart(w) ==
  /\ Worker(w, "load", "odd") /\ start' = [start EXCEPT ![w] = gen]
  /\ UNCHANGED <<section, new, todo>> /\ Quiet
StoreOdd(w) ==
  /\ Worker(w, "odd", "write") /\ gen' = Odd(start[w])
  /\ todo' = [todo EXCEPT ![w] = Parts]
  /\ UNCHANGED <<part, start, new>> /\ Quiet
WritePart(w, p) ==
  /\ Worker(w, "write", "write") /\ p \in todo[w]
  /\ part' = [part EXCEPT ![p] = new[w]] /\ todo' = [todo EXCEPT ![w] = @ \ {p}]
  /\ UNCHANGED <<gen, start, new>> /\ Quiet
StoreEven(w) ==
  /\ todo[w] = {} /\ Worker(w, "write", "loop") /\ gen' = NextEven(start[w])
  /\ UNCHANGED <<part, start, new, todo>> /\ Quiet

-----------------------------------------------------------------------------
(* CursorRt::stop, on the effects worker or in the power callback; it      *)
(* returns at once if it was called before.                                *)

Stopping == {"displaced", "stop", "discard", "drained"}
AfterStop(t) == at' = [at EXCEPT ![t] = CASE at[t] = "displaced" -> "close displaced"
                                          [] at[t] = "stop"      -> "depart"
                                          [] OTHER               -> "close"]
Calm == UNCHANGED <<section, loop, closed, held, mon, duck, left, os, host, crossed, shared>>

AskToStop(t) ==
  /\ at[t] \in Stopping
  /\ stopped' = [w \in Workers |-> stopped[w] \/ w \in held[t]]
  /\ UNCHANGED <<join, at>> /\ Calm
Joined(t) ==
  /\ at[t] \in Stopping
  /\ \A w \in held[t] : stopped[w] /\ (join[w] = "running" => pc[w] = "exit")
  /\ join' = [w \in Workers |->
                IF w \in held[t] /\ join[w] = "running" THEN "joined" ELSE join[w]]
  /\ AfterStop(t) /\ UNCHANGED stopped /\ Calm
TimedOut(t) ==
  /\ at[t] \in Stopping
  /\ held[t] # {} /\ \A w \in held[t] : stopped[w] /\ join[w] = "running"
  /\ join' = [w \in Workers |-> IF w \in held[t] THEN "detached" ELSE join[w]]
  /\ AfterStop(t) /\ UNCHANGED stopped /\ Calm

(* CursorRt::drop, after its stop: a detached worker keeps its event.      *)
Close(t) ==
  /\ at[t] \in {"close", "close displaced"}
  /\ closed' = closed \cup {w \in held[t] : join[w] # "detached"}
  /\ held' = [held EXCEPT ![t] = {}]
  /\ at' = [at EXCEPT ![t] = IF at[t] = "close" THEN "idle" ELSE "arrive"]
  /\ UNCHANGED <<section, loop, stopped, join, mon, duck, left, os, host, crossed, shared>>

-----------------------------------------------------------------------------
(* The effects worker: plug and replug_ducked, then spawn.                 *)

Effects(from, to) == at["fx"] = from /\ at' = [at EXCEPT !["fx"] = to]
Still == UNCHANGED <<loop, runtime, host, duck>>

Plug(w) ==
  /\ up /\ w \notin born /\ entry.mon \subseteq gone
  /\ Effects("idle", "plug") /\ mon' = w
  /\ UNCHANGED <<section, held, left, os, crossed, shared>> /\ Still
CreateMonitor ==
  /\ \/ Effects("plug", "insert") /\ born' = born \cup {mon} /\ UNCHANGED gone
     \/ Effects("plug", "idle") /\ gone' = gone \ {mon} /\ UNCHANGED born
  /\ UNCHANGED <<section, held, mon, left, entry, up, departed, crossed, shared>> /\ Still
Insert ==
  /\ Effects("insert", "displaced") /\ entry' = [mon |-> {mon}, cursor |-> {}]
  /\ held' = [held EXCEPT !["fx"] = entry.cursor]
  /\ UNCHANGED <<section, mon, left, up, born, gone, departed, crossed, shared>> /\ Still
Arrive ==
  /\ \/ Effects("arrive", "create") /\ UNCHANGED entry
     \/ Effects("arrive", "idle") /\ entry' = NoEntry
  /\ UNCHANGED <<section, held, mon, left, up, born, gone, departed, crossed, shared>> /\ Still

(* CursorSection::create; without a section or an event there is no worker.*)
Create ==
  /\ \/ Effects("create", "zero") /\ left' = Parts \cup {"gen"}
        /\ shared' = (shared \/ \E w \in Workers : Live(w))
        /\ crossed' = (crossed \/ hpc # "idle")
     \/ Effects("create", "idle") /\ UNCHANGED <<left, shared, crossed>>
  /\ UNCHANGED <<section, held, mon, os>> /\ Still
Zero(p) ==
  /\ Effects("zero", "zero") /\ p \in left /\ left' = left \ {p}
  /\ IF p = "gen" THEN gen' = Fresh /\ UNCHANGED part
     ELSE part' = [part EXCEPT ![p] = Blank] /\ UNCHANGED gen
  /\ UNCHANGED <<held, mon, os, crossed, shared>> /\ Still
Spawn ==
  /\ left = {}
  /\ \/ /\ Effects("zero", "store") /\ held' = [held EXCEPT !["fx"] = {mon}]
        /\ pc' = [pc EXCEPT ![mon] = "check"] /\ join' = [join EXCEPT ![mon] = "running"]
     \/ Effects("zero", "idle") /\ UNCHANGED <<held, pc, join>>
  /\ UNCHANGED <<section, start, new, todo, stopped, closed, mon, duck, left, os, host, crossed, shared>>

(* The entry may have been drained meanwhile: the CursorRt is dropped.     *)
Store ==
  /\ IF entry.mon # {}
     THEN /\ Effects("store", "idle") /\ entry' = [entry EXCEPT !.cursor = held["fx"]]
          /\ held' = [held EXCEPT !["fx"] = {}]
     ELSE Effects("store", "discard") /\ UNCHANGED <<entry, held>>
  /\ UNCHANGED <<section, mon, left, up, born, gone, departed, crossed, shared>> /\ Still

(* unplug and duck_selected: the cursor is taken and stopped, the monitor  *)
(* departs, and only then is the event closed.                             *)
Take(ducks) ==
  /\ Effects("idle", "stop") /\ duck' = ducks
  /\ mon' \in entry.mon /\ held' = [held EXCEPT !["fx"] = entry.cursor]
  /\ entry' = [entry EXCEPT !.cursor = {}]
  /\ UNCHANGED <<section, loop, runtime, left, up, born, gone, departed, host, crossed, shared>>
Depart ==
  /\ Effects("depart", "close") /\ departed' = departed \cup {mon} /\ entry' = NoEntry
  /\ UNCHANGED <<section, held, mon, left, up, born, gone, crossed, shared>> /\ Still

(* A duck-out the OS refuses: the stopped cursor goes back to the entry.   *)
HandBack ==
  /\ duck
  /\ IF entry.mon # {}
     THEN /\ Effects("depart", "idle") /\ entry' = [entry EXCEPT !.cursor = held["fx"]]
          /\ held' = [held EXCEPT !["fx"] = {}]
     ELSE Effects("depart", "close") /\ UNCHANGED <<entry, held>>
  /\ UNCHANGED <<section, mon, left, up, born, gone, departed, crossed, shared>> /\ Still

-----------------------------------------------------------------------------
(* The final exit clears the adapter and drains the entry; a new adapter   *)
(* comes up when the callback has returned.  A plug that holds the adapter *)
(* already makes its monitor on the one that goes.                         *)

FinalExit ==
  /\ up /\ at["pw"] = "idle"
  /\ up' = FALSE /\ at' = [at EXCEPT !["pw"] = "drain"]
  /\ gone' = born \cup {w \in {mon} : at["fx"] = "plug"}
  /\ UNCHANGED <<section, held, mon, left, entry, born, departed, crossed, shared>> /\ Still
Drain ==
  /\ at["pw"] = "drain" /\ at' = [at EXCEPT !["pw"] = "drained"]
  /\ held' = [held EXCEPT !["pw"] = entry.cursor] /\ entry' = NoEntry
  /\ UNCHANGED <<section, mon, left, up, born, gone, departed, crossed, shared>> /\ Still
AdapterUp ==
  /\ ~ up /\ at["pw"] = "idle" /\ up' = TRUE
  /\ UNCHANGED <<section, at, held, mon, left, entry, born, gone, departed, crossed, shared>> /\ Still

-----------------------------------------------------------------------------
(* CursorView::shape, one try.                                             *)

Around == UNCHANGED <<section, loop, runtime, control, left, os, shared>>

HostLoad ==
  /\ hpc = "idle" /\ ~ gen.odd /\ gen.n > 0
  /\ hpc' = "copy" /\ g1' = gen /\ hleft' = Parts /\ crossed' = (at["fx"] = "zero")
  /\ UNCHANGED copy /\ Around
HostCopy(p) ==
  /\ hpc = "copy" /\ p \in hleft
  /\ copy' = [copy EXCEPT ![p] = part[p]] /\ hleft' = hleft \ {p}
  /\ UNCHANGED <<hpc, g1, crossed>> /\ Around
HostValidate ==
  /\ hpc = "copy" /\ hleft = {} /\ hpc' = "idle"
  /\ UNCHANGED <<g1, copy, hleft, crossed>> /\ Around

-----------------------------------------------------------------------------
CursorLoop(w) ==
  \/ CheckStop(w) \/ Setup(w) \/ Wait(w) \/ Query(w)
  \/ LoadStart(w) \/ StoreOdd(w) \/ (\E p \in Parts : WritePart(w, p)) \/ StoreEven(w)
Stop(t) == AskToStop(t) \/ Joined(t) \/ TimedOut(t) \/ Close(t)
PlugOrDepart ==
  \/ (\E w \in Workers : Plug(w)) \/ CreateMonitor
  \/ Insert \/ Arrive \/ Create \/ (\E p \in left : Zero(p)) \/ Spawn \/ Store
  \/ (\E ducks \in BOOLEAN : Take(ducks)) \/ Depart \/ HandBack
Shape == HostLoad \/ (\E p \in Parts : HostCopy(p)) \/ HostValidate

Next ==
  \/ \E w \in Workers : CursorLoop(w)
  \/ \E t \in Threads : Stop(t)
  \/ PlugOrDepart \/ FinalExit \/ Drain \/ AdapterUp \/ Shape

Spec == Init /\ [][Next]_vars

-----------------------------------------------------------------------------
Generations == [n : Nat, odd : BOOLEAN]
Entries == [mon : SUBSET Workers, cursor : SUBSET Workers]

SectionTypes ==
  /\ gen \in Generations /\ part \in [Parts -> Shapes \cup {Blank}]
LoopTypes ==
  /\ pc \in [Workers -> {"unborn", "check", "setup", "loop", "wait", "recheck", "query",
                         "load", "odd", "write", "exit"}]
  /\ start \in [Workers -> Generations] /\ new \in [Workers -> Shapes]
  /\ todo \in [Workers -> SUBSET Parts]
RuntimeTypes ==
  /\ stopped \in [Workers -> BOOLEAN] /\ closed \subseteq Workers
  /\ join \in [Workers -> {"none", "running", "joined", "detached"}]
Labels == Stopping \cup {"idle", "plug", "insert", "arrive", "create", "zero", "store",
                         "depart", "close", "close displaced", "drain"}
ThreadTypes ==
  /\ at \in [Threads -> Labels] /\ held \in [Threads -> SUBSET Workers]
  /\ mon \in Workers /\ duck \in BOOLEAN /\ left \subseteq Parts \cup {"gen"}
ShellTypes ==
  /\ entry \in Entries /\ up \in BOOLEAN
  /\ born \subseteq Workers /\ gone \subseteq Workers /\ departed \subseteq Workers
HostTypes ==
  /\ hpc \in {"idle", "copy"} /\ g1 \in Generations
  /\ copy \in [Parts -> Shapes \cup {Blank}] /\ hleft \subseteq Parts
  /\ crossed \in BOOLEAN /\ shared \in BOOLEAN
TypeOK ==
  SectionTypes /\ LoopTypes /\ RuntimeTypes /\ ThreadTypes /\ ShellTypes /\ HostTypes

(* "No cursor query ever targets a departed monitor": a worker that was    *)
(* not detached makes no IddCx call once the departure has returned.       *)
NoQueryAfterDeparture ==
  \A w \in departed : join[w] # "detached" => ~ Live(w)

(* The event is closed only when its worker has ended, and the OS has let  *)
(* go of the monitor or is about to: the departure has returned, or the    *)
(* adapter's final exit has begun.                                         *)
EventOutlives ==
  \A w \in closed : ~ Live(w) /\ w \in departed \cup gone

(* A reader never accepts a torn copy, unless the section was zeroed while *)
(* it copied, or under a worker that was still alive.                      *)
CopyIsWhole ==
  (hpc = "copy" /\ hleft = {} /\ gen = g1 /\ ~ crossed /\ ~ shared)
    => \E s \in Shapes : copy = [p \in Parts |-> s]
=============================================================================
