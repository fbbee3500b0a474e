-------------------------- MODULE ControlGate_proofs --------------------------
(* Theorems about ControlGate, for any number of handles, requests and      *)
(* sessions, and any versions.                                              *)
EXTENDS ControlGate, TLAPS

-----------------------------------------------------------------------------
(* The authorization ladder, when each call that works tells the truth.    *)

(* Whatever fails on the way, only SYSTEM and administrators are let in,   *)
(* and they are never taken for somebody else (authorize_request,          *)
(* evt_impersonate, inspect_token).                                        *)
THEOREM LadderIsSound ==
  ASSUME NEW first \in SUBSET Calls, NEW second \in SUBSET Calls, NEW who \in Callers
  PROVE  /\ Authorize(first, second, who) = "authorized" => who \in {"system", "admin"}
         /\ Authorize(first, second, who) = "refused" => who = "other"
  <1>1. ASSUME NEW works \in SUBSET Calls
        PROVE /\ Impersonated(works, who) = "authorized" => who \in {"system", "admin"}
              /\ Impersonated(works, who) = "refused" => who = "other"
    BY DEF Impersonated, Inspect, Membership, Callers
  <1> QED
    BY <1>1 DEF Authorize

(* One call that works at each stage is enough: a caller who is entitled   *)
(* to it is let in if its token opens and is read, or else by membership.  *)
THEOREM LadderReaches ==
  ASSUME NEW first \in SUBSET Calls, NEW second \in SUBSET Calls, NEW who \in {"system", "admin"},
         NEW works \in {first, second},
         works = first \/ "impersonate" \notin first, "impersonate" \in works,
         \/ {"open", "user", "systemSid", "groups", "adminSid"} \subseteq works
         \/ {"systemSid", "isSystem", "adminSid", "isAdmin"} \subseteq works
  PROVE  Authorize(first, second, who) = "authorized"
  <1>1. Impersonated(works, who) = "authorized"
    BY DEF Impersonated, Inspect, Membership
  <1> QED
    BY <1>1 DEF Authorize

-----------------------------------------------------------------------------
(* A request under way has its handle open; one that is past the check has  *)
(* a handle that earned it.                                                 *)
Passing ==
  /\ ~ shell => handles = {}
  /\ \A r \in Requests :
       /\ at[r] # "free" => shell /\ key[r] \in open
       /\ at[r] \in {"grant", "ready", "dispatch"} => key[r] \in earned

Gate == TypeOK /\ Passing /\ NothingInherited

LEMMA GateInit == Init => Gate
  BY DEF Init, Gate, TypeOK, Passing, NothingInherited, Codes, Changing

(* What a dispatch does to all but the device state.                        *)
LEMMA DispatchKeepsGate ==
  ASSUME Gate, NEW r \in Requests, NEW c \in Codes, Dispatching(r, c), Passing',
         NEW sessions1 \in SUBSET Ids, sessions' = sessions1,
         list' \in [Ids -> Lists], preferred' \in {"none", "some"},
         plugged' \subseteq Ids, shown' \in [Ids -> Lists], missed' \subseteq Ids,
         \/ UNCHANGED <<handshaken, offered>>
         \/ \E host \in HostVersions :
              /\ handshaken' = IF Compatible(host) THEN handshaken \cup {key[r]}
                               ELSE handshaken \ {key[r]}
              /\ offered' = [offered EXCEPT ![key[r]] = host]
  PROVE  Gate'
  <1>1. /\ handles' = handles \cup {key[r]} /\ key[r] \in open /\ key[r] \in Handles
        /\ UNCHANGED <<shell, ready, exiting, open, authorized, key, code, earned>>
        /\ at' \in [Requests -> {"free", "lookup", "caller", "grant", "ready", "dispatch"}]
    BY DEF Dispatching, Goto, Gate, TypeOK, Passing
  <1>2. TypeOK' /\ NothingInherited'
    <2>1. CASE UNCHANGED <<handshaken, offered>>
      BY <1>1, <2>1 DEF Gate, TypeOK, NothingInherited, Compatible
    <2>2. ASSUME NEW host \in HostVersions,
                 handshaken' = IF Compatible(host) THEN handshaken \cup {key[r]}
                               ELSE handshaken \ {key[r]},
                 offered' = [offered EXCEPT ![key[r]] = host]
          PROVE TypeOK' /\ NothingInherited'
      <3>1. CASE Compatible(host)
        BY <1>1, <2>2, <3>1 DEF Gate, TypeOK, NothingInherited, Compatible
      <3>2. CASE ~ Compatible(host)
        BY <1>1, <2>2, <3>2 DEF Gate, TypeOK, NothingInherited, Compatible
      <3> QED
        BY <3>1, <3>2
    <2> QED
      BY <2>1, <2>2
  <1> QED
    BY <1>2 DEF Gate

LEMMA GateStep == Gate /\ [Next]_vars => Gate'
  <1> SUFFICES ASSUME Gate, [Next]_vars PROVE Gate'
    OBVIOUS
  <1>a. ASSUME NEW r \in Requests, NEW c, Dispatching(r, c) PROVE Passing'
    BY <1>a DEF Dispatching, Goto, Gate, TypeOK, Passing
  <1>1. CASE ShellInit \/ FinalExit \/ TeardownReset
    BY <1>1 DEF ShellInit, FinalExit, TeardownReset, context, request, device, told, history,
                Gate, TypeOK, Passing, NothingInherited, Compatible
  <1>b. ASSUME NEW made \in SUBSET Members, NEW modes \in Lists, AdapterUp(made, modes) PROVE Gate'
    BY <1>b DEF AdapterUp, context, request, history, Ids,
                Gate, TypeOK, Passing, NothingInherited, Compatible
  <1>c. ASSUME NEW reaped \in SUBSET Sessions, WatchdogTick(reaped) PROVE Gate'
    BY <1>c DEF WatchdogTick, context, request, history,
                Gate, TypeOK, Passing, NothingInherited, Compatible
  <1>2. ASSUME NEW h \in Handles, FileCreate(h) PROVE Gate'
    <2>1. CASE shell
      BY <1>2, <2>1 DEF FileCreate, request, device, told,
                        Gate, TypeOK, Passing, NothingInherited, Compatible
    <2>2. CASE ~ shell
      BY <1>2, <2>2 DEF FileCreate, context, request, device, told,
                        Gate, TypeOK, Passing, NothingInherited, Compatible
    <2> QED
      BY <2>1, <2>2
  <1>3. ASSUME NEW h \in Handles, FileClose(h) PROVE Gate'
    <2>1. CASE shell
      BY <1>3, <2>1 DEF FileClose, request, device, told, history,
                        Gate, TypeOK, Passing, NothingInherited, Compatible
    <2>2. CASE ~ shell
      BY <1>3, <2>2 DEF FileClose, context, request, device, told, history,
                        Gate, TypeOK, Passing, NothingInherited, Compatible
    <2> QED
      BY <2>1, <2>2
  <1>4. ASSUME NEW r \in Requests, NEW h \in Handles, NEW c \in Codes, Submit(r, h, c) PROVE Gate'
    BY <1>4 DEF Submit, Goto, context, device, told, history,
                Gate, TypeOK, Passing, NothingInherited, Compatible
  <1>5. ASSUME NEW r \in Requests, LookUp(r) PROVE Gate'
    BY <1>5 DEF LookUp, Goto, context, device, told, history,
                Gate, TypeOK, Passing, NothingInherited, Compatible
  <1>6. ASSUME NEW r \in Requests, NEW who \in Callers, NEW verdict, CheckCaller(r, who, verdict)
        PROVE Gate'
    <2>1. CASE verdict = "authorized"
      BY <1>6, <2>1 DEF CheckCaller, Goto, context, device, told,
                        Gate, TypeOK, Passing, NothingInherited, Compatible
    <2>2. CASE verdict # "authorized"
      BY <1>6, <2>2 DEF CheckCaller, Goto, context, device, told,
                        Gate, TypeOK, Passing, NothingInherited, Compatible
    <2> QED
      BY <2>1, <2>2
  <1>7. ASSUME NEW r \in Requests, Grant(r) PROVE Gate'
    BY <1>7 DEF Grant, Goto, device, told, history,
                Gate, TypeOK, Passing, NothingInherited, Compatible
  <1>8. ASSUME NEW r \in Requests, CheckReady(r) \/ NoBuffer(r) PROVE Gate'
    BY <1>8 DEF CheckReady, NoBuffer, Goto, context, device, told, history,
                Gate, TypeOK, Passing, NothingInherited, Compatible
  <1>9. ASSUME NEW r \in Requests, Dispatch(r) PROVE Gate'
    <2> USE DEF Gate, TypeOK
    <2>1. ASSUME NEW host \in HostVersions, Handshake(r, host) PROVE Gate'
      <3>1. Dispatching(r, "handshake") /\ "handshake" \in Codes
        BY <2>1 DEF Handshake, Codes
      <3> QED
        BY <2>1, <3>1, <1>a, DispatchKeepsGate DEF Handshake, device, told
    <2>2. CASE Answer(r)
      <3>1. PICK c \in Codes : Dispatching(r, c)
        BY <2>2 DEF Answer
      <3> QED
        BY <2>2, <3>1, <1>a, DispatchKeepsGate DEF Answer, device, told
    <2>3. ASSUME NEW s \in Ids, NEW fits \in BOOLEAN, Destroy(r, s, fits) PROVE Gate'
      <3>1. Dispatching(r, "destroy") /\ "destroy" \in Codes
        BY <2>3 DEF Destroy, Codes, Changing
      <3>2. plugged' \subseteq Ids /\ missed' \subseteq Ids
        BY <2>3 DEF Destroy
      <3>3. /\ sessions' \in SUBSET Ids /\ list' \in [Ids -> Lists] /\ shown' \in [Ids -> Lists]
            /\ preferred' \in {"none", "some"} /\ UNCHANGED <<handshaken, offered>>
        BY <2>3 DEF Destroy
      <3> QED
        BY <3>1, <3>2, <3>3, <1>a, DispatchKeepsGate
    <2>4. ASSUME NEW s \in Ids, NEW modes \in Lists, NEW fits \in BOOLEAN,
                 Create(r, s, modes, fits) PROVE Gate'
      <3>1. Dispatching(r, "create") /\ "create" \in Codes
        BY <2>4 DEF Create, Codes, Changing
      <3>2. plugged' \subseteq Ids /\ missed' \subseteq Ids /\ shown' \in [Ids -> Lists]
        BY <2>4 DEF Create, told
      <3>3. /\ sessions' \in SUBSET Ids /\ list' \in [Ids -> Lists]
            /\ preferred' \in {"none", "some"} /\ UNCHANGED <<handshaken, offered>>
        BY <2>4 DEF Create
      <3> QED
        BY <3>1, <3>2, <3>3, <1>a, DispatchKeepsGate
    <2>5. ASSUME NEW s \in Ids, NEW modes \in Lists, NEW fits \in BOOLEAN,
                 UpdateModes(r, s, modes, fits) PROVE Gate'
      <3>1. Dispatching(r, "update") /\ "update" \in Codes
        BY <2>5 DEF UpdateModes, Codes, Changing
      <3>2. missed' \subseteq Ids /\ shown' \in [Ids -> Lists]
        BY <2>5 DEF UpdateModes
      <3> QED
        BY <2>5, <3>1, <3>2, <1>a, DispatchKeepsGate DEF UpdateModes
    <2>6. CASE SetRenderAdapter(r)
      <3>1. Dispatching(r, "adapter") /\ "adapter" \in Codes
        BY <2>6 DEF SetRenderAdapter, Codes
      <3> QED
        BY <2>6, <3>1, <1>a, DispatchKeepsGate DEF SetRenderAdapter, told
    <2>7. ASSUME NEW gone \in SUBSET Members, NEW made \in SUBSET Members, NEW modes \in Lists,
                 NEW fits \in BOOLEAN, SetPool(r, gone, made, modes, fits) PROVE Gate'
      <3>1. Dispatching(r, "pool") /\ "pool" \in Codes
        BY <2>7 DEF SetPool, Codes, Changing
      <3>2. plugged' \subseteq Ids /\ missed' \subseteq Ids /\ shown' \in [Ids -> Lists]
        BY <2>7 DEF SetPool, told, Ids
      <3>3. sessions' \in SUBSET Ids /\ list' \in [Ids -> Lists]
        BY <2>7 DEF SetPool, Ids
      <3> QED
        BY <2>7, <3>1, <3>2, <3>3, <1>a, DispatchKeepsGate DEF SetPool
    <2> QED
      BY <1>9, <2>1, <2>2, <2>3, <2>4, <2>5, <2>6, <2>7 DEF Dispatch
  <1>10. CASE UNCHANGED vars
    BY <1>10 DEF vars, context, request, device, told, history,
                 Gate, TypeOK, Passing, NothingInherited, Compatible
  <1> QED
    BY <1>1, <1>2, <1>3, <1>4, <1>5, <1>6, <1>7, <1>8, <1>9, <1>10, <1>b, <1>c DEF Next

LEMMA GateHolds == Spec => []Gate
  BY GateInit, GateStep, PTL DEF Spec

(* The variables keep their types.                                         *)
THEOREM TypeCorrect == Spec => []TypeOK
  <1>1. Gate => TypeOK
    BY DEF Gate
  <1> QED
    BY <1>1, GateHolds, PTL

(* An address used again inherits nothing from the handle before.          *)
THEOREM HandlesStartAfresh == Spec => []NothingInherited
  <1>1. Gate => NothingInherited
    BY DEF Gate
  <1> QED
    BY <1>1, GateHolds, PTL

-----------------------------------------------------------------------------
(* Every change of the device state went through the gate.                 *)
THEOREM OnlyGatedChanges == Spec => ChangesAreGated
  <1>1. Gate /\ [Next]_vars => [~ UNCHANGED device => Gated \/ OwnChange]_vars
    <2> SUFFICES ASSUME Gate, Next, ~ UNCHANGED device PROVE Gated \/ OwnChange
      BY DEF vars, device
    <2>1. CASE \/ TeardownReset
               \/ \E made \in SUBSET Members, modes \in Lists : AdapterUp(made, modes)
               \/ \E reaped \in SUBSET Sessions : WatchdogTick(reaped)
      BY <2>1 DEF TeardownReset, AdapterUp, WatchdogTick, OwnChange
    <2>2. ASSUME NEW r \in Requests, at[r] = "dispatch", ShookHands(r) PROVE Gated
      BY <2>2 DEF Gate, Passing, NothingInherited, ShookHands, Gated
    <2>3. ~ (ShellInit \/ FinalExit)
      BY DEF ShellInit, FinalExit, device
    <2>4. \A h \in Handles : ~ (FileCreate(h) \/ FileClose(h))
      BY DEF FileCreate, FileClose, device
    <2>5. ASSUME NEW r \in Requests
          PROVE /\ \A h \in Handles, c \in Codes : ~ Submit(r, h, c)
                /\ \A who, verdict : ~ CheckCaller(r, who, verdict)
                /\ ~ (LookUp(r) \/ Grant(r) \/ CheckReady(r) \/ NoBuffer(r))
      BY DEF Submit, CheckCaller, LookUp, Grant, CheckReady, NoBuffer, device
    <2>6. ASSUME NEW r \in Requests, Dispatch(r) PROVE at[r] = "dispatch" /\ ShookHands(r)
      BY <2>6 DEF Dispatch, Handshake, Answer, Destroy, Create, UpdateModes,
                  SetRenderAdapter, SetPool, Dispatching, device
    <2> QED
      BY <2>1, <2>2, <2>3, <2>4, <2>5, <2>6 DEF Next
  <1> QED
    BY <1>1, GateHolds, PTL DEF Spec, ChangesAreGated

-----------------------------------------------------------------------------
(* What the table holds and what the effects say.                          *)

LEMMA ToldStep == Gate /\ TableIsTold /\ [Next]_vars => TableIsTold'
  <1> SUFFICES ASSUME Gate, TableIsTold, [Next]_vars PROVE TableIsTold'
    OBVIOUS
  <1> USE DEF TableIsTold
  <1>a. ASSUME UNCHANGED <<sessions, list, told, missed>> PROVE TableIsTold'
    BY <1>a DEF told
  <1>1. CASE TeardownReset
    BY <1>1 DEF TeardownReset
  <1>2. CASE ShellInit \/ FinalExit
    BY <1>2, <1>a DEF ShellInit, FinalExit, device, history
  <1>b. ASSUME NEW made \in SUBSET Members, NEW modes \in Lists, AdapterUp(made, modes)
        PROVE TableIsTold'
    BY <1>b DEF AdapterUp, history, Ids, Gate, TypeOK
  <1>c. ASSUME NEW reaped \in SUBSET Sessions, WatchdogTick(reaped) PROVE TableIsTold'
    BY <1>c DEF WatchdogTick, history
  <1>3. ASSUME NEW h \in Handles, FileCreate(h) \/ FileClose(h) PROVE TableIsTold'
    BY <1>3, <1>a DEF FileCreate, FileClose, device, history
  <1>4. ASSUME NEW r \in Requests,
               \/ \E h \in Handles, c \in Codes : Submit(r, h, c)
               \/ \E who, verdict : CheckCaller(r, who, verdict)
               \/ LookUp(r) \/ Grant(r) \/ CheckReady(r) \/ NoBuffer(r)
        PROVE TableIsTold'
    BY <1>4, <1>a DEF Submit, CheckCaller, LookUp, Grant, CheckReady, NoBuffer, device, history
  <1>5. ASSUME NEW r \in Requests, Dispatch(r) PROVE TableIsTold'
    <2> USE DEF Gate, TypeOK
    <2>1. ASSUME NEW host \in HostVersions, Handshake(r, host) PROVE TableIsTold'
      BY <2>1, <1>a DEF Handshake, device
    <2>2. CASE Answer(r) \/ SetRenderAdapter(r)
      BY <2>2, <1>a DEF Answer, SetRenderAdapter, device
    <2>3. ASSUME NEW s \in Ids, NEW fits \in BOOLEAN, Destroy(r, s, fits) PROVE TableIsTold'
      <3>1. CASE Delivered(fits)
        BY <2>3, <3>1 DEF Destroy
      <3>2. CASE ~ Delivered(fits)
        BY <2>3, <3>2 DEF Destroy
      <3> QED
        BY <3>1, <3>2
    <2>4. ASSUME NEW s \in Ids, NEW modes \in Lists, NEW fits \in BOOLEAN,
                 Create(r, s, modes, fits) PROVE TableIsTold'
      <3>1. CASE Delivered(fits)
        BY <2>4, <3>1 DEF Create
      <3>2. CASE ~ Delivered(fits)
        BY <2>4, <3>2 DEF Create, told
      <3> QED
        BY <3>1, <3>2
    <2>5. ASSUME NEW s \in Ids, NEW modes \in Lists, NEW fits \in BOOLEAN,
                 UpdateModes(r, s, modes, fits) PROVE TableIsTold'
      <3>1. CASE ready
        BY <2>5, <3>1 DEF UpdateModes
      <3>2. CASE ~ ready
        BY <2>5, <3>2 DEF UpdateModes
      <3> QED
        BY <3>1, <3>2
    <2>6. ASSUME NEW gone \in SUBSET Members, NEW made \in SUBSET Members, NEW modes \in Lists,
                 NEW fits \in BOOLEAN, SetPool(r, gone, made, modes, fits) PROVE TableIsTold'
      <3>1. CASE Delivered(fits)
        BY <2>6, <3>1 DEF SetPool
      <3>2. CASE ~ Delivered(fits)
        BY <2>6, <3>2 DEF SetPool, told
      <3> QED
        BY <3>1, <3>2
    <2> QED
      BY <1>5, <2>1, <2>2, <2>3, <2>4, <2>5, <2>6 DEF Dispatch
  <1>6. CASE UNCHANGED vars
    BY <1>6, <1>a DEF vars, device, history
  <1> QED
    BY <1>1, <1>2, <1>3, <1>4, <1>5, <1>6, <1>b, <1>c DEF Next

(* The table and the effects agree, but for a reply that did not fit and an *)
(* adapter that went in between.                                            *)
THEOREM EffectsFollowTable == Spec => []TableIsTold
  <1>1. Init => TableIsTold
    BY DEF Init, TableIsTold
  <1> QED
    BY <1>1, GateHolds, ToldStep, PTL DEF Spec

(* A list never changes without the effect that tells the OS.              *)
THEOREM NoSilentUpdate == Spec => ListsAreTold
  <1> DEFINE Told ==
        \A s \in Ids :
          (s \in sessions /\ s \in sessions' \ Members /\ list'[s] # list[s] /\ ready)
            => shown'[s] = list'[s]
  <1>1. Gate /\ [Next]_vars => [Told]_vars
    <2> SUFFICES ASSUME Gate, Next,
                        NEW s \in Ids, s \in sessions, s \notin Members, list'[s] # list[s], ready
                 PROVE shown'[s] = list'[s]
      OBVIOUS
    <2> USE DEF Gate, TypeOK
    <2>1. PICK r \in Requests : Dispatch(r)
      BY DEF Next, ShellInit, AdapterUp, WatchdogTick, FinalExit, TeardownReset,
             FileCreate, FileClose, Submit, CheckCaller,
             LookUp, Grant, CheckReady, NoBuffer, device
    <2>2. \E u \in Ids, modes \in Lists, fits \in BOOLEAN :
            Create(r, u, modes, fits) \/ UpdateModes(r, u, modes, fits)
      BY <2>1 DEF Dispatch, Handshake, Answer, Destroy, SetRenderAdapter, SetPool, device
    <2> QED
      BY <2>2 DEF Create, UpdateModes
  <1> QED
    BY <1>1, GateHolds, PTL DEF Spec, ListsAreTold
=============================================================================
