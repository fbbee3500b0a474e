----------------------------- MODULE ControlGate ------------------------------
(***************************************************************************)
(* What a control IOCTL passes on its way to the device state: the table   *)
(* of open handles, the authorization of the caller on the first request   *)
(* of a handle, the check that the adapter is up, the handshake, and the   *)
(* buffers.  Requests run concurrently; the table of handles is looked at  *)
(* three times, under its lock each time and with the lock free between.   *)
(*                                                                         *)
(* A request's parameters are chosen when they are read.  Of the device    *)
(* state there is what the gate can spoil: the sessions, the mode list     *)
(* each is to publish, and what the effects handed over so far leave of    *)
(* both; ControlPlane and ModeUpdates have what a handler decides, and     *)
(* the order in which the effects of two handlers are queued.              *)
(*                                                                         *)
(* External: WDF closes a handle only once its requests are complete, and  *)
(* a token that can be inspected tells who the caller is.                  *)
(***************************************************************************)
EXTENDS Naturals

CONSTANTS
  Handles,      \* file objects, by address: used again after a close
  Requests,     \* requests in flight
  Sessions,     \* session ids of hosts
  Members,      \* session ids of the permanent pool
  Lists,        \* mode lists
  HostVersions, \* the protocol versions hosts shake hands with
  DriverVersion,\* PROTO_VERSION_MAJOR, PROTO_VERSION_MINOR
  NoVersion     \* no handshake yet

VARIABLES
  shell,        \* the Shell exists
  ready,        \* the adapter is published
  exiting,      \* in a final exit, between the adapter's end and the reset
  open,         \* handles the OS has open
  handles,      \* the keys of Shell.handles
  authorized,   \* HandleCtx.authorized
  handshaken,   \* HandleCtx.handshaken
  at, key, code,\* of a request: where it is, its handle, its IOCTL
  sessions,     \* SessionTable.monitors
  list,         \* the list each session was last given
  preferred,    \* preferred_adapter
  plugged,      \* sessions the effects leave plugged
  shown,        \* lists the effects carry
  \* history
  earned,       \* handles one of whose callers, since the open, was let in
  offered,      \* the version last shaken hands with, since the open
  missed        \* sessions whose effect was not carried out

context == <<handles, authorized, handshaken>>
request == <<at, key, code>>
device  == <<sessions, list, preferred>>
told    == <<plugged, shown>>
history == <<earned, offered, missed>>
vars == <<shell, ready, exiting, open, context, request, device, told, history>>

Ids == Sessions \cup Members
Changing == {"create", "destroy", "update", "pool"}
Codes == Changing \cup {"handshake", "ping", "lease", "adapter", "status"}
RequiresAdapter == Changing

(* versions_compatible *)
Compatible(host) ==
  host.major = DriverVersion.major /\ host.minor <= DriverVersion.minor

-----------------------------------------------------------------------------
(* authorize_request.  An observation is what the calls of one attempt at  *)
(* impersonation answer: which of them work at all.                        *)

Callers == {"system", "admin", "other"}
Calls == {"impersonate", "open", "user", "groups", "systemSid", "adminSid",
          "isSystem", "isAdmin"}

(* inspect_token *)
Inspect(works, who) ==
  IF ~ ({"open", "user", "systemSid"} \subseteq works) THEN "unset"
  ELSE IF who = "system" THEN "authorized"
  ELSE IF ~ ({"groups", "adminSid"} \subseteq works) THEN "unset"
  ELSE IF who = "admin" THEN "authorized" ELSE "refused"

(* The last rung of evt_impersonate asks for both memberships; only a run  *)
(* in which both answered may conclude.  LocalSystem is an administrator.  *)
Membership(works, who) ==
  IF \/ who = "system" /\ {"systemSid", "isSystem"} \subseteq works
     \/ who # "other" /\ {"adminSid", "isAdmin"} \subseteq works
  THEN "authorized"
  ELSE IF {"systemSid", "isSystem", "adminSid", "isAdmin"} \subseteq works
  THEN "refused" ELSE "unset"

Impersonated(works, who) ==
  IF Inspect(works, who) # "unset" THEN Inspect(works, who) ELSE Membership(works, who)

(* SecurityImpersonation, then SecurityIdentification.                     *)
Authorize(first, second, who) ==
  IF "impersonate" \in first THEN Impersonated(first, who)
  ELSE IF "impersonate" \in second THEN Impersonated(second, who)
  ELSE "unset"

Verdicts ==
  [who \in Callers |-> {Authorize(first, second, who) : first, second \in SUBSET Calls}]

-----------------------------------------------------------------------------
Init ==
  /\ shell = FALSE /\ ready = FALSE /\ exiting = FALSE /\ open = {}
  /\ handles = {} /\ authorized = {} /\ handshaken = {}
  /\ at = [r \in Requests |-> "free"]
  /\ key \in [Requests -> Handles] /\ code = [r \in Requests |-> "status"]
  /\ sessions = {} /\ list \in [Ids -> Lists] /\ preferred = "none"
  /\ plugged = {} /\ shown = list
  /\ earned = {} /\ offered = [h \in Handles |-> NoVersion] /\ missed = {}

(* Device add, and the bring-up of the adapter with the pool's members.    *)
ShellInit ==
  /\ ~ shell /\ shell' = TRUE
  /\ UNCHANGED <<ready, exiting, open, context, request, device, told, history>>
AdapterUp(made, modes) ==
  /\ shell /\ ~ ready /\ ~ exiting /\ ready' = TRUE
  /\ made \cap sessions = {}
  /\ sessions' = sessions \cup made /\ plugged' = plugged \cup made
  /\ list' = [s \in Ids |-> IF s \in made THEN modes ELSE list[s]]
  /\ shown' = [s \in Ids |-> IF s \in made THEN modes ELSE shown[s]]
  /\ UNCHANGED <<shell, exiting, open, context, request, preferred, history>>

(* The watchdog tick; the pool's leases never expire.                      *)
WatchdogTick(reaped) ==
  /\ ready /\ reaped \subseteq sessions \ Members
  /\ sessions' = sessions \ reaped /\ plugged' = plugged \ reaped
  /\ UNCHANGED <<shell, ready, exiting, open, context, request, list, preferred, shown, history>>

(* The final exit clears the adapter, then drains the monitors and resets  *)
(* the table; requests go on meanwhile.                                    *)
FinalExit ==
  /\ ready /\ ready' = FALSE /\ exiting' = TRUE
  /\ UNCHANGED <<shell, open, context, request, device, told, history>>
TeardownReset ==
  /\ exiting /\ exiting' = FALSE
  /\ sessions' = {} /\ plugged' = {} /\ missed' = {}
  /\ UNCHANGED <<shell, ready, open, context, request, list, preferred, shown, earned, offered>>

(* evt_file_create: by whatever name, the handle starts unauthorized.      *)
FileCreate(h) ==
  /\ h \notin open /\ open' = open \cup {h}
  /\ IF shell
     THEN /\ handles' = handles \cup {h}
          /\ authorized' = authorized \ {h} /\ handshaken' = handshaken \ {h}
     ELSE UNCHANGED context
  /\ earned' = earned \ {h} /\ offered' = [offered EXCEPT ![h] = NoVersion]
  /\ UNCHANGED <<shell, ready, exiting, request, device, told, missed>>

(* evt_file_close *)
FileClose(h) ==
  /\ h \in open /\ \A r \in Requests : at[r] # "free" => key[r] # h
  /\ open' = open \ {h}
  /\ IF shell
     THEN /\ handles' = handles \ {h}
          /\ authorized' = authorized \ {h} /\ handshaken' = handshaken \ {h}
     ELSE UNCHANGED context
  /\ UNCHANGED <<shell, ready, exiting, request, device, told, history>>

-----------------------------------------------------------------------------
(* evt_ioctl                                                               *)

Goto(r, label) == at' = [at EXCEPT ![r] = label]

Submit(r, h, c) ==
  /\ shell /\ at[r] = "free" /\ h \in open
  /\ key' = [key EXCEPT ![r] = h] /\ code' = [code EXCEPT ![r] = c]
  /\ Goto(r, "lookup")
  /\ UNCHANGED <<shell, ready, exiting, open, context, device, told, history>>

LookUp(r) ==
  /\ at[r] = "lookup"
  /\ Goto(r, IF key[r] \in authorized THEN "ready" ELSE "caller")
  /\ UNCHANGED <<shell, ready, exiting, open, context, key, code, device, told, history>>

(* A caller that is refused, or whom nothing could tell, gets no further.  *)
CheckCaller(r, who, verdict) ==
  /\ at[r] = "caller" /\ verdict \in Verdicts[who]
  /\ IF verdict = "authorized"
     THEN Goto(r, "grant") /\ earned' = earned \cup {key[r]}
     ELSE Goto(r, "free") /\ UNCHANGED earned
  /\ UNCHANGED <<shell, ready, exiting, open, context, key, code, device, told, offered, missed>>

Grant(r) ==
  /\ at[r] = "grant"
  /\ handles' = handles \cup {key[r]} /\ authorized' = authorized \cup {key[r]}
  /\ Goto(r, "ready")
  /\ UNCHANGED <<shell, ready, exiting, open, handshaken, key, code, device, told, history>>

CheckReady(r) ==
  /\ at[r] = "ready"
  /\ Goto(r, IF code[r] \in RequiresAdapter /\ ~ ready THEN "free" ELSE "dispatch")
  /\ UNCHANGED <<shell, ready, exiting, open, context, key, code, device, told, history>>

(* A buffer that cannot be retrieved, or is too short to be read.          *)
NoBuffer(r) ==
  /\ at[r] = "dispatch"
  /\ Goto(r, "free")
  /\ UNCHANGED <<shell, ready, exiting, open, context, key, code, device, told, history>>

-----------------------------------------------------------------------------
(* dispatch, under the locks of the handles and of the device.  "fits" is  *)
(* whether the output buffer takes the reply: a reply that does not fit    *)
(* takes the effects with it, and so does an adapter that has gone.        *)

Dispatching(r, c) ==
  /\ at[r] = "dispatch" /\ code[r] = c
  /\ Goto(r, "free")
  /\ handles' = handles \cup {key[r]}
  /\ UNCHANGED <<shell, ready, exiting, open, authorized, key, code, earned>>
ShookHands(r) == key[r] \in handshaken
Delivered(fits) == fits /\ ready

(* The version counts even if the reply does not fit.                      *)
Handshake(r, host) ==
  /\ Dispatching(r, "handshake")
  /\ handshaken' = IF Compatible(host) THEN handshaken \cup {key[r]}
                   ELSE handshaken \ {key[r]}
  /\ offered' = [offered EXCEPT ![key[r]] = host]
  /\ UNCHANGED <<device, told, missed>>

(* NOT_HANDSHAKEN, an error of the table, or a request that reads.         *)
Answer(r) ==
  /\ \E c \in Codes \ {"handshake"} : Dispatching(r, c)
  /\ UNCHANGED <<handshaken, device, told, offered, missed>>

Create(r, s, modes, fits) ==
  /\ Dispatching(r, "create") /\ ShookHands(r) /\ s \notin sessions
  /\ sessions' = sessions \cup {s} /\ list' = [list EXCEPT ![s] = modes]
  /\ IF Delivered(fits)
     THEN /\ plugged' = plugged \cup {s} /\ shown' = [shown EXCEPT ![s] = modes]
          /\ UNCHANGED missed
     ELSE missed' = missed \cup {s} /\ UNCHANGED told
  /\ UNCHANGED <<handshaken, preferred, offered>>

Destroy(r, s, fits) ==
  /\ Dispatching(r, "destroy") /\ ShookHands(r) /\ s \in sessions
  /\ sessions' = sessions \ {s}
  /\ IF Delivered(fits)
     THEN plugged' = plugged \ {s} /\ UNCHANGED missed
     ELSE missed' = missed \cup {s} /\ UNCHANGED plugged
  /\ UNCHANGED <<handshaken, list, preferred, shown, offered>>

(* The one handler that looks at the output buffer before the table.       *)
UpdateModes(r, s, modes, fits) ==
  /\ Dispatching(r, "update") /\ fits /\ ShookHands(r)
  /\ s \in sessions /\ modes # list[s]
  /\ list' = [list EXCEPT ![s] = modes]
  /\ IF ready THEN shown' = [shown EXCEPT ![s] = modes] /\ UNCHANGED missed
     ELSE missed' = missed \cup {s} /\ UNCHANGED shown
  /\ UNCHANGED <<handshaken, sessions, preferred, plugged, offered>>

SetRenderAdapter(r) ==
  /\ Dispatching(r, "adapter") /\ ShookHands(r)
  /\ preferred' \in {"none", "some"}
  /\ UNCHANGED <<handshaken, sessions, list, told, offered, missed>>

(* apply_pool: "gone" leave, "made" are created, as many as could be.      *)
SetPool(r, gone, made, modes, fits) ==
  /\ Dispatching(r, "pool") /\ ShookHands(r)
  /\ gone \subseteq sessions /\ made \cap sessions \subseteq gone
  /\ sessions' = (sessions \ gone) \cup made
  /\ list' = [s \in Ids |-> IF s \in made THEN modes ELSE list[s]]
  /\ IF Delivered(fits)
     THEN /\ plugged' = (plugged \ gone) \cup made
          /\ shown' = [s \in Ids |-> IF s \in made THEN modes ELSE shown[s]]
          /\ UNCHANGED missed
     ELSE missed' = missed \cup gone \cup made /\ UNCHANGED told
  /\ UNCHANGED <<handshaken, preferred, offered>>

Dispatch(r) ==
  \/ \E host \in HostVersions : Handshake(r, host)
  \/ Answer(r)
  \/ \E s \in Ids, fits \in BOOLEAN : Destroy(r, s, fits)
  \/ \E s \in Ids, modes \in Lists, fits \in BOOLEAN :
        Create(r, s, modes, fits) \/ UpdateModes(r, s, modes, fits)
  \/ SetRenderAdapter(r)
  \/ \E gone, made \in SUBSET Members, modes \in Lists, fits \in BOOLEAN :
        SetPool(r, gone, made, modes, fits)

Next ==
  \/ ShellInit \/ FinalExit \/ TeardownReset
  \/ \E made \in SUBSET Members, modes \in Lists : AdapterUp(made, modes)
  \/ \E reaped \in SUBSET Sessions : WatchdogTick(reaped)
  \/ \E h \in Handles : FileCreate(h) \/ FileClose(h)
  \/ \E r \in Requests :
       \/ \E h \in Handles, c \in Codes : Submit(r, h, c)
       \/ \E who \in Callers, verdict \in {"authorized", "refused", "unset"} :
             CheckCaller(r, who, verdict)
       \/ LookUp(r) \/ Grant(r) \/ CheckReady(r) \/ NoBuffer(r) \/ Dispatch(r)

Spec == Init /\ [][Next]_vars

-----------------------------------------------------------------------------
TypeOK ==
  /\ shell \in BOOLEAN /\ ready \in BOOLEAN /\ exiting \in BOOLEAN
  /\ open \subseteq Handles /\ handles \subseteq Handles
  /\ authorized \subseteq handles /\ handshaken \subseteq handles
  /\ at \in [Requests -> {"free", "lookup", "caller", "grant", "ready", "dispatch"}]
  /\ key \in [Requests -> Handles] /\ code \in [Requests -> Codes]
  /\ sessions \subseteq Ids /\ list \in [Ids -> Lists] /\ preferred \in {"none", "some"}
  /\ plugged \subseteq Ids /\ shown \in [Ids -> Lists] /\ missed \subseteq Ids
  /\ earned \subseteq Handles /\ offered \in [Handles -> HostVersions \cup {NoVersion}]

(* A handle is authorized, or past its handshake, only by what happened    *)
(* since this open of it: an address used again inherits nothing from the  *)
(* handle that had it before, whatever requests were under way on either.  *)
NothingInherited ==
  /\ handles \subseteq open
  /\ authorized \subseteq earned
  /\ \A h \in handshaken : offered[h] \in HostVersions /\ Compatible(offered[h])

(* The device state changes only under a request of a handle that earned   *)
(* its authorization and whose last handshake carried a version the driver *)
(* serves; the bring-up, the watchdog and a final exit are the only others *)
(* that change it.                                                         *)
Gated ==
  \E r \in Requests :
    /\ at[r] = "dispatch" /\ key[r] \in earned
    /\ offered[key[r]] \in HostVersions /\ Compatible(offered[key[r]])
OwnChange ==
  \/ exiting /\ ~ exiting'
  \/ ~ ready /\ ready'
  \/ ready /\ sessions' \subseteq sessions /\ UNCHANGED <<request, list, preferred>>
ChangesAreGated == [][~ UNCHANGED device => Gated \/ OwnChange]_vars

(* The sessions of the table are the ones the effects leave plugged, with  *)
(* the lists the effects carry, but for those of a reply that did not fit  *)
(* or an adapter that went between the check and the dispatch.             *)
TableIsTold ==
  \A s \in Ids \ missed :
    /\ s \in sessions <=> s \in plugged
    /\ s \in sessions => list[s] = shown[s]

(* dispatch's reason to look at the output buffer first: a session's list  *)
(* never changes without the effect that tells the OS, unless the adapter  *)
(* is gone.                                                                *)
ListsAreTold ==
  [][ \A s \in Ids :
        (s \in sessions /\ s \in sessions' \ Members /\ list'[s] # list[s] /\ ready)
          => shown'[s] = list'[s] ]_vars
=============================================================================
