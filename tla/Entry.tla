------------------------------- MODULE Entry -------------------------------
(***************************************************************************)
(* The life of one config entry: __init__.py and config_flow.py over the   *)
(* client (homeaccess/api.py) and the coordinator, for an account with one *)
(* lock, in a datacenter that has a WebSocket.                             *)
(*                                                                         *)
(* Three jobs write the state file: "poll", the discovery that async_setup_*)
(* entry awaits and then the coordinator's polls; "command", a user's      *)
(* command whose token was rejected; and "flow", a sign-in form.  A job is *)
(* split where it awaits the cloud or the file.  Sign-ins are one step at  *)
(* the cloud here, and a token may be rejected at any time: Session says   *)
(* when.  Setup, unload, reload, removal and the calls that Home Assistant *)
(* makes between them are its own: only their order is modelled.           *)
(***************************************************************************)
EXTENDS StateFile

CONSTANTS MaxClicks,   \* bound: what the user does
          MaxFaults    \* bound: rejections, failures and restarts

ASSUME EntryAssumption ==
  /\ Writers = {"poll", "command", "flow"}
  /\ Parts = {"tokenset", "datacenters", "devices"}
  /\ MaxClicks \in Nat /\ MaxFaults \in Nat

VARIABLES
  entry,      \* where the entry stands
  inst,       \* the client and coordinator of the last async_setup_entry
  listeners,  \* listener tasks running, whosever they are
  mine,       \* coordinator._ws_tasks, of the last setup's coordinator
  aborted,    \* ghost: setups whose platforms failed, since the last start
  faces,      \* the registry entry of each of the lock's two faces
  wanted,     \* the option: show the lock as state only
  reload,     \* Home Assistant will reload the entry
  reauth,     \* the form that asks for the password is open
  valid,      \* whether the password of the entry, of the form, is the account's
  job,        \* what each job is doing
  logins,     \* the tokens of the last login
  clicks, faults

listening == <<listeners, mine, aborted>>
homeVars == <<faces, wanted, reload, reauth, valid>>
budget == <<clicks, faults>>
vars == <<fileVars, entry, inst, listening, homeVars, job, logins, budget>>

\* setup: in the first refresh; starting: in async_start_realtime's discovery;
\* forwarding: platforms being set up; retry, error: ConfigEntryNotReady and
\* ConfigEntryAuthFailed; stranded: setup raised something else, and is not tried
\* again; failed: could not unload, until the next restart.
SettingUp == {"setup", "starting", "forwarding"}
Entries == SettingUp \cup {"new", "unloaded", "retry", "error", "stranded", "loaded",
                           "failed", "removing", "removed"}
Faces == {"lock", "lock_state"}

Instances == [signed : BOOLEAN,    \* Account.tokenset
              checked : BOOLEAN,   \* _datacenters_checked
              found : BOOLEAN,     \* the last discovery listed the lock
              listed : BOOLEAN,    \* the first refresh did: it has entities
              chosen : BOOLEAN]    \* coordinator.state_only

\* gone: cancelled with its save under way; old: it works for an instance that has
\* been unloaded; form: what the flow is for.
Jobs == [pc : {"idle", "login", "save", "dcs", "fetch", "ask", "cache", "gone"},
         token : Nat, old : BOOLEAN, form : {"user", "reauth"}]
NoJob == [pc |-> "idle", token |-> 0, old |-> FALSE, form |-> "user"]

Init ==
  /\ FileInit
  /\ entry = "new"
  /\ inst = [signed |-> FALSE, checked |-> FALSE, found |-> FALSE, listed |-> FALSE,
             chosen |-> FALSE]
  /\ listeners = 0 /\ mine = 0 /\ aborted = 0
  /\ faces = [f \in Faces |-> "absent"]
  /\ wanted = FALSE /\ reload = FALSE /\ reauth = FALSE
  /\ valid = [entry |-> FALSE, flow |-> TRUE]
  /\ job = [p \in Writers |-> NoJob]
  /\ logins = 0
  /\ clicks = 0 /\ faults = 0

-----------------------------------------------------------------------------
Goes(p, pc) == job' = [job EXCEPT ![p].pc = pc]

Fault == faults < MaxFaults /\ faults' = faults + 1 /\ UNCHANGED clicks
Click == clicks < MaxClicks /\ clicks' = clicks + 1 /\ UNCHANGED faults

\* A discovery or a login raised AuthError (auth) or something transient: for the
\* poll, _async_update_data and async_setup_entry; a command raises to its user,
\* and _try_verify shows the form again.
Fails(p, auth) ==
  /\ Goes(p, "idle")
  /\ entry' = IF p = "poll" /\ entry = "setup" THEN IF auth THEN "error" ELSE "retry"
              ELSE IF p = "poll" /\ entry = "starting" THEN "stranded" ELSE entry
  /\ reauth' = (reauth \/ (p = "poll" /\ auth /\ entry \notin {"starting", "removing", "removed"}))
  /\ UNCHANGED <<inst, listening, faces, wanted, reload, valid, logins>>

-----------------------------------------------------------------------------
\* async_setup_entry up to the first refresh: a new client, which takes the tokens
\* it finds in the file (Account.async_load_state), and the option as it is now.
Setup ==
  /\ entry \in {"unloaded", "retry"} /\ job["poll"].pc = "idle"
  /\ entry' = "setup"
  /\ LET signed == Read(file)["tokenset"] # 0
     IN  /\ inst' = [signed |-> signed, checked |-> FALSE, found |-> FALSE,
                     listed |-> FALSE, chosen |-> wanted]
         /\ Goes("poll", IF signed THEN "dcs" ELSE "login")
  /\ mine' = 0
  /\ UNCHANGED <<fileVars, listeners, aborted, homeVars, logins, budget>>

\* The coordinator polls while an entity or a listener asks it to, as soon as there is
\* one.
Poll ==
  /\ \/ entry \in {"loaded", "failed"} /\ inst.listed
     \/ entry \in {"forwarding", "loaded"} /\ mine > 0
  /\ job["poll"].pc = "idle"
  /\ Goes("poll", "ask")
  /\ UNCHANGED <<fileVars, entry, inst, listening, homeVars, logins, budget>>

\* A command of the lock entity, if its token is rejected: one that is accepted
\* changes nothing here.
Command ==
  /\ entry \in {"loaded", "failed"} /\ inst.listed /\ ~inst.chosen
  /\ faces["lock"] = "on"
  /\ job["command"].pc = "idle" /\ Fault
  /\ job' = [job EXCEPT !["command"] = [NoJob EXCEPT !.pc = "login"]]
  /\ UNCHANGED <<fileVars, entry, inst, listening, homeVars, logins>>

\* async_step_user (also for an account that already has its entry) and
\* async_step_reauth_confirm: the user submits a password.
Submit(form) ==
  /\ job["flow"].pc = "idle"
  /\ \/ form = "user" /\ entry = "new" /\ UNCHANGED budget
     \/ form = "user" /\ entry \notin {"new", "removing", "removed"} /\ Click
     \/ form = "reauth" /\ reauth /\ UNCHANGED budget
  /\ job' = [job EXCEPT !["flow"] = [NoJob EXCEPT !.pc = "login", !.form = form]]
  /\ valid' = [valid EXCEPT !.flow = TRUE]
  /\ UNCHANGED <<fileVars, entry, inst, listening, faces, wanted, reload, reauth, logins>>

\* _login_lock: no other job of the same account is at it.
Unlocked(p) ==
  \A q \in Writers \ {p} :
    "flow" \in {p, q} \/ job[p].old # job[q].old \/ job[q].pc # "save"

\* Account._login: granted, then _persist_tokenset.
SignIn(p) ==
  /\ job[p].pc = "login" /\ Unlocked(p)
  /\ valid[IF p = "flow" THEN "flow" ELSE "entry"]
  /\ logins' = logins + 1
  /\ job' = [job EXCEPT ![p].pc = "save", ![p].token = logins']
  /\ IF p = "flow" \/ job[p].old THEN UNCHANGED inst ELSE inst' = [inst EXCEPT !.signed = TRUE]
  /\ Starts(p, "tokenset")
  /\ UNCHANGED <<entry, listening, homeVars, budget>>

Refused(p) ==
  /\ job[p].pc = "login" /\ Unlocked(p)
  /\ ~valid[IF p = "flow" THEN "flow" ELSE "entry"]
  /\ Fails(p, TRUE)
  /\ UNCHANGED <<fileVars, budget>>

\* A request that fails, times out or is rate-limited.
RequestFails(p) ==
  /\ job[p].pc \in {"login", "ask"} /\ Fault
  /\ Fails(p, FALSE)
  /\ UNCHANGED fileVars

-----------------------------------------------------------------------------
\* async_discover, the poll's.

\* _ensure_datacenters
CheckDatacenters ==
  /\ job["poll"].pc = "dcs"
  /\ IF inst.checked THEN Goes("poll", "ask") /\ UNCHANGED <<fileVars, inst>>
     ELSE Goes("poll", "fetch") /\ inst' = [inst EXCEPT !.checked = TRUE] /\ Starts("poll", "datacenters")
  /\ UNCHANGED <<entry, listening, homeVars, logins, budget>>

\* The list was fetched, and it is the cached one or has to be saved.
DatacentersFetched ==
  /\ job["poll"].pc = "fetch"
  /\ \/ /\ io["poll"].data["datacenters"] = 1 /\ io["poll"].stage = "loaded"
        /\ Drops("poll") /\ Goes("poll", "ask")
     \/ Opens("poll", 1) /\ UNCHANGED job
  /\ UNCHANGED <<entry, inst, listening, homeVars, logins, budget>>

\* The fetch failed, or timed out, which nothing there catches.
FetchFails(timeout) ==
  /\ job["poll"].pc = "fetch" /\ io["poll"].stage = "loaded" /\ Fault
  /\ Drops("poll")
  /\ IF timeout THEN Fails("poll", FALSE)
     ELSE Goes("poll", "ask") /\ UNCHANGED <<entry, inst, listening, homeVars, logins>>

\* _scan, and _cache_devices begins.
Listed(found) ==
  /\ job["poll"].pc = "ask"
  /\ inst' = [inst EXCEPT !.found = found]
  /\ Goes("poll", "cache") /\ Starts("poll", "devices")
  /\ UNCHANGED <<entry, listening, homeVars, logins, budget>>

\* The token has expired, or is rejected: the request logs in.
Expired ==
  /\ job["poll"].pc = "ask" /\ Fault
  /\ Goes("poll", "login")
  /\ UNCHANGED <<fileVars, entry, inst, listening, homeVars, logins>>

-----------------------------------------------------------------------------
\* The file.
FileLoaded(p) ==
  /\ Loads(p)
  /\ UNCHANGED <<entry, inst, listening, homeVars, job, logins, budget>>

SaveOpens(p) ==
  /\ job[p].pc \in {"save", "cache"}
  /\ Opens(p, IF job[p].pc = "save" THEN job[p].token ELSE 1)
  /\ UNCHANGED <<entry, inst, listening, homeVars, job, logins, budget>>

\* The save of a job that has more to do, or that was cancelled.
Saved(p) ==
  /\ Writes(p)
  /\ \/ job[p].pc = "gone" /\ Goes(p, "idle")
     \/ p = "poll" /\ job[p].pc = "save" /\ Goes(p, "dcs")
     \/ p = "poll" /\ job[p].pc = "fetch" /\ Goes(p, "ask")
     \/ p = "poll" /\ job[p].pc = "cache" /\ entry \notin {"setup", "starting"} /\ Goes(p, "idle")
     \/ p = "command" /\ job[p].pc = "save" /\ Goes(p, "idle")
  /\ UNCHANGED <<entry, inst, listening, homeVars, logins, budget>>

\* It fails after it truncated the file, and so does the job.
SaveFails(p) ==
  /\ io[p].stage \in {"open", "orphan"} /\ Fault
  /\ Dies({p})
  /\ Fails(p, FALSE)

\* Mutant of FlowDone: the new password is stored, and nothing is set up with it.
FlowDoneNoReload ==
  /\ job["flow"].pc = "save" /\ Writes("flow") /\ Goes("flow", "idle")
  /\ IF job["flow"].form = "user"
     THEN /\ entry' = IF entry = "new" THEN "unloaded" ELSE entry
          /\ valid' = IF entry = "new" THEN [valid EXCEPT !.entry = valid.flow] ELSE valid
          /\ UNCHANGED <<reauth, reload>>
     ELSE /\ valid' = IF entry \in {"removing", "removed"} THEN valid
                      ELSE [valid EXCEPT !.entry = valid.flow]
          /\ reauth' = FALSE /\ UNCHANGED <<entry, reload>>
  /\ UNCHANGED <<inst, listening, faces, wanted, logins, budget>>

\* The flow's sign-in is saved: async_create_entry, unless the account has an entry,
\* or async_update_reload_and_abort, unless the entry is gone.
FlowDone ==
  /\ job["flow"].pc = "save" /\ Writes("flow") /\ Goes("flow", "idle")
  /\ IF job["flow"].form = "user" /\ entry = "new"
     THEN /\ entry' = "unloaded" /\ valid' = [valid EXCEPT !.entry = valid.flow]
          /\ UNCHANGED <<reauth, reload>>
     ELSE IF job["flow"].form = "reauth" /\ entry \notin {"removing", "removed"}
     THEN /\ valid' = [valid EXCEPT !.entry = valid.flow]
          /\ reauth' = FALSE /\ reload' = TRUE /\ UNCHANGED entry
     ELSE UNCHANGED <<entry, valid, reauth, reload>>
  /\ UNCHANGED <<inst, listening, faces, wanted, logins, budget>>

-----------------------------------------------------------------------------
\* The rest of async_setup_entry.

\* The face the lock is to have, and the other.
Face(state_only) == IF state_only THEN "lock_state" ELSE "lock"

\* Mutant of SetEnabled: a face it has disabled stays so.
SetEnabledNever(f, enabled) == IF ~enabled /\ faces[f] = "on" THEN "off" ELSE faces[f]

\* _set_enabled: "off" is disabled by the integration, "user" by the user.
SetEnabled(f, enabled) ==
  IF enabled /\ faces[f] = "off" THEN "on"
  ELSE IF ~enabled /\ faces[f] = "on" THEN "off" ELSE faces[f]

\* The first refresh listed the lock: _apply_state_only, and async_start_realtime
\* starts its listener.  Home Assistant reloads an entry with an entity enabled anew.
FirstRefreshFound ==
  /\ entry = "setup" /\ job["poll"].pc = "cache" /\ inst.found
  /\ Writes("poll") /\ Goes("poll", "idle")
  /\ entry' = "forwarding" /\ inst' = [inst EXCEPT !.listed = TRUE]
  /\ faces' = [f \in Faces |-> SetEnabled(f, f = Face(inst.chosen))]
  /\ reload' = (reload \/ \E f \in Faces : faces[f] = "off" /\ faces'[f] = "on")
  /\ listeners' = listeners + 1 /\ mine' = mine + 1
  /\ UNCHANGED <<aborted, wanted, reauth, valid, logins, budget>>

\* It listed nothing: async_start_realtime asks async_locks, which discovers again.
FirstRefreshEmpty ==
  /\ entry = "setup" /\ job["poll"].pc = "cache" /\ ~inst.found
  /\ Writes("poll") /\ Goes("poll", "ask")
  /\ entry' = "starting"
  /\ UNCHANGED <<inst, listening, homeVars, logins, budget>>

StartRealtime ==
  /\ entry = "starting" /\ job["poll"].pc = "cache"
  /\ Writes("poll") /\ Goes("poll", "idle")
  /\ entry' = "forwarding"
  /\ IF inst.found THEN listeners' = listeners + 1 /\ mine' = mine + 1
     ELSE UNCHANGED <<listeners, mine>>
  /\ UNCHANGED <<aborted, inst, homeVars, logins, budget>>

\* A platform adds the right face of a listed lock.
AddFace ==
  LET f == Face(inst.chosen)
  IN  faces' = IF inst.listed /\ faces[f] = "absent" THEN [faces EXCEPT ![f] = "on"] ELSE faces

\* async_forward_entry_setups; then async_on_unload, from where a change of options
\* reloads.
ForwardSetups ==
  /\ entry = "forwarding" /\ entry' = "loaded"
  /\ AddFace
  /\ UNCHANGED <<fileVars, inst, listening, wanted, reload, reauth, valid, job, logins,
                 budget>>

\* A platform fails to be set up, or is cancelled, and others may not.  Nothing stops
\* the coordinator's listener.
ForwardFails ==
  /\ entry = "forwarding" /\ Fault /\ entry' = "stranded"
  /\ aborted' = aborted + 1
  /\ AddFace \/ UNCHANGED faces
  /\ UNCHANGED <<fileVars, inst, listeners, mine, wanted, reload, reauth, valid, job, logins>>

-----------------------------------------------------------------------------
\* Unload, reload, removal, restart.

\* Mutant of StopRealtime: the listeners are left to the next setup.
StopRealtimeNever == UNCHANGED <<listeners, mine>>

\* Mutant of StopRealtime: one listener is stopped, whether there is one or not.
StopRealtimeOne == listeners' = listeners - 1 /\ mine' = 0

\* async_stop_realtime
StopRealtime == listeners' = listeners - mine /\ mine' = 0

\* The entry is unloaded: its poll is cancelled, though a save its thread has begun
\* goes on; a command goes on too, with the account it has.
Unloaded ==
  /\ Dies({p \in {"poll"} : io[p].stage \notin {"open", "orphan"}})
  /\ job' = [job EXCEPT
       !["poll"] = IF io["poll"].stage \in {"open", "orphan"}
                   THEN [NoJob EXCEPT !.pc = "gone"] ELSE NoJob,
       !["command"].old = job["command"].pc # "idle"]

\* async_unload_entry; if a platform does not unload, the coordinator polls on
\* without listeners.
Reload ==
  /\ reload /\ reload' = FALSE
  /\ \/ /\ entry \in {"retry", "error", "stranded"} /\ entry' = "unloaded"
        /\ UNCHANGED <<fileVars, listeners, mine, job, budget>>
     \/ /\ entry = "loaded" /\ StopRealtime /\ Unloaded /\ entry' = "unloaded"
        /\ UNCHANGED budget
     \/ /\ entry = "loaded" /\ StopRealtime /\ Fault /\ entry' = "failed"
        /\ UNCHANGED <<fileVars, job>>
     \/ /\ entry = "failed"
        /\ UNCHANGED <<fileVars, entry, listeners, mine, job, budget>>
  /\ UNCHANGED <<aborted, inst, faces, wanted, reauth, valid, logins>>

\* The user deletes the entry: it is unloaded, and its forms close.
Remove ==
  /\ entry \in {"retry", "error", "stranded", "loaded", "failed"} /\ Click
  /\ entry' = "removing" /\ reauth' = FALSE /\ reload' = FALSE
  /\ IF entry = "loaded" THEN StopRealtime /\ Unloaded
     ELSE UNCHANGED <<fileVars, listeners, mine, job>>
  /\ UNCHANGED <<aborted, inst, faces, wanted, valid, logins>>

\* async_remove_entry
RemoveEntry ==
  /\ entry = "removing" /\ entry' = "removed"
  /\ Clears
  /\ UNCHANGED <<inst, listening, homeVars, job, logins, budget>>

\* Home Assistant stops and starts; its registry and entries stay.
Restart ==
  /\ entry \notin {"new", "removing", "removed"} /\ Fault
  /\ entry' = "unloaded" /\ Dies(Writers)
  /\ job' = [p \in Writers |-> NoJob]
  /\ listeners' = 0 /\ mine' = 0 /\ aborted' = 0 /\ reload' = FALSE /\ reauth' = FALSE
  /\ UNCHANGED <<inst, faces, wanted, valid, logins>>

-----------------------------------------------------------------------------
\* The user.

\* PhilipsOptionsFlow: it needs the coordinator and a lock; its change reloads a
\* loaded entry (_async_options_updated), and only that.
ChangeOption ==
  /\ entry \in {"forwarding", "loaded", "failed", "stranded"} /\ inst.listed /\ Click
  /\ wanted' = ~wanted
  /\ reload' = (reload \/ entry \in {"loaded", "failed"})
  /\ UNCHANGED <<fileVars, entry, inst, listening, faces, reauth, valid, job, logins>>

\* In the registry; Home Assistant reloads the entry of an entity enabled.
EnableFace(f) ==
  /\ entry \notin {"removing", "removed"} /\ faces[f] \in {"off", "user"} /\ Click
  /\ faces' = [faces EXCEPT ![f] = "on"] /\ reload' = TRUE
  /\ UNCHANGED <<fileVars, entry, inst, listening, wanted, reauth, valid, job, logins>>

DisableFace(f) ==
  /\ entry \notin {"removing", "removed"} /\ faces[f] = "on" /\ Click
  /\ faces' = [faces EXCEPT ![f] = "user"]
  /\ UNCHANGED <<fileVars, entry, inst, listening, wanted, reload, reauth, valid, job,
                 logins>>

ChangePassword ==
  /\ entry # "new" /\ Click
  /\ valid' = [entry |-> FALSE, flow |-> FALSE]
  /\ UNCHANGED <<fileVars, entry, inst, listening, faces, wanted, reload, reauth, job,
                 logins>>

-----------------------------------------------------------------------------
Working(p) == SignIn(p) \/ Refused(p) \/ FileLoaded(p) \/ SaveOpens(p) \/ Saved(p)
Discovering == CheckDatacenters \/ DatacentersFetched \/ \E found \in BOOLEAN : Listed(found)
SetsUp == Setup \/ FirstRefreshFound \/ FirstRefreshEmpty \/ StartRealtime \/ ForwardSetups

System ==
  \/ \E p \in Writers : Working(p)
  \/ Discovering \/ SetsUp \/ FlowDone \/ Reload \/ RemoveEntry

Environment ==
  \/ Poll \/ Command \/ Expired \/ Restart
  \/ \E form \in {"user", "reauth"} : Submit(form)
  \/ \E p \in Writers : RequestFails(p) \/ SaveFails(p)
  \/ ForwardFails
  \/ \E timeout \in BOOLEAN : FetchFails(timeout)
  \/ Remove \/ ChangeOption \/ ChangePassword
  \/ \E f \in Faces : EnableFace(f) \/ DisableFace(f)

Next == System \/ Environment

Spec == Init /\ [][Next]_vars

\* Every job that can go on does, and so does Home Assistant.
FairSpec ==
  /\ Spec
  /\ \A p \in {"poll", "command", "flow"} : WF_vars(Working(p))
  /\ WF_vars(Discovering) /\ WF_vars(SetsUp) /\ WF_vars(FlowDone)
  /\ WF_vars(Reload) /\ WF_vars(RemoveEntry)

-----------------------------------------------------------------------------
\* Properties.

TypeOK ==
  /\ FileTypeOK
  /\ entry \in Entries
  /\ inst \in Instances
  /\ listeners \in Nat /\ mine \in Nat /\ aborted \in Nat
  /\ faces \in [Faces -> {"absent", "on", "off", "user"}]
  /\ wanted \in BOOLEAN /\ reload \in BOOLEAN /\ reauth \in BOOLEAN
  /\ valid \in [entry : BOOLEAN, flow : BOOLEAN]
  /\ job \in [Writers -> Jobs]
  /\ logins \in Nat
  /\ clicks \in Nat /\ faults \in Nat

\* However an entry got there (failed setups, reloads, restarts, a listing that was
\* empty at first), what is loaded has its one listener: two would apply every event
\* twice.  Listeners are left behind by setups whose platforms failed, one each, and by
\* nothing else, against "One WebSocket listener per WebSocket-capable datacenter"
\* (coordinator.py async_start_realtime, async_stop_realtime, __init__.py).
Serving == entry \in {"forwarding", "loaded"}
OneListener ==
  /\ Serving => mine <= 1 /\ (inst.listed => mine = 1)
  /\ listeners <= aborted + (IF Serving THEN mine ELSE 0)

\* A lock shows one face, the one chosen when the entry was set up: the integration
\* does not leave it disabled, whatever the choices before, and the other one is
\* enabled only until the reload that disables it (__init__.py _apply_state_only,
\* _set_enabled).
OneFace ==
  entry = "loaded" /\ inst.listed =>
    /\ faces[Face(inst.chosen)] \in {"on", "user"}
    /\ faces[Face(~inst.chosen)] = "on" => reload

\* An entry does not stay down by itself: in the end it is loaded with no reload to
\* come, or waits for the user to give a password or restart, or setup raised what
\* Home Assistant does not try again, or it was removed.
EntryComesUp ==
  <>[](\/ entry \in {"loaded", "failed"} /\ ~reload
       \/ entry \in {"new", "stranded", "removed"}
       \/ reauth)

\* The documented promise of async_remove_entry, "Delete the account's cached session
\* tokens and device list": they are gone when the entry is, and nothing works for it.
RemovedLeavesNothing ==
  entry = "removed" /\ (\A p \in Writers : job[p].pc = "idle") => file = Absent
=============================================================================
