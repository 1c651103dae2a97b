---------------------------- MODULE EntryProofs ----------------------------
(***************************************************************************)
(* Proofs about StateFile and Entry: what a login saves stays in the state *)
(* file, what is loaded has one listener and a failed setup leaves at most *)
(* one behind, and a lock shows one face.                                  *)
(*                                                                         *)
(* The file's theorem needs no more than the file: Entry takes part in it  *)
(* because each of its steps is one of StateFile's or leaves the file be.  *)
(***************************************************************************)
EXTENDS Entry, TLAPS

\* The file's inductive invariant.
FileIInv == FileTypeOK /\ TokensKept /\ OneInside

\* Every step of the file keeps its types.
LEMMA FileTypePreserved ==
  ASSUME FileTypeOK, [FileNext]_fileVars
  PROVE  FileTypeOK'
<1> USE FileAssumption DEF FileTypeOK, Files, Transfers, Contents
<1>0. CASE UNCHANGED fileVars
  BY <1>0 DEF fileVars
<1>1. CASE \E p \in Writers, part \in Parts : Starts(p, part)
  <2>1. PICK p \in Writers, part \in Parts : Starts(p, part)
    BY <1>1
  <2>2. [Rest EXCEPT !.stage = "load", !.part = part] \in Transfers
    BY DEF Rest, Nothing
  <2> QED BY <2>1, <2>2 DEF Starts
<1>2. CASE \E p \in Writers : Loads(p)
  <2>1. PICK p \in Writers : Loads(p)
    BY <1>2
  <2>2. io'[p] \in Transfers
    BY <2>1 DEF Loads, Read
  <2>3. io' \in [Writers -> Transfers]
    BY <2>1, <2>2 DEF Loads
  <2> QED BY <2>1, <2>3 DEF Loads
<1>3. CASE \E p \in Writers : Writes(p)
  <2>1. PICK p \in Writers : Writes(p)
    BY <1>3
  <2>2. file' \in Files
    BY <2>1 DEF Writes, Json, Torn, Nothing
  <2>3. io' \in [Writers -> Transfers]
    BY <2>1 DEF Writes, Rest, Nothing
  <2>4. kept' \in Nat
    BY <2>1 DEF Writes
  <2> QED BY <2>2, <2>3, <2>4
<1>4. CASE \E p \in Writers : Drops(p)
  BY <1>4 DEF Drops, Rest, Nothing
<1>5. CASE \E p \in Writers, value \in Nat : Opens(p, value)
  <2>1. PICK p \in Writers, value \in Nat : Opens(p, value)
    BY <1>5
  <2>2. file' \in Files /\ kept' \in Nat
    BY <2>1 DEF Opens, Torn, Nothing
  <2>3. io'[p] \in Transfers
    BY <2>1 DEF Opens
  <2>4. io' \in [Writers -> Transfers]
    BY <2>1, <2>3 DEF Opens
  <2> QED BY <2>2, <2>4
<1>6. CASE Clears
  BY <1>6 DEF Clears, Absent, Nothing
<1>7. CASE \E gone \in SUBSET Writers : Dies(gone)
  BY <1>7 DEF Dies, Rest, Nothing
<1> QED BY <1>0, <1>1, <1>2, <1>3, <1>4, <1>5, <1>6, <1>7 DEF FileNext

\* Loading, saving, dropping: the tokens owed are in the file, or with the one writer
\* inside.
LEMMA TokensStep ==
  ASSUME FileIInv, [FileNext]_fileVars
  PROVE  (TokensKept /\ OneInside)'
<1> SUFFICES ASSUME kept' # 0
             PROVE  (TokensKept /\ OneInside)'
  BY DEF TokensKept, OneInside
<1> USE FileAssumption DEF FileIInv, FileTypeOK, TokensKept, OneInside, Inside, Alone
<1>0. CASE UNCHANGED fileVars
  BY <1>0 DEF fileVars
<1>1. CASE \E p \in Writers, part \in Parts : Starts(p, part)
  BY <1>1 DEF Starts, Rest
<1>2. CASE \E p \in Writers : Loads(p)
  <2>1. PICK p \in Writers : Loads(p)
    BY <1>2
  <2>2. Alone(p) /\ kept' = kept
    BY <2>1 DEF Loads
  <2>3. file.has["tokenset"] = kept /\ file = Json(file.has)
    BY <2>1, <2>2 DEF Loads
  <2>4. io'[p].data["tokenset"] = kept /\ io'[p].stage = "loaded"
    BY <2>1, <2>3 DEF Loads, Read, Transfers
  <2> QED BY <2>1, <2>2, <2>3, <2>4 DEF Loads
<1>3. CASE \E p \in Writers : Writes(p)
  <2>1. PICK p \in Writers : Writes(p)
    BY <1>3
  <2>2. Alone(p) /\ io[p].stage = "open" /\ ~io[p].over
    BY <2>1 DEF Writes
  <2>3. file' = Json(io[p].data)
    BY <2>1, <2>2 DEF Writes
  <2>4. io[p].data["tokenset"] = kept'
    BY <2>1, <2>2 DEF Writes
  <2>5. \A q \in Writers : ~Inside(q)'
    BY <2>1, <2>2 DEF Writes, Rest
  <2> QED BY <2>3, <2>4, <2>5 DEF Json
<1>4. CASE \E p \in Writers : Drops(p)
  BY <1>4 DEF Drops, Rest
<1>5. CASE \E p \in Writers, value \in Nat : Opens(p, value)
  <2>1. PICK p \in Writers, value \in Nat : Opens(p, value)
    BY <1>5
  <2>2. Alone(p) /\ io[p].data["tokenset"] = kept /\ kept' = kept
    BY <2>1 DEF Opens
  <2>3. io'[p].stage = "open" /\ io'[p].part = io[p].part
    BY <2>1 DEF Opens, Transfers
  <2>4. io[p].part # "tokenset" => io'[p].data["tokenset"] = kept
    BY <2>1, <2>2 DEF Opens, Transfers, Contents
  <2>5. \A q \in Writers \ {p} : io'[q] = io[q]
    BY <2>1 DEF Opens
  <2> QED BY <2>2, <2>3, <2>4, <2>5
<1>6. CASE Clears
  BY <1>6 DEF Clears
<1>7. CASE \E gone \in SUBSET Writers : Dies(gone)
  <2>1. PICK gone \in SUBSET Writers : Dies(gone)
    BY <1>7
  <2>2. kept' = kept /\ file' = file
        /\ \A p \in gone : io[p].stage \notin {"open", "orphan"}
    BY <2>1 DEF Dies
  <2>3. \A p \in Writers : io'[p] = IF p \in gone THEN Rest ELSE io[p]
    BY <2>1 DEF Dies
  <2> QED BY <2>2, <2>3 DEF Rest
<1> QED BY <1>0, <1>1, <1>2, <1>3, <1>4, <1>5, <1>6, <1>7 DEF FileNext

\* The file's invariant holds from the start.
LEMMA FileInitially ==
  ASSUME FileInit
  PROVE  FileIInv
BY FileAssumption DEF FileInit, FileIInv, FileTypeOK, TokensKept, OneInside, Files, Transfers,
   Contents, Absent, Torn, Rest, Nothing

\* Whoever shares the file, the tokens of a login stay in it until the next login's or
\* until two writers overlap.
THEOREM FileKeepsTokens == FileSpec => []TokensKept
<1>1. FileInit => FileIInv
  BY FileInitially
<1>2. FileIInv /\ [FileNext]_fileVars => FileIInv'
  BY FileTypePreserved, TokensStep DEF FileIInv
<1>3. FileIInv => TokensKept
  BY DEF FileIInv
<1> QED BY <1>1, <1>2, <1>3, PTL DEF FileSpec

-----------------------------------------------------------------------------
\* The entry's steps, one by one.

\* What the entry's jobs do to the file are steps of the file, and the rest of the
\* entry's steps leave it be.
LEMMA FileStep ==
  ASSUME TypeOK, Next
  PROVE  [FileNext]_fileVars
<1> USE EntryAssumption
<1>1. ASSUME NEW p \in Writers, Working(p)
      PROVE  [FileNext]_fileVars
  <2>1. CASE SignIn(p)
    BY <2>1 DEF SignIn, FileNext
  <2>2. CASE Refused(p)
    BY <2>2 DEF Refused
  <2>3. CASE FileLoaded(p)
    BY <2>3 DEF FileLoaded, FileNext
  <2>4. CASE SaveOpens(p)
    <3>1. job[p].token \in Nat
      BY DEF TypeOK, Jobs
    <3>2. PICK value \in Nat : Opens(p, value)
      BY <2>4, <3>1 DEF SaveOpens
    <3> QED BY <3>2 DEF FileNext
  <2>5. CASE Saved(p)
    BY <2>5 DEF Saved, FileNext
  <2> QED BY <1>1, <2>1, <2>2, <2>3, <2>4, <2>5 DEF Working
<1>2. CASE Discovering
  <2>1. CASE CheckDatacenters
    BY <2>1 DEF CheckDatacenters, FileNext
  <2>2. CASE DatacentersFetched
    <3>1. Drops("poll") \/ Opens("poll", 1)
      BY <2>2 DEF DatacentersFetched
    <3> QED BY <3>1 DEF FileNext
  <2>3. CASE \E found \in BOOLEAN : Listed(found)
    BY <2>3 DEF Listed, FileNext
  <2> QED BY <1>2, <2>1, <2>2, <2>3 DEF Discovering
<1>3. CASE SetsUp
  BY <1>3 DEF SetsUp, Setup, FirstRefreshFound, FirstRefreshEmpty, StartRealtime,
     ForwardSetups, FileNext
<1>4. CASE FlowDone \/ RemoveEntry
  BY <1>4 DEF FlowDone, RemoveEntry, FileNext
<1>5. CASE Reload \/ Remove
  <2>1. Unloaded \/ UNCHANGED fileVars
    BY <1>5 DEF Reload, Remove
  <2>2. ASSUME Unloaded
        PROVE  FileNext
    BY <2>2 DEF Unloaded, FileNext
  <2> QED BY <2>1, <2>2
<1>6. CASE Restart
  BY <1>6 DEF Restart, FileNext
<1>7. CASE (\E timeout \in BOOLEAN : FetchFails(timeout)) \/ \E p \in Writers : SaveFails(p)
  BY <1>7 DEF FetchFails, SaveFails, FileNext
<1>8. CASE \/ Poll \/ Command \/ Expired \/ ForwardFails
           \/ \E form \in {"user", "reauth"} : Submit(form)
           \/ \E p \in Writers : RequestFails(p)
  BY <1>8 DEF Poll, Command, Expired, ForwardFails, Submit, RequestFails
<1>9. CASE \/ ChangeOption \/ ChangePassword
           \/ \E f \in Faces : EnableFace(f) \/ DisableFace(f)
  BY <1>9 DEF ChangeOption, ChangePassword, EnableFace, DisableFace
<1> QED BY <1>1, <1>2, <1>3, <1>4, <1>5, <1>6, <1>7, <1>8, <1>9
        DEF Next, System, Environment

\* The entry lives on the file as any sharer of it does.
LEMMA EntrySharesFile ==
  ASSUME TypeOK, [Next]_vars
  PROVE  [FileNext]_fileVars
BY FileStep DEF vars, fileVars

\* Every step keeps the types of what is the entry's own.
OwnTypes ==
  /\ entry \in Entries
  /\ inst \in Instances
  /\ listeners \in Nat /\ mine \in Nat /\ aborted \in Nat
  /\ faces \in [Faces -> {"absent", "on", "off", "user"}]
  /\ wanted \in BOOLEAN /\ reload \in BOOLEAN /\ reauth \in BOOLEAN
  /\ valid \in [entry : BOOLEAN, flow : BOOLEAN]
  /\ job \in [Writers -> Jobs]
  /\ logins \in Nat
  /\ clicks \in Nat /\ faults \in Nat

\* A job that goes on, or begins anew, is a job.
LEMMA GoesTypes ==
  ASSUME job \in [Writers -> Jobs], NEW p \in Writers,
         NEW pc \in {"idle", "login", "save", "dcs", "fetch", "ask", "cache", "gone"},
         Goes(p, pc)
  PROVE  job' \in [Writers -> Jobs]
BY DEF Goes, Jobs

LEMMA NoJobType == NoJob \in Jobs
BY DEF NoJob, Jobs

\* A failed request leaves the types.
LEMMA FailsTypes ==
  ASSUME OwnTypes, NEW p \in Writers, NEW auth \in BOOLEAN, Fails(p, auth)
  PROVE  /\ entry' \in Entries /\ job' \in [Writers -> Jobs] /\ reauth' \in BOOLEAN
         /\ UNCHANGED <<inst, listening, faces, wanted, reload, valid, logins>>
<1>1. job' \in [Writers -> Jobs]
  BY DEF OwnTypes, Fails, Goes, Jobs
<1> QED BY <1>1 DEF OwnTypes, Fails, Entries, SettingUp

\* So does what it costs of the bounds.
LEMMA BudgetTypes ==
  ASSUME OwnTypes, Fault \/ Click \/ UNCHANGED budget
  PROVE  clicks' \in Nat /\ faults' \in Nat
BY DEF OwnTypes, Fault, Click, budget

\* A face more.
LEMMA AddFaceTypes ==
  ASSUME OwnTypes, AddFace
  PROVE  faces' \in [Faces -> {"absent", "on", "off", "user"}]
BY DEF OwnTypes, AddFace, Face, Faces

\* What the listeners' counts are beside OneListener: a coordinator has none before it
\* starts one, and those it started and has not stopped run.
ListenersFit ==
  /\ entry \in {"setup", "starting"} => mine = 0
  /\ Serving => mine <= listeners

LEMMA OwnTypesStep ==
  ASSUME OwnTypes, ListenersFit, Next
  PROVE  OwnTypes'
<1> USE EntryAssumption DEF listening
<1>1. ASSUME NEW p \in Writers, Working(p)
      PROVE  OwnTypes'
  <2>1. CASE SignIn(p)
    <3>1. logins' \in Nat
      BY <2>1 DEF SignIn, OwnTypes
    <3>2. inst' \in Instances
      BY <2>1 DEF SignIn, OwnTypes, Instances
    <3>3. job' \in [Writers -> Jobs]
      BY <2>1, <3>1 DEF SignIn, OwnTypes, Jobs
    <3> QED BY <2>1, <3>1, <3>2, <3>3 DEF SignIn, OwnTypes, homeVars, budget
  <2>2. CASE Refused(p)
    BY <2>2, FailsTypes DEF Refused, OwnTypes, budget
  <2>3. CASE FileLoaded(p) \/ SaveOpens(p)
    BY <2>3 DEF FileLoaded, SaveOpens, OwnTypes, homeVars, budget
  <2>5. CASE Saved(p)
    <3>1. job' \in [Writers -> Jobs]
      BY <2>5, GoesTypes DEF Saved, OwnTypes
    <3> QED BY <2>5, <3>1 DEF Saved, OwnTypes, homeVars, budget
  <2> QED BY <1>1, <2>1, <2>2, <2>3, <2>5 DEF Working
<1>2. CASE Discovering
  <2>1. inst' \in Instances
    BY <1>2 DEF Discovering, CheckDatacenters, DatacentersFetched, Listed, OwnTypes, Instances
  <2>2. job' \in [Writers -> Jobs]
    BY <1>2, GoesTypes DEF Discovering, CheckDatacenters, DatacentersFetched, Listed, OwnTypes
  <2> QED BY <1>2, <2>1, <2>2 DEF Discovering, CheckDatacenters, DatacentersFetched, Listed,
             OwnTypes, homeVars, budget
<1>3. CASE SetsUp
  <2>1. CASE Setup
    <3>1. inst' \in Instances
      BY <2>1 DEF Setup, OwnTypes, Instances
    <3>2. job' \in [Writers -> Jobs]
      BY <2>1, GoesTypes DEF Setup, OwnTypes
    <3> QED BY <2>1, <3>1, <3>2 DEF Setup, OwnTypes, homeVars, budget, Entries, SettingUp
  <2>2. CASE FirstRefreshFound
    <3>1. inst' \in Instances
      BY <2>2 DEF FirstRefreshFound, OwnTypes, Instances
    <3>2. job' \in [Writers -> Jobs]
      BY <2>2, GoesTypes DEF FirstRefreshFound, OwnTypes
    <3>3. faces' \in [Faces -> {"absent", "on", "off", "user"}]
      BY <2>2 DEF FirstRefreshFound, OwnTypes, SetEnabled
    <3>4. reload' \in BOOLEAN /\ listeners' \in Nat /\ mine' \in Nat
      BY <2>2 DEF FirstRefreshFound, OwnTypes
    <3> QED BY <2>2, <3>1, <3>2, <3>3, <3>4 DEF FirstRefreshFound, OwnTypes, budget, Entries,
               SettingUp
  <2>3. CASE FirstRefreshEmpty \/ StartRealtime
    <3>1. job' \in [Writers -> Jobs]
      BY <2>3, GoesTypes DEF FirstRefreshEmpty, StartRealtime, OwnTypes
    <3>2. listeners' \in Nat /\ mine' \in Nat
      BY <2>3 DEF FirstRefreshEmpty, StartRealtime, OwnTypes
    <3> QED BY <2>3, <3>1, <3>2 DEF FirstRefreshEmpty, StartRealtime, OwnTypes, homeVars,
               budget, Entries, SettingUp
  <2>4. CASE ForwardSetups
    <3>1. faces' \in [Faces -> {"absent", "on", "off", "user"}]
      BY <2>4, AddFaceTypes DEF ForwardSetups, OwnTypes
    <3> QED BY <2>4, <3>1 DEF ForwardSetups, OwnTypes, Entries, SettingUp, budget
  <2> QED BY <1>3, <2>1, <2>2, <2>3, <2>4 DEF SetsUp
<1>4. CASE FlowDone
  <2>1. job' \in [Writers -> Jobs]
    BY <1>4, GoesTypes DEF FlowDone, OwnTypes
  <2>2. valid' \in [entry : BOOLEAN, flow : BOOLEAN]
    BY <1>4 DEF FlowDone, OwnTypes
  <2> QED BY <1>4, <2>1, <2>2 DEF FlowDone, OwnTypes, budget, Entries, SettingUp
<1>5. CASE Reload \/ Remove
  <2>1. ASSUME Unloaded
        PROVE  job' \in [Writers -> Jobs]
    <3> DEFINE poll == IF io["poll"].stage \in {"open", "orphan"}
                       THEN [NoJob EXCEPT !.pc = "gone"] ELSE NoJob
               rest == [job EXCEPT !["poll"] = poll]
               old == job["command"].pc # "idle"
    <3>1. poll \in Jobs
      BY DEF NoJob, Jobs
    <3>2. rest \in [Writers -> Jobs]
      BY <3>1 DEF OwnTypes
    <3>3. [rest EXCEPT !["command"].old = old] \in [Writers -> Jobs]
      <4> HIDE DEF rest, old
      <4>1. [rest["command"] EXCEPT !.old = (old = TRUE)] \in Jobs
        BY <3>2 DEF Jobs
      <4>2. (old = TRUE) = old
        BY DEF old
      <4> QED BY <3>2, <4>1, <4>2
    <3> QED BY <2>1, <3>3 DEF Unloaded
  <2>2. job' \in [Writers -> Jobs]
    BY <1>5, <2>1 DEF Reload, Remove, OwnTypes
  <2>3. listeners' \in Nat /\ mine' \in Nat /\ clicks' \in Nat /\ faults' \in Nat
    <3>1. (entry = "loaded" /\ StopRealtime) \/ UNCHANGED <<listeners, mine>>
      BY <1>5 DEF Reload, Remove
    <3>2. listeners' \in Nat /\ mine' \in Nat
      BY <3>1 DEF StopRealtime, ListenersFit, Serving, OwnTypes
    <3> QED BY <1>5, <3>2, BudgetTypes DEF Reload, Remove, budget
  <2> QED BY <1>5, <2>2, <2>3 DEF Reload, Remove, OwnTypes, Entries, SettingUp
<1>6. CASE RemoveEntry
  BY <1>6, BudgetTypes DEF RemoveEntry, OwnTypes, Entries, SettingUp, homeVars
<1>7. CASE Restart
  <2>1. job' \in [Writers -> Jobs]
    BY <1>7, NoJobType DEF Restart
  <2> QED BY <1>7, <2>1, BudgetTypes DEF Restart, OwnTypes, Entries, SettingUp
<1>8. CASE \E timeout \in BOOLEAN : FetchFails(timeout)
  <2>1. CASE Fails("poll", FALSE)
    BY <1>8, <2>1, FailsTypes, BudgetTypes DEF FetchFails, OwnTypes
  <2>2. CASE ~Fails("poll", FALSE)
    <3>1. Goes("poll", "ask")
      BY <1>8, <2>2 DEF FetchFails
    <3>2. job' \in [Writers -> Jobs]
      BY <3>1, GoesTypes DEF OwnTypes
    <3> QED BY <1>8, <2>2, <3>2, BudgetTypes DEF FetchFails, OwnTypes, homeVars
  <2> QED BY <2>1, <2>2
<1>9. CASE \E p \in Writers : RequestFails(p)
  BY <1>9, FailsTypes, BudgetTypes DEF RequestFails, OwnTypes
<1>16. CASE \E p \in Writers : SaveFails(p)
  BY <1>16, FailsTypes, BudgetTypes DEF SaveFails, OwnTypes
<1>17. CASE ForwardFails
  <2>1. faces' \in [Faces -> {"absent", "on", "off", "user"}]
    BY <1>17, AddFaceTypes DEF ForwardFails, OwnTypes
  <2> QED BY <1>17, <2>1, BudgetTypes DEF ForwardFails, OwnTypes, Entries
<1>10. CASE Poll \/ Expired
  <2>1. job' \in [Writers -> Jobs]
    BY <1>10, GoesTypes DEF Poll, Expired, OwnTypes
  <2> QED BY <1>10, <2>1 DEF Poll, Expired, OwnTypes, homeVars, budget, Fault
<1>11. CASE Command
  <2>1. [NoJob EXCEPT !.pc = "login"] \in Jobs
    BY DEF NoJob, Jobs
  <2> QED BY <1>11, <2>1 DEF Command, OwnTypes, homeVars, Fault
<1>12. CASE \E form \in {"user", "reauth"} : Submit(form)
  <2>1. PICK form \in {"user", "reauth"} : Submit(form)
    BY <1>12
  <2>2. [NoJob EXCEPT !.pc = "login", !.form = form] \in Jobs
    BY DEF NoJob, Jobs
  <2>3. job' \in [Writers -> Jobs]
    BY <2>1, <2>2 DEF Submit, OwnTypes
  <2>4. valid' \in [entry : BOOLEAN, flow : BOOLEAN]
    BY <2>1 DEF Submit, OwnTypes
  <2>5. clicks' \in Nat /\ faults' \in Nat
    BY <2>1 DEF Submit, OwnTypes, budget, Click
  <2> QED BY <2>1, <2>3, <2>4, <2>5 DEF Submit, OwnTypes
<1>13. CASE ChangeOption
  <2>1. wanted' \in BOOLEAN /\ reload' \in BOOLEAN
    BY <1>13 DEF ChangeOption, OwnTypes
  <2> QED BY <1>13, <2>1, BudgetTypes DEF ChangeOption, OwnTypes
<1>14. CASE ChangePassword
  BY <1>14, BudgetTypes DEF ChangePassword, OwnTypes
<1>15. CASE \E f \in Faces : EnableFace(f) \/ DisableFace(f)
  <2>1. faces' \in [Faces -> {"absent", "on", "off", "user"}]
    BY <1>15 DEF EnableFace, DisableFace, OwnTypes
  <2> QED BY <1>15, <2>1, BudgetTypes DEF EnableFace, DisableFace, OwnTypes
<1> QED BY <1>1, <1>2, <1>3, <1>4, <1>5, <1>6, <1>8, <1>9, <1>10, <1>11, <1>12, <1>13, <1>15, <1>7,
        <1>14, <1>16, <1>17 DEF Next, System, Environment

-----------------------------------------------------------------------------
\* One listener, one face.

\* The inductive invariant of the faces: what OneFace says, from the moment the first
\* refresh has sorted them; a lock counts as listed only once it has.
FacesFit ==
  /\ entry \in {"setup", "starting"} => ~inst.listed
  /\ entry \in {"forwarding", "loaded"} /\ inst.listed =>
       /\ faces[Face(inst.chosen)] # "off"
       /\ faces[Face(~inst.chosen)] = "on" => reload
       /\ entry = "loaded" => faces[Face(inst.chosen)] # "absent"

IInv == TypeOK /\ TokensKept /\ OneInside /\ OneListener /\ ListenersFit /\ FacesFit

Shown == <<entry, listening, faces, reload, inst.listed, inst.chosen>>

\* The steps that touch the entry, its listeners or its faces; the jobs' other steps do
\* not.
LEMMA EntrySteps ==
  ASSUME TypeOK, Next
  PROVE  \/ UNCHANGED Shown
         \/ \E p \in Writers, auth \in BOOLEAN : Fails(p, auth)
         \/ SetsUp \/ FlowDone \/ Reload \/ Remove \/ RemoveEntry \/ Restart
         \/ ChangeOption \/ ForwardFails
         \/ \E f \in Faces : EnableFace(f) \/ DisableFace(f)
<1> USE EntryAssumption DEF Shown, listening
<1>1. ASSUME NEW p \in Writers, Working(p)
      PROVE  UNCHANGED Shown \/ \E q \in Writers, auth \in BOOLEAN : Fails(q, auth)
  <2>1. CASE SignIn(p)
    BY <2>1 DEF SignIn, homeVars, TypeOK, Instances
  <2>2. CASE Refused(p)
    BY <2>2 DEF Refused
  <2>3. CASE FileLoaded(p) \/ SaveOpens(p) \/ Saved(p)
    BY <2>3 DEF FileLoaded, SaveOpens, Saved, homeVars
  <2> QED BY <1>1, <2>1, <2>2, <2>3 DEF Working
<1>2. CASE Discovering
  BY <1>2 DEF Discovering, CheckDatacenters, DatacentersFetched, Listed, homeVars, TypeOK,
     Instances
<1>3. CASE Poll \/ Command \/ Expired \/ ChangePassword
  BY <1>3 DEF Poll, Command, Expired, ChangePassword, homeVars
<1>4. CASE \E form \in {"user", "reauth"} : Submit(form)
  BY <1>4 DEF Submit
<1>5. CASE \E p \in Writers : RequestFails(p)
  BY <1>5 DEF RequestFails
<1>6. CASE (\E timeout \in BOOLEAN : FetchFails(timeout)) \/ \E p \in Writers : SaveFails(p)
  BY <1>6 DEF FetchFails, SaveFails, homeVars
<1> QED BY <1>1, <1>2, <1>3, <1>4, <1>5, <1>6 DEF Next, System, Environment

\* A setup that gets as far starts its coordinator's one listener, and only a setup whose
\* platforms then fail leaves it behind.
LEMMA ListenerStep ==
  ASSUME TypeOK, OneListener, ListenersFit, FacesFit, Next
  PROVE  (OneListener /\ ListenersFit)'
<1> USE DEF OneListener, ListenersFit, Serving, listening
<1>0. /\ listeners \in Nat /\ mine \in Nat /\ aborted \in Nat /\ inst \in Instances
  BY DEF TypeOK
<1>1. CASE UNCHANGED Shown
  BY <1>1 DEF Shown
<1>2. CASE \E p \in Writers, auth \in BOOLEAN : Fails(p, auth)
  BY <1>0, <1>2 DEF Fails
<1>3. CASE SetsUp
  <2>1. CASE Setup
    BY <1>0, <2>1 DEF Setup
  <2>2. CASE FirstRefreshFound
    BY <1>0, <2>2 DEF FirstRefreshFound
  <2>3. CASE FirstRefreshEmpty
    BY <1>0, <2>3 DEF FirstRefreshEmpty
  <2>4. CASE StartRealtime
    BY <1>0, <2>4 DEF StartRealtime, FacesFit
  <2>5. CASE ForwardSetups
    BY <1>0, <2>5 DEF ForwardSetups
  <2> QED BY <1>3, <2>1, <2>2, <2>3, <2>4, <2>5 DEF SetsUp
<1>4. CASE FlowDone
  BY <1>0, <1>4 DEF FlowDone
<1>5. CASE Reload \/ Remove
  BY <1>0, <1>5 DEF Reload, Remove, StopRealtime
<1>6. CASE RemoveEntry \/ Restart
  BY <1>0, <1>6 DEF RemoveEntry, Restart
<1>7. CASE ChangeOption \/ \E f \in Faces : EnableFace(f) \/ DisableFace(f)
  BY <1>0, <1>7 DEF ChangeOption, EnableFace, DisableFace
<1>8. CASE ForwardFails
  BY <1>0, <1>8 DEF ForwardFails
<1> QED BY <1>1, <1>2, <1>3, <1>4, <1>5, <1>6, <1>7, <1>8, EntrySteps

\* The first refresh sorts the faces, the platforms add what is missing, and the user
\* changes them under the condition of a reload.
LEMMA FacesStep ==
  ASSUME TypeOK, FacesFit, Next
  PROVE  FacesFit'
<1>1. CASE UNCHANGED Shown
  BY <1>1 DEF Shown, FacesFit, Face
<1>2. CASE \E p \in Writers, auth \in BOOLEAN : Fails(p, auth)
  BY <1>2 DEF Fails, FacesFit, Face
<1>3. CASE SetsUp
  <2>1. CASE Setup \/ FirstRefreshEmpty
    BY <2>1 DEF Setup, FirstRefreshEmpty, FacesFit
  <2>2. CASE FirstRefreshFound
    <3>1. inst'.chosen = inst.chosen /\ entry' = "forwarding"
      BY <2>2 DEF FirstRefreshFound, TypeOK, Instances
    <3>2. faces'[Face(inst.chosen)] # "off" /\ faces'[Face(~inst.chosen)] # "on"
      BY <2>2 DEF FirstRefreshFound, SetEnabled, Face, Faces, TypeOK, Instances
    <3> QED BY <3>1, <3>2 DEF FacesFit, Face
  <2>3. CASE StartRealtime
    BY <2>3 DEF StartRealtime, FacesFit, homeVars
  <2>4. CASE ForwardSetups
    BY <2>4 DEF ForwardSetups, AddFace, FacesFit, Face, Faces, TypeOK, Instances
  <2> QED BY <1>3, <2>1, <2>2, <2>3, <2>4 DEF SetsUp
<1>4. CASE FlowDone
  BY <1>4 DEF FlowDone, FacesFit, Face
<1>5. CASE Reload \/ Remove
  BY <1>5 DEF Reload, Remove, FacesFit
<1>6. CASE RemoveEntry \/ Restart
  BY <1>6 DEF RemoveEntry, Restart, FacesFit
<1>7. CASE ChangeOption
  BY <1>7 DEF ChangeOption, FacesFit, Face, TypeOK
<1>8. CASE \E f \in Faces : EnableFace(f) \/ DisableFace(f)
  BY <1>8 DEF EnableFace, DisableFace, FacesFit, Face, Faces, TypeOK
<1>9. CASE ForwardFails
  BY <1>9 DEF ForwardFails, FacesFit
<1> QED BY <1>1, <1>2, <1>3, <1>4, <1>5, <1>6, <1>7, <1>8, <1>9, EntrySteps

LEMMA EntryInitially ==
  ASSUME Init
  PROVE  IInv
<1>1. TypeOK
  BY FileInitially DEF Init, TypeOK, FileIInv, Entries, SettingUp, Instances, Jobs, NoJob
<1>2. TokensKept /\ OneInside
  BY FileInitially DEF Init, FileIInv
<1> QED BY <1>1, <1>2 DEF Init, IInv, OneListener, ListenersFit, Serving, FacesFit

LEMMA EntryStep ==
  ASSUME IInv, [Next]_vars
  PROVE  IInv'
<1>1. FileIInv'
  BY EntrySharesFile, FileTypePreserved, TokensStep DEF IInv, FileIInv, TypeOK
<1>2. CASE Next
  <2>1. OwnTypes'
    BY <1>2, OwnTypesStep DEF IInv, TypeOK, OwnTypes
  <2>2. TypeOK'
    BY <1>1, <2>1 DEF FileIInv, OwnTypes, TypeOK
  <2> QED BY <1>1, <1>2, <2>2, ListenerStep, FacesStep DEF IInv, FileIInv
<1>3. CASE UNCHANGED vars
  <2>1. TypeOK'
    BY <1>3 DEF vars, fileVars, homeVars, listening, budget, IInv, TypeOK, FileTypeOK
  <2>2. OneListener' /\ ListenersFit' /\ FacesFit'
    BY <1>3 DEF vars, homeVars, listening, IInv, OneListener, ListenersFit, Serving, FacesFit,
       Face
  <2> QED BY <1>1, <2>1, <2>2 DEF IInv, FileIInv
<1> QED BY <1>2, <1>3

LEMMA EntryInvariant == Spec => []IInv
<1>1. Init => IInv
  BY EntryInitially
<1>2. IInv /\ [Next]_vars => IInv'
  BY EntryStep
<1> QED BY <1>1, <1>2, PTL DEF Spec

\* Entry.TypeOK holds in every reachable state.
THEOREM EntryTypes == Spec => []TypeOK
<1>1. IInv => TypeOK
  BY DEF IInv
<1> QED BY <1>1, EntryInvariant, PTL

\* The tokens of a login stay in the entry's file.
THEOREM EntryKeepsTokens == Spec => []TokensKept
<1>1. IInv => TokensKept
  BY DEF IInv
<1> QED BY <1>1, EntryInvariant, PTL

\* What is loaded has its one listener, and no listener is left behind but by a setup whose
\* platforms failed.
THEOREM EntryHasOneListener == Spec => []OneListener
<1>1. IInv => OneListener
  BY DEF IInv
<1> QED BY <1>1, EntryInvariant, PTL

\* A lock shows the face chosen, and not the other, but for a reload to come.
THEOREM LockHasOneFace == Spec => []OneFace
<1>1. IInv => OneFace
  BY DEF IInv, TypeOK, FacesFit, OneFace, Face, Faces, Instances
<1> QED BY <1>1, EntryInvariant, PTL
=============================================================================
