----------------------------- MODULE StateFile -----------------------------
(***************************************************************************)
(* The account's state file: homeaccess/state.py under its writers         *)
(* (session.py _persist_tokenset, api.py _ensure_datacenters and           *)
(* _cache_devices).                                                        *)
(*                                                                         *)
(* Every writer changes one part of one JSON file: it loads the whole,     *)
(* awaits, sets its part and saves the whole, each half in a worker thread *)
(* that no cancellation stops.  A save truncates the file when it opens it *)
(* and writes when it gets to it; nothing locks the file.                  *)
(***************************************************************************)
EXTENDS Integers

CONSTANTS Writers,    \* the tasks that may save
          Parts       \* what the file holds; "tokenset" among them

ASSUME FileAssumption == "tokenset" \in Parts

Contents == [Parts -> Nat]          \* 0 for a part that is missing
Nothing == [part \in Parts |-> 0]

VARIABLES
  file,    \* what is on the disk
  io,      \* the load and save each writer is in
  kept     \* ghost: the tokenset the file owes us, or 0

fileVars == <<file, io, kept>>

\* "torn": no JSON, be it empty or one save written over another.
Files == [is : {"absent", "torn", "json"}, has : Contents]
Absent == [is |-> "absent", has |-> Nothing]
Torn == [is |-> "torn", has |-> Nothing]
Json(data) == [is |-> "json", has |-> data]

\* "orphan": the file was deleted after this writer opened it.
\* over: another writer has written since this one opened the file.
Transfers == [stage : {"idle", "load", "loaded", "open", "orphan"}, part : Parts,
              data : Contents, over : BOOLEAN]
Rest == [stage |-> "idle", part |-> "tokenset", data |-> Nothing, over |-> FALSE]

FileInit == file \in {Absent, Torn} /\ io = [p \in Writers |-> Rest] /\ kept = 0

Step(p, stage) == io' = [io EXCEPT ![p].stage = stage]

\* A writer that has loaded the file and not yet written it.
Inside(p) == io[p].stage \in {"loaded", "open", "orphan"}
Alone(p) == \A q \in Writers \ {p} : ~Inside(q)

-----------------------------------------------------------------------------
\* load: a file that is missing or no JSON is an empty one.
Read(f) == f.has

Starts(p, part) ==
  /\ io[p].stage = "idle"
  /\ io' = [io EXCEPT ![p] = [Rest EXCEPT !.stage = "load", !.part = part]]
  /\ UNCHANGED <<file, kept>>

\* Mutant of Loads: the part is saved without the others.
LoadsNothing(p) ==
  /\ io[p].stage = "load"
  /\ io' = [io EXCEPT ![p].stage = "loaded"]
  /\ kept' = IF Alone(p) THEN kept ELSE 0
  /\ UNCHANGED file

Loads(p) ==
  /\ io[p].stage = "load"
  /\ io' = [io EXCEPT ![p].stage = "loaded", ![p].data = Read(file)]
  /\ kept' = IF Alone(p) THEN kept ELSE 0
  /\ UNCHANGED file

\* The save's thread opens the file, which truncates it.
Opens(p, value) ==
  /\ io[p].stage = "loaded"
  /\ io' = [io EXCEPT ![p].stage = "open", ![p].data[io[p].part] = value,
                      ![p].over = FALSE]
  /\ file' = Torn
  /\ UNCHANGED kept

\* It writes: over what another has written since, if the file is then not the
\* longer of the two, it is neither.
Writes(p) ==
  /\ io[p].stage \in {"open", "orphan"}
  /\ io' = [q \in Writers |->
              IF q = p THEN Rest
              ELSE IF io[p].stage = "open" /\ io[q].stage = "open"
                   THEN [io[q] EXCEPT !.over = TRUE] ELSE io[q]]
  /\ file' \in IF io[p].stage = "orphan" THEN {file}
               ELSE IF io[p].over THEN {Json(io[p].data), Torn} ELSE {Json(io[p].data)}
  /\ kept' = IF ~Alone(p) \/ io[p].stage = "orphan" \/ io[p].over THEN 0
             ELSE IF io[p].part = "tokenset" THEN io[p].data["tokenset"] ELSE kept

\* The fetch between load and save brought nothing to save, or failed.
Drops(p) ==
  /\ io[p].stage \in {"load", "loaded"}
  /\ io' = [io EXCEPT ![p] = Rest]
  /\ UNCHANGED <<file, kept>>

\* clear
Clears ==
  /\ file' = Absent
  /\ io' = [p \in Writers |-> IF io[p].stage = "open"
                              THEN [io[p] EXCEPT !.stage = "orphan"] ELSE io[p]]
  /\ kept' = 0

\* Some writers end where they are, their threads with them.
Dies(gone) ==
  /\ io' = [p \in Writers |-> IF p \in gone THEN Rest ELSE io[p]]
  /\ kept' = IF \E p \in gone : io[p].stage \in {"open", "orphan"} THEN 0 ELSE kept
  /\ UNCHANGED file

FileNext ==
  \/ \E p \in Writers, part \in Parts : Starts(p, part)
  \/ \E p \in Writers : Loads(p) \/ Writes(p) \/ Drops(p)
  \/ \E p \in Writers, value \in Nat : Opens(p, value)
  \/ Clears
  \/ \E gone \in SUBSET Writers : Dies(gone)

FileSpec == FileInit /\ [][FileNext]_fileVars

-----------------------------------------------------------------------------
\* Properties.

FileTypeOK ==
  /\ file \in Files
  /\ io \in [Writers -> Transfers]
  /\ kept \in Nat

\* The tokens a login has saved stay in the file, whatever other parts are saved
\* after them, until the next login's or until two writers overlap (session.py
\* _persist_tokenset, api.py _ensure_datacenters, _cache_devices).
TokensKept ==
  kept # 0 /\ (\A p \in Writers : io[p].stage # "open")
    => file = Json(file.has) /\ file.has["tokenset"] = kept

\* Its strengthening: while the file owes us tokens at most one writer is inside,
\* and it holds them too.
OneInside ==
  kept # 0 => \A p \in Writers : Inside(p) =>
    /\ Alone(p) /\ io[p].stage # "orphan"
    /\ io[p].stage = "loaded" \/ io[p].part # "tokenset" => io[p].data["tokenset"] = kept
=============================================================================
