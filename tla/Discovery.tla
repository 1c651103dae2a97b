----------------------------- MODULE Discovery -----------------------------
(***************************************************************************)
(* Device discovery: homeaccess/api.py (_ensure_datacenters, _scan,        *)
(* async_discover), run by every poll and by a command whose device list   *)
(* is empty.                                                               *)
(*                                                                         *)
(* A lock has one home datacenter, whose copy of its record is live; other *)
(* datacenters may echo a stale mirror of it.  A scan asks one datacenter  *)
(* after another, at an await each, and a discovery pins the datacenters   *)
(* worth polling for the next one.  The order of a scan, which is the      *)
(* login's, is left open.                                                  *)
(***************************************************************************)
EXTENDS Integers, FiniteSets

CONSTANTS Locks,
          Codes,         \* the datacenters the account holds tokens for
          Builtin,       \* those the built-in map has a host for
          Echoes,        \* those that echo the locks of the others
          Discoverers,   \* the tasks that may run a discovery
          Lookups,       \* those that look a lock up, and discover only if none is listed
          Failures,      \* how a query may fail: "error", "refused", "escape"
          MaxFailures,   \* bound: failed queries
          MaxMoves,      \* bound: locks re-homed
          MaxRetired     \* bound: datacenters shut down

ASSUME DiscoveryAssumption ==
  /\ Builtin \subseteq Codes /\ Builtin # {}
  /\ Echoes \subseteq Codes
  /\ Lookups \subseteq Discoverers
  /\ Failures \subseteq {"error", "refused", "escape"}
  /\ MaxFailures \in Nat /\ MaxMoves \in Nat /\ MaxRetired \in Nat

VARIABLES
  home,      \* the home of every lock, in truth
  retired,   \* datacenters shut down for good
  known,     \* constants.DATACENTERS: codes with a host
  checked,   \* _datacenters_checked
  active,    \* _active_codes; {} for None
  devices,   \* _devices: per lock, the copy listed last, or "none"
  scan,      \* what each discoverer is doing
  failures, moves

vars == <<home, retired, known, checked, active, devices, scan, failures, moves>>
worldVars == <<home, retired, moves>>

Copies == {"none", "mirror", "live"}
Nothing == [l \in Locks |-> "none"]

Sightings == [code : Codes, lock : Locks, copy : {"mirror", "live"}]

\* again: this is the re-scan after the pinned set went dry.
\* seen: ghost, who has listed which lock in this scan, with which copy.
Scans == [stage : {"done", "failed", "learn", "scan"}, asked : SUBSET Codes,
          todo : SUBSET Codes, found : [Locks -> Copies],
          hosts : SUBSET Codes, mirrors : SUBSET Codes, errors : SUBSET Codes,
          again : BOOLEAN, seen : SUBSET Sightings]

Resting(stage) == [stage |-> stage, asked |-> {}, todo |-> {}, found |-> Nothing,
                   hosts |-> {}, mirrors |-> {}, errors |-> {}, again |-> FALSE,
                   seen |-> {}]

ScanOf(codes, again) ==
  [Resting("scan") EXCEPT !.asked = codes, !.todo = codes, !.again = again]

Init ==
  /\ home \in [Locks -> Builtin]
  /\ retired = {} /\ known = Builtin
  /\ checked = FALSE /\ active = {} /\ devices = Nothing
  /\ scan = [p \in Discoverers |-> Resting("done")]
  /\ failures = 0 /\ moves = 0

Set(p, s) == scan' = [scan EXCEPT ![p] = s]

Fails(kind) ==
  kind \in Failures /\ failures < MaxFailures /\ failures' = failures + 1

-----------------------------------------------------------------------------
\* async_locks: a lookup is content with a list that is not empty.
Wanted(p) == p \in Lookups => devices = Nothing

\* _ensure_datacenters: the first discovery of an instance fetches the list of
\* datacenters; any other goes straight on, even while it is being fetched.
Begin(p) ==
  /\ scan[p].stage \in {"done", "failed"} /\ Wanted(p)
  /\ checked' = TRUE
  /\ Set(p, IF checked THEN ScanOf(IF active = {} THEN Codes ELSE active, FALSE)
            ELSE Resting("learn"))
  /\ UNCHANGED <<worldVars, known, active, devices, failures>>

\* The list fetched, or the cached one when the fetch fails, has a host for some more
\* datacenters; a timeout ends the discovery.  It is not tried again.
Learn(p) ==
  /\ scan[p].stage = "learn"
  /\ \/ /\ \E learned \in SUBSET Codes : known' = known \cup learned
        /\ Set(p, ScanOf(IF active = {} THEN Codes ELSE active, FALSE))
        /\ UNCHANGED failures
     \/ /\ Fails("escape") /\ UNCHANGED known
        /\ Set(p, Resting("failed"))
  /\ UNCHANGED <<worldVars, checked, active, devices>>

-----------------------------------------------------------------------------
\* _scan, one datacenter at a time.

\* What a datacenter that answers lists: the locks it hosts, and mirrors.
Lists(code) == {l \in Locks : home[l] = code \/ code \in Echoes}
Hosted(code) == {l \in Locks : home[l] = code}
Sighted(code, listed) ==
  {[code |-> code, lock |-> l, copy |-> IF home[l] = code THEN "live" ELSE "mirror"]
     : l \in listed}

\* Mutant of Merge: the first copy listed is kept.
MergeFirst(found, code, listed) ==
  [l \in Locks |-> IF l \in listed /\ found[l] = "none"
                   THEN IF home[l] = code THEN "live" ELSE "mirror"
                   ELSE found[l]]

\* The copy served by a lock's home replaces any other; a mirror's is kept only
\* if the lock has none.
Merge(found, code, listed) ==
  [l \in Locks |-> IF l \in listed /\ home[l] = code THEN "live"
                   ELSE IF l \in listed /\ found[l] = "none" THEN "mirror"
                   ELSE found[l]]

Asks(p, code) == scan[p].stage = "scan" /\ code \in scan[p].todo

\* No host is known for the code.
Skips(p, code) ==
  /\ Asks(p, code) /\ code \notin known
  /\ Set(p, [scan[p] EXCEPT !.todo = @ \ {code}])
  /\ UNCHANGED <<worldVars, known, checked, active, devices, failures>>

\* Mutant of Answered: every datacenter that lists a lock counts as a mirror.
AnsweredMirrors(s, code, listed) ==
  [s EXCEPT !.todo = @ \ {code},
            !.found = Merge(@, code, listed),
            !.hosts = IF listed \cap Hosted(code) # {} THEN @ \cup {code} ELSE @,
            !.mirrors = IF listed # {} THEN @ \cup {code} ELSE @,
            !.seen = @ \cup Sighted(code, listed)]

Answered(s, code, listed) ==
  [s EXCEPT !.todo = @ \ {code},
            !.found = Merge(@, code, listed),
            !.hosts = IF listed \cap Hosted(code) # {} THEN @ \cup {code} ELSE @,
            !.mirrors = IF listed # {} /\ listed \cap Hosted(code) = {}
                        THEN @ \cup {code} ELSE @,
            !.seen = @ \cup Sighted(code, listed)]

Answers(p, code) ==
  /\ Asks(p, code) /\ code \in known \ retired
  /\ Set(p, Answered(scan[p], code, Lists(code)))
  /\ UNCHANGED <<worldVars, known, checked, active, devices, failures>>

\* A JSON reply that is no list (a cloud-side error) counts as an empty one.
Refuses(p, code) ==
  /\ Asks(p, code) /\ code \in known \ retired
  /\ Fails("refused")
  /\ Set(p, Answered(scan[p], code, {}))
  /\ UNCHANGED <<worldVars, known, checked, active, devices>>

\* HomeAccessConnectionError: noted, and the scan goes on.
Errs(p, code) ==
  /\ Asks(p, code) /\ code \in known
  /\ IF code \in retired THEN UNCHANGED failures ELSE Fails("error")
  /\ Set(p, [scan[p] EXCEPT !.todo = @ \ {code}, !.errors = @ \cup {code}])
  /\ UNCHANGED <<worldVars, known, checked, active, devices>>

\* A timeout, or an AuthError, is not a HomeAccessConnectionError: it ends the
\* scan and the discovery.
Escapes(p, code) ==
  /\ Asks(p, code) /\ code \in known \ retired
  /\ Fails("escape")
  /\ Set(p, [scan[p] EXCEPT !.stage = "failed"])
  /\ UNCHANGED <<worldVars, known, checked, active, devices>>

-----------------------------------------------------------------------------
\* The end of a scan, in async_discover.

Ended(p) == scan[p].stage = "scan" /\ scan[p].todo = {}

Empty(s) == s.found = Nothing
AllFailed(s) == s.errors # {} /\ Empty(s) /\ s.errors = s.asked \cap known
\* Mutant of Productive: a datacenter that only echoes is pinned with the hosts.
ProductiveAll(s) == s.hosts \cup s.mirrors

Productive(s) == IF s.hosts # {} THEN s.hosts ELSE s.mirrors
\* Mutant of WentDry: an empty list is taken at its word.
NeverDry(s) == FALSE

WentDry(s) == Empty(s) /\ active # {} /\ ~s.again

GivesUp(p) ==
  /\ Ended(p) /\ AllFailed(scan[p])
  /\ Set(p, [scan[p] EXCEPT !.stage = "failed"])
  /\ UNCHANGED <<worldVars, known, checked, active, devices, failures>>

\* Mutant of Rescans: the pinned set is scanned again.
RescansPinned(p) ==
  /\ Ended(p) /\ ~AllFailed(scan[p]) /\ WentDry(scan[p])
  /\ Set(p, ScanOf(active, TRUE))
  /\ UNCHANGED <<worldVars, known, checked, active, devices, failures>>

\* The pinned set went dry: everything is scanned again.
Rescans(p) ==
  /\ Ended(p) /\ ~AllFailed(scan[p]) /\ WentDry(scan[p])
  /\ active' = {}
  /\ Set(p, ScanOf(Codes, TRUE))
  /\ UNCHANGED <<worldVars, known, checked, devices, failures>>

\* The productive datacenters are pinned and the list is replaced.
Installs(p) ==
  LET s == scan[p]
  IN  /\ Ended(p) /\ ~AllFailed(s) /\ ~WentDry(s)
      /\ active' = IF Productive(s) # {} THEN Productive(s) ELSE active
      /\ devices' = s.found
      /\ Set(p, [s EXCEPT !.stage = "done"])
      /\ UNCHANGED <<worldVars, known, checked, failures>>

-----------------------------------------------------------------------------
\* The rest of the world.

Rehome(l) ==
  /\ moves < MaxMoves /\ moves' = moves + 1
  /\ \E code \in Builtin \ (retired \cup {home[l]}) : home' = [home EXCEPT ![l] = code]
  /\ UNCHANGED <<retired, known, checked, active, devices, scan, failures>>

\* A datacenter that hosts nothing any more is shut down.
Retire(code) ==
  /\ Cardinality(retired) < MaxRetired
  /\ Hosted(code) = {} /\ code \notin retired
  /\ retired' = retired \cup {code}
  /\ UNCHANGED <<home, known, checked, active, devices, scan, failures, moves>>

Proceed(p) ==
  \/ Learn(p)
  \/ \E code \in Codes : Skips(p, code) \/ Answers(p, code) \/ Refuses(p, code)
                         \/ Errs(p, code) \/ Escapes(p, code)
  \/ GivesUp(p) \/ Rescans(p) \/ Installs(p)

Next ==
  \/ \E p \in Discoverers : Begin(p) \/ Proceed(p)
  \/ \E l \in Locks : Rehome(l)
  \/ \E code \in Codes : Retire(code)

Spec == Init /\ [][Next]_vars

\* Polls go on for ever and every query ends (MaxFailures bounds the failures).
FairSpec == Spec /\ \A p \in Discoverers : WF_vars(Begin(p)) /\ WF_vars(Proceed(p))

-----------------------------------------------------------------------------
\* Properties.

TypeOK ==
  /\ home \in [Locks -> Codes]
  /\ retired \subseteq Codes
  /\ known \subseteq Codes /\ checked \in BOOLEAN
  /\ active \subseteq Codes
  /\ devices \in [Locks -> Copies]
  /\ scan \in [Discoverers -> Scans]
  /\ \A p \in Discoverers : /\ scan[p].todo \subseteq scan[p].asked
                            /\ scan[p].hosts \cap scan[p].mirrors = {}
                            /\ scan[p].errors \cap scan[p].hosts = {}
  /\ failures \in Nat /\ moves \in Nat

\* A lock whose home has answered is listed with the copy its home served, in
\* whatever order the mirrors came, and whichever locks moved meanwhile
\* (api.py _scan, "Keep the copy served BY the lock's home datacenter").
LiveCopyWins ==
  \A p \in Discoverers : \A x \in scan[p].seen :
    x.copy = "live" => scan[p].found[x.lock] = "live"

\* An empty list is installed only after a scan of all datacenters, or leaves none
\* pinned, so that the next discovery scans all: "re-scanning everything if they
\* ever come back empty" (api.py async_discover), with another discovery clearing
\* or setting the pinned datacenters in the middle of this one.
EmptyOnlyAfterFullScan ==
  [][\A p \in Discoverers :
       scan[p].stage = "scan" /\ scan'[p].stage = "done" /\ Empty(scan[p])
         => scan[p].asked = Codes \/ active' = {}]_vars

\* What the last discovery of a poll listed.
Polled(l) == {scan[p].found[l] : p \in {q \in Discoverers \ Lookups : scan[q].stage = "done"}}

\* The pinned datacenters leave out the lock's home, and list something.
Overlooked(l) ==
  /\ active # {} /\ home[l] \notin active
  /\ \E k \in Locks : Polled(k) \ {"none"} # {}

\* Once failures and moves have stopped, the polls list every lock with its home's
\* copy, and again with every discovery, or else the pinned datacenters leave its home
\* out and still list something: an empty list is the only reason to look further
\* (api.py async_discover).  A datacenter shut down is RehomedIsFound's.
LostOnlyWhileOthersShow ==
  \A l \in Locks : []<>("live" \in Polled(l) \/ Overlooked(l) \/ retired # {})

\* A lock no mirror shows is listed again wherever it has moved, with a datacenter
\* shut down: "Pinned set went dry (datacenter down? lock re-homed?) -> re-scan all"
\* (api.py async_discover).
RehomedIsFound == \A l \in Locks : []<>("live" \in Polled(l))

-----------------------------------------------------------------------------
\* The abstract list, as this system implements it: a listing lasts as long as its scan.

Listing(p) == scan[p].stage = "scan"
AskedBy == [p \in Discoverers |-> IF Listing(p) THEN scan[p].asked ELSE {}]
SeenBy == [p \in Discoverers |-> IF Listing(p) THEN scan[p].seen ELSE {}]

List == INSTANCE DeviceList WITH
  Readers <- Discoverers,
  pinned  <- active,
  asked   <- AskedBy,
  saw     <- SeenBy

\* However the scans of concurrent discoveries interleave, with each other, with
\* failures and with moving locks, the list published is at all times the best of
\* what one scan saw and never a part of it, and the pinned datacenters are those that
\* owned its locks, or else echoed them (api.py _scan, async_discover).
ImplementsList == List!Spec
=============================================================================
