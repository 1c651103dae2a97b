-------------------------- MODULE DiscoveryProofs --------------------------
(***************************************************************************)
(* Proofs about Discovery: a lock's live copy wins over any mirror, an    *)
(* empty list is only installed for good after all datacenters were asked, *)
(* and discovery implements the abstract list (DeviceList).                *)
(*                                                                         *)
(* The invariant is one of each scan: what it has gathered comes from      *)
(* datacenters it is done with, and is, lock by lock and datacenter by     *)
(* datacenter, what the abstract list makes of the same sightings.         *)
(***************************************************************************)
EXTENDS Discovery, TLAPS

\* The incremental merge of a scan, as a function of the set of its sightings.
Gathered(s) ==
  /\ \A l \in Locks : s.found[l] = List!Best(s.seen, l)
  /\ s.hosts = List!Owning(s.seen)
  /\ s.mirrors = List!Echoing(s.seen) \ List!Owning(s.seen)

ScanOK(s) ==
  /\ s \in Scans
  /\ s.todo \subseteq s.asked
  /\ s.errors \cap (s.todo \cup List!Echoing(s.seen)) = {}
  /\ List!Echoing(s.seen) \cap s.todo = {}
  /\ s.again => s.asked = Codes
  /\ s.stage = "scan" => s.asked # {}
  /\ Gathered(s)

World ==
  /\ home \in [Locks -> Codes]
  /\ retired \subseteq Codes
  /\ known \subseteq Codes /\ checked \in BOOLEAN
  /\ active \subseteq Codes
  /\ devices \in [Locks -> Copies]
  /\ failures \in Nat /\ moves \in Nat

IInv == World /\ scan \in [Discoverers -> Scans] /\ \A p \in Discoverers : ScanOK(scan[p])

\* Of nothing.
LEMMA NoSightings ==
  /\ List!Echoing({}) = {} /\ List!Owning({}) = {} /\ \A l : List!Best({}, l) = "none"
BY DEF List!Echoing, List!Owning, List!Best

\* A scan that has not gathered anything.
LEMMA FreshScans ==
  /\ \A stage \in {"done", "failed", "learn"} : ScanOK(Resting(stage))
  /\ \A codes \in SUBSET Codes, again \in BOOLEAN :
       codes # {} /\ (again => codes = Codes) => ScanOK(ScanOf(codes, again))
<1>1. Nothing \in [Locks -> Copies]
  BY DEF Nothing, Copies
<1>2. ASSUME NEW stage \in {"done", "failed", "learn", "scan"}
      PROVE  /\ Resting(stage) \in Scans /\ Resting(stage).stage = stage
             /\ Resting(stage).asked = {} /\ Resting(stage).todo = {}
             /\ Resting(stage).hosts = {} /\ Resting(stage).mirrors = {}
             /\ Resting(stage).errors = {} /\ Resting(stage).seen = {}
             /\ Resting(stage).again = FALSE /\ Resting(stage).found = Nothing
  BY <1>1 DEF Resting, Scans
<1>3. ASSUME NEW stage \in {"done", "failed", "learn"}
      PROVE  ScanOK(Resting(stage))
  <2> DEFINE s == Resting(stage)
  <2>1. /\ s \in Scans /\ s.asked = {} /\ s.todo = {} /\ s.errors = {} /\ s.seen = {}
        /\ s.stage # "scan"
        /\ s.hosts = {} /\ s.mirrors = {} /\ s.again = FALSE /\ s.found = Nothing
    BY <1>2, <1>3
  <2> HIDE DEF s
  <2>2. ScanOK(s)
    BY <2>1, NoSightings DEF ScanOK, Gathered, Nothing
  <2> QED BY <2>2 DEF s
<1>4. ASSUME NEW codes \in SUBSET Codes, NEW again \in BOOLEAN, codes # {},
             again => codes = Codes
      PROVE  ScanOK(ScanOf(codes, again))
  <2> DEFINE s == ScanOf(codes, again)
  <2>1. s \in Scans
    BY <1>2 DEF ScanOf, Scans
  <2>2. /\ s.asked = codes /\ s.todo = codes /\ s.again = again
        /\ s.hosts = {} /\ s.mirrors = {} /\ s.errors = {} /\ s.seen = {}
        /\ s.found = Nothing
    BY <1>2 DEF ScanOf, Scans
  <2> HIDE DEF s
  <2>3. ScanOK(s)
    BY <1>4, <2>1, <2>2, NoSightings DEF ScanOK, Gathered, Nothing
  <2> QED BY <2>3 DEF s
<1> QED BY <1>3, <1>4

\* A scan whose stage alone changes.
LEMMA StageChange ==
  ASSUME NEW s, ScanOK(s), NEW stage \in {"done", "failed"}
  PROVE  ScanOK([s EXCEPT !.stage = stage])
BY DEF ScanOK, Gathered, Scans

\* A datacenter that is skipped, or that fails.
LEMMA PassedOver ==
  ASSUME NEW s, ScanOK(s), NEW code \in s.todo
  PROVE  /\ ScanOK([s EXCEPT !.todo = @ \ {code}])
         /\ ScanOK([s EXCEPT !.todo = @ \ {code}, !.errors = @ \cup {code}])
BY DEF ScanOK, Gathered, Scans

\* The sightings in a datacenter's answer.
LEMMA SightedFacts ==
  ASSUME home \in [Locks -> Codes], NEW code \in Codes, NEW listed \in SUBSET Locks
  PROVE  /\ \A x \in Sighted(code, listed) :
              /\ x \in Sightings /\ x.code = code /\ x.lock \in listed
              /\ x.copy = "live" <=> x.lock \in Hosted(code)
         /\ \A l \in listed : \E x \in Sighted(code, listed) : x.lock = l
<1>1. \A l \in listed : l \in Hosted(code) <=> home[l] = code
  BY DEF Hosted
<1> DEFINE X(l) == [code |-> code, lock |-> l,
                    copy |-> IF home[l] = code THEN "live" ELSE "mirror"]
<1>2. \A l \in listed : /\ X(l) \in Sightings /\ X(l).code = code /\ X(l).lock = l
                        /\ X(l).copy = "live" <=> l \in Hosted(code)
  BY <1>1 DEF Sightings
<1>3. Sighted(code, listed) = {X(l) : l \in listed}
  BY DEF Sighted
<1> HIDE DEF X
<1> QED BY <1>2, <1>3

\* A datacenter that answers.
LEMMA AnswerKept ==
  ASSUME home \in [Locks -> Codes], NEW s, ScanOK(s), NEW code \in s.todo, code \in Codes,
         NEW listed \in SUBSET Locks
  PROVE  /\ ScanOK(Answered(s, code, listed)) /\ code \notin List!Echoing(s.seen)
         /\ Answered(s, code, listed).seen = s.seen \cup Sighted(code, listed)
         /\ Answered(s, code, listed).stage = s.stage
         /\ Answered(s, code, listed).asked = s.asked
<1> DEFINE t == Answered(s, code, listed)
           live == listed \cap Hosted(code)
<1>0. t = [s EXCEPT
             !.todo = @ \ {code},
             !.found = Merge(@, code, listed),
             !.hosts = IF live # {} THEN @ \cup {code} ELSE @,
             !.mirrors = IF listed # {} /\ live = {} THEN @ \cup {code} ELSE @,
             !.seen = @ \cup Sighted(code, listed)]
  BY DEF Answered
<1>2. live = listed \cap Hosted(code)
  OBVIOUS
<1> HIDE DEF t, live
<1>1. s.found \in [Locks -> Copies] /\ s.seen \in SUBSET Sightings
  BY DEF ScanOK, Scans
<1>3. /\ t.todo = s.todo \ {code} /\ t.found = Merge(s.found, code, listed)
      /\ t.hosts = IF live # {} THEN s.hosts \cup {code} ELSE s.hosts
      /\ t.mirrors = IF listed # {} /\ live = {} THEN s.mirrors \cup {code} ELSE s.mirrors
      /\ t.seen = s.seen \cup Sighted(code, listed)
      /\ t.asked = s.asked /\ t.again = s.again /\ t.errors = s.errors /\ t.stage = s.stage
  BY <1>0, <1>1 DEF ScanOK, Scans
<1>4. code \notin List!Echoing(s.seen) /\ live \subseteq listed
  BY <1>2 DEF ScanOK
<1>5. /\ t.seen \in SUBSET Sightings
      /\ List!Echoing(t.seen) = IF listed = {} THEN List!Echoing(s.seen)
                                ELSE List!Echoing(s.seen) \cup {code}
      /\ List!Owning(t.seen) = IF live = {} THEN List!Owning(s.seen)
                               ELSE List!Owning(s.seen) \cup {code}
      /\ \A l \in Locks :
           List!Best(t.seen, l) = IF l \in live THEN "live"
                                  ELSE IF l \in listed /\ List!Best(s.seen, l) = "none"
                                  THEN "mirror" ELSE List!Best(s.seen, l)
  <2> DEFINE more == Sighted(code, listed)
  <2>1. /\ \A x \in more : /\ x \in Sightings /\ x.code = code /\ x.lock \in listed
                           /\ x.copy = "live" <=> x.lock \in live
        /\ \A l \in listed : \E x \in more : x.lock = l
    BY <1>2, SightedFacts
  <2>2. t.seen = s.seen \cup more
    BY <1>3
  <2> HIDE DEF more
  <2>3. t.seen \in SUBSET Sightings
    BY <1>1, <2>1, <2>2
  <2>4. List!Echoing(t.seen) = IF listed = {} THEN List!Echoing(s.seen)
                               ELSE List!Echoing(s.seen) \cup {code}
    BY <2>1, <2>2 DEF List!Echoing
  <2>5. List!Owning(t.seen) = IF live = {} THEN List!Owning(s.seen)
                              ELSE List!Owning(s.seen) \cup {code}
    BY <1>4, <2>1, <2>2 DEF List!Owning
  <2>6. ASSUME NEW l \in Locks
        PROVE  List!Best(t.seen, l) = IF l \in live THEN "live"
                                      ELSE IF l \in listed /\ List!Best(s.seen, l) = "none"
                                      THEN "mirror" ELSE List!Best(s.seen, l)
    BY <1>4, <2>1, <2>2 DEF List!Best
  <2> QED BY <2>3, <2>4, <2>5, <2>6
<1>6. t.found \in [Locks -> Copies] /\ \A l \in Locks : t.found[l] = List!Best(t.seen, l)
  <2>1. t.found \in [Locks -> Copies]
    BY <1>1, <1>3 DEF Merge, Copies
  <2>2. ASSUME NEW l \in Locks PROVE t.found[l] = List!Best(t.seen, l)
    <3>1. l \in live <=> l \in listed /\ home[l] = code
      BY <1>2 DEF Hosted
    <3>2. t.found[l] = IF l \in listed /\ home[l] = code THEN "live"
                       ELSE IF l \in listed /\ s.found[l] = "none" THEN "mirror"
                       ELSE s.found[l]
      BY <1>3 DEF Merge
    <3>3. s.found[l] = List!Best(s.seen, l)
      BY <1>1 DEF ScanOK, Gathered
    <3> QED BY <3>1, <3>2, <3>3, <1>5
  <2> QED BY <2>1, <2>2
<1>7. t.hosts = List!Owning(t.seen) /\ t.mirrors = List!Echoing(t.seen) \ List!Owning(t.seen)
  <2>1. /\ s.hosts = List!Owning(s.seen)
        /\ s.mirrors = List!Echoing(s.seen) \ List!Owning(s.seen)
        /\ List!Owning(s.seen) \subseteq List!Echoing(s.seen)
    BY <1>1 DEF ScanOK, Gathered, List!Owning, List!Echoing
  <2> QED BY <2>1, <1>3, <1>4, <1>5
<1>8. t \in Scans
  <2>1. /\ s.todo \in SUBSET Codes /\ s.hosts \in SUBSET Codes
        /\ s.mirrors \in SUBSET Codes /\ s \in Scans
    BY <1>1 DEF ScanOK, Scans
  <2>2. t.todo \in SUBSET Codes /\ t.hosts \in SUBSET Codes /\ t.mirrors \in SUBSET Codes
    BY <1>3, <2>1
  <2>3. t = [s EXCEPT !.todo = t.todo, !.found = t.found, !.hosts = t.hosts,
                      !.mirrors = t.mirrors, !.seen = t.seen]
    BY <1>0, <1>3, <2>1 DEF Scans
  <2>4. ASSUME NEW a \in SUBSET Codes, NEW b \in [Locks -> Copies],
               NEW c \in SUBSET Codes, NEW d \in SUBSET Codes, NEW e \in SUBSET Sightings
        PROVE  [s EXCEPT !.todo = a, !.found = b, !.hosts = c, !.mirrors = d,
                         !.seen = e] \in Scans
    BY <2>1 DEF Scans
  <2>5. [s EXCEPT !.todo = t.todo, !.found = t.found, !.hosts = t.hosts,
                  !.mirrors = t.mirrors, !.seen = t.seen] \in Scans
    BY <1>5, <1>6, <2>2, <2>4
  <2> QED BY <2>3, <2>5
<1>9. /\ t.todo \subseteq t.asked
      /\ t.errors \cap (t.todo \cup List!Echoing(t.seen)) = {}
      /\ List!Echoing(t.seen) \cap t.todo = {}
      /\ t.again => t.asked = Codes
      /\ t.stage = "scan" => t.asked # {}
  <2>1. /\ s.todo \subseteq s.asked /\ code \in s.todo
        /\ s.errors \cap (s.todo \cup List!Echoing(s.seen)) = {}
        /\ List!Echoing(s.seen) \cap s.todo = {}
        /\ s.again => s.asked = Codes
        /\ s.stage = "scan" => s.asked # {}
    BY <1>1 DEF ScanOK
  <2> QED BY <2>1, <1>3, <1>5
<1>10. ScanOK(t)
  BY <1>6, <1>7, <1>8, <1>9 DEF ScanOK, Gathered
<1> QED BY <1>3, <1>4, <1>10 DEF t

\* A scan has found something exactly if somebody listed something, and then it has
\* datacenters worth polling: those the abstract list would pin.
LEMMA SeenByAll ==
  ASSUME NEW s, ScanOK(s)
  PROVE  /\ Empty(s) <=> s.seen = {}
         /\ Empty(s) => s.hosts = {} /\ s.mirrors = {}
         /\ Productive(s) = List!Worth(s.seen)
         /\ Productive(s) = {} <=> s.seen = {}
<1>1. s.seen \in SUBSET Sightings /\ s.found \in [Locks -> Copies]
  BY DEF ScanOK, Scans
<1>2. s.seen = {} => Empty(s)
  BY <1>1 DEF ScanOK, Gathered, List!Best, Empty, Nothing
<1>3. ASSUME NEW x \in s.seen PROVE ~Empty(s)
  <2>1. x.lock \in Locks
    BY <1>1 DEF Sightings
  <2>2. s.found[x.lock] # "none"
    BY <2>1 DEF ScanOK, Gathered, List!Best
  <2> QED BY <2>1, <2>2 DEF Empty, Nothing
<1>4. /\ Productive(s) = List!Worth(s.seen)
      /\ Productive(s) = {} <=> s.seen = {}
      /\ s.seen = {} => s.hosts = {} /\ s.mirrors = {}
  BY DEF ScanOK, Gathered, Productive, List!Worth, List!Owning, List!Echoing
<1> QED BY <1>2, <1>3, <1>4

-----------------------------------------------------------------------------
\* Every step keeps the scans.

LEMMA ProceedKeeps ==
  ASSUME IInv, NEW p \in Discoverers, Begin(p) \/ Proceed(p)
  PROVE  /\ ScanOK(scan'[p]) /\ scan' = [scan EXCEPT ![p] = scan'[p]]
         /\ World'
<1> DEFINE s == scan[p]
<1>0. ScanOK(s) /\ s \in Scans
  BY DEF IInv
<1>1. CASE Begin(p)
  <2>1. ScanOK(scan'[p])
    BY <1>1, FreshScans, DiscoveryAssumption DEF Begin, Set, IInv, World
  <2> QED BY <1>1, <2>1 DEF Begin, Set, IInv, World, worldVars
<1>2. CASE Learn(p)
  <2> DEFINE codes == IF active = {} THEN Codes ELSE active
  <2>0. /\ scan' = [scan EXCEPT ![p] = ScanOf(codes, FALSE)]
           \/ scan' = [scan EXCEPT ![p] = Resting("failed")]
        /\ codes \in SUBSET Codes /\ codes # {} /\ scan \in [Discoverers -> Scans]
    BY <1>2, DiscoveryAssumption DEF Learn, Set, IInv, World
  <2>1. ScanOK(scan'[p])
    BY <2>0, FreshScans
  <2>2. known' \subseteq Codes /\ failures' \in Nat
    <3>1. /\ (\E learned \in SUBSET Codes : known' = known \cup learned) \/ known' = known
          /\ failures' = failures \/ failures' = failures + 1
      BY <1>2 DEF Learn, Fails
    <3> QED BY <3>1 DEF IInv, World
  <2>3. World'
    BY <1>2, <2>2 DEF Learn, IInv, World, worldVars
  <2> QED BY <2>0, <2>1, <2>3
<1>3. ASSUME NEW code \in Codes,
             Skips(p, code) \/ Answers(p, code) \/ Refuses(p, code) \/ Errs(p, code)
               \/ Escapes(p, code)
      PROVE  ScanOK(scan'[p]) /\ scan' = [scan EXCEPT ![p] = scan'[p]] /\ World'
  <2>1. code \in s.todo
    BY <1>3 DEF Skips, Answers, Refuses, Errs, Escapes, Asks
  <2>2. CASE Skips(p, code)
    BY <1>0, <2>1, <2>2, PassedOver DEF Skips, Set, IInv, World, worldVars
  <2>3. CASE Answers(p, code)
    <3>1. Lists(code) \in SUBSET Locks
      BY DEF Lists
    <3>2. ScanOK(Answered(s, code, Lists(code)))
      BY <1>0, <2>1, <3>1, AnswerKept DEF IInv, World
    <3> QED BY <2>3, <3>2 DEF Answers, Set, IInv, World, worldVars
  <2>4. CASE Refuses(p, code)
    <3>1. ScanOK(Answered(s, code, {}))
      BY <1>0, <2>1, AnswerKept DEF IInv, World
    <3>2. failures' \in Nat
      BY <2>4 DEF Refuses, Fails, IInv, World
    <3> QED BY <2>4, <3>1, <3>2 DEF Refuses, Set, IInv, World, worldVars
  <2>5. CASE Errs(p, code)
    <3>1. ScanOK(scan'[p])
      BY <1>0, <2>1, <2>5, PassedOver DEF Errs, Set, IInv
    <3>2. failures' \in Nat
      BY <2>5 DEF Errs, Fails, IInv, World
    <3> QED BY <2>5, <3>1, <3>2 DEF Errs, Set, IInv, World, worldVars
  <2>6. CASE Escapes(p, code)
    <3>1. ScanOK(scan'[p])
      BY <1>0, <2>6, StageChange DEF Escapes, Set, IInv
    <3>2. failures' \in Nat
      BY <2>6 DEF Escapes, Fails, IInv, World
    <3> QED BY <2>6, <3>1, <3>2 DEF Escapes, Set, IInv, World, worldVars
  <2> QED BY <1>3, <2>2, <2>3, <2>4, <2>5, <2>6
<1>4. CASE GivesUp(p)
  BY <1>0, <1>4, StageChange DEF GivesUp, Set, IInv, World, worldVars
<1>5. CASE Rescans(p)
  BY <1>5, FreshScans, DiscoveryAssumption DEF Rescans, Set, IInv, World, worldVars
<1>6. CASE Installs(p)
  <2>1. ScanOK(scan'[p])
    BY <1>0, <1>6, StageChange DEF Installs, Set, IInv
  <2>2. active' \subseteq Codes /\ devices' \in [Locks -> Copies]
    BY <1>0, <1>6 DEF Installs, Productive, Scans, IInv, World
  <2> QED BY <1>6, <2>1, <2>2 DEF Installs, Set, IInv, World, worldVars
<1> QED BY <1>1, <1>2, <1>3, <1>4, <1>5, <1>6 DEF Proceed

LEMMA InitInvariant == Init => IInv
<1> SUFFICES ASSUME Init PROVE IInv
  OBVIOUS
<1>1. ScanOK(Resting("done")) /\ Resting("done") \in Scans
  BY FreshScans DEF ScanOK
<1>2. World
  BY DiscoveryAssumption DEF Init, World, Nothing, Copies
<1>3. scan \in [Discoverers -> Scans] /\ \A p \in Discoverers : scan[p] = Resting("done")
  BY <1>1 DEF Init
<1> QED BY <1>1, <1>2, <1>3 DEF IInv

LEMMA NextInvariant ==
  ASSUME IInv, [Next]_vars
  PROVE  IInv'
<1>1. ASSUME NEW p \in Discoverers, Begin(p) \/ Proceed(p)
      PROVE  IInv'
  <2>1. /\ ScanOK(scan'[p]) /\ scan' = [scan EXCEPT ![p] = scan'[p]]
        /\ World'
    BY <1>1, ProceedKeeps
  <2>2. scan' \in [Discoverers -> Scans]
    BY <2>1 DEF IInv, ScanOK
  <2>3. ASSUME NEW q \in Discoverers
        PROVE  ScanOK(scan[q])'
    BY <2>1 DEF IInv, ScanOK, Gathered
  <2> QED BY <2>1, <2>2, <2>3 DEF IInv
<1>2. CASE \E l \in Locks : Rehome(l)
  <2>1. World' /\ scan' = scan
    BY <1>2, DiscoveryAssumption DEF Rehome, IInv, World
  <2> QED BY <2>1 DEF IInv, ScanOK, Gathered
<1>3. CASE \E code \in Codes : Retire(code)
  <2>1. World' /\ scan' = scan
    BY <1>3 DEF Retire, IInv, World
  <2> QED BY <2>1 DEF IInv, ScanOK, Gathered
<1>4. CASE UNCHANGED vars
  BY <1>4 DEF vars, IInv, World, ScanOK, Gathered
<1> QED BY <1>1, <1>2, <1>3, <1>4 DEF Next

LEMMA DiscoveryInvariant == Spec => []IInv
BY InitInvariant, NextInvariant, PTL DEF Spec

\* Discovery.TypeOK holds in every reachable state.
THEOREM DiscoveryTypes == Spec => []TypeOK
<1>1. ASSUME IInv PROVE TypeOK
  <2>1. ASSUME NEW p \in Discoverers
        PROVE  /\ scan[p].todo \subseteq scan[p].asked
               /\ scan[p].hosts \cap scan[p].mirrors = {}
               /\ scan[p].errors \cap scan[p].hosts = {}
    BY <1>1 DEF IInv, ScanOK, Gathered, List!Owning, List!Echoing
  <2> QED BY <1>1, <2>1 DEF IInv, World, TypeOK
<1> QED BY <1>1, DiscoveryInvariant, PTL

\* A lock whose home has answered is listed with its home's copy.
THEOREM LiveCopiesWin == Spec => []LiveCopyWins
<1>1. ASSUME IInv, NEW p \in Discoverers, NEW x \in scan[p].seen, x.copy = "live"
      PROVE  scan[p].found[x.lock] = "live"
  BY <1>1 DEF IInv, ScanOK, Gathered, Scans, Sightings, List!Best
<1>2. IInv => LiveCopyWins
  BY <1>1 DEF LiveCopyWins
<1> QED BY <1>2, DiscoveryInvariant, PTL

\* An empty list is installed after a scan of all datacenters, or leaves none pinned.
THEOREM EmptyMeansAsked == Spec => EmptyOnlyAfterFullScan
<1>1. ASSUME IInv, [Next]_vars
      PROVE  [\A p \in Discoverers :
                scan[p].stage = "scan" /\ scan'[p].stage = "done" /\ Empty(scan[p])
                  => scan[p].asked = Codes \/ active' = {}]_vars
  <2> SUFFICES ASSUME NEW p \in Discoverers, scan[p].stage = "scan",
                      scan'[p].stage = "done", Empty(scan[p])
               PROVE  scan[p].asked = Codes \/ active' = {}
    OBVIOUS
  <2>1. Proceed(p)
    <3>1. ASSUME NEW q \in Discoverers, Begin(q) \/ Proceed(q), q # p
          PROVE  FALSE
      <4>1. scan' = [scan EXCEPT ![q] = scan'[q]]
        BY <1>1, <3>1, ProceedKeeps
      <4> QED BY <1>1, <3>1, <4>1 DEF IInv
    <3>2. ~Begin(p)
      BY DEF Begin
    <3> QED BY <1>1, <3>1, <3>2 DEF Next, Rehome, Retire, vars
  <2>2. ScanOK(scan[p])
    BY <1>1 DEF IInv
  <2>3. Installs(p)
    <3> DEFINE s == scan[p]
    <3>1. s \in Scans /\ s.stage = "scan" /\ scan \in [Discoverers -> Scans]
      BY <1>1, <2>2 DEF IInv, ScanOK
    <3>2. ~Learn(p)
      BY DEF Learn
    <3>3. ASSUME NEW code \in Codes
          PROVE  /\ ~Skips(p, code) /\ ~Answers(p, code) /\ ~Refuses(p, code)
                 /\ ~Errs(p, code) /\ ~Escapes(p, code)
      <4>1. ~Skips(p, code) /\ ~Errs(p, code) /\ ~Escapes(p, code)
        BY <3>1 DEF Skips, Errs, Escapes, Set, Scans
      <4>2. ASSUME NEW listed, Set(p, Answered(s, code, listed))
            PROVE  FALSE
        <5>1. scan'[p].stage = s.stage
          BY <3>1, <4>2 DEF Answered, Set, Scans
        <5> QED BY <3>1, <5>1
      <4> QED BY <4>1, <4>2 DEF Answers, Refuses
    <3>4. ~GivesUp(p)
      BY <3>1 DEF GivesUp, Set, Scans
    <3>5. ~Rescans(p)
      BY <3>1 DEF Rescans, Set, ScanOf, Resting
    <3> QED BY <2>1, <3>2, <3>3, <3>4, <3>5 DEF Proceed
  <2>4. Productive(scan[p]) = {}
    BY <2>2, SeenByAll DEF Productive
  <2> QED BY <2>2, <2>3, <2>4 DEF Installs, WentDry, ScanOK
<1> QED BY <1>1, DiscoveryInvariant, PTL DEF Spec, EmptyOnlyAfterFullScan

-----------------------------------------------------------------------------
\* The abstract list (DeviceList), step by step.

\* What one discovery's step does to the mapped variables.
LEMMA MappedStep ==
  ASSUME IInv, NEW p \in Discoverers, NEW t, scan' = [scan EXCEPT ![p] = t]
  PROVE  /\ t.stage = "scan" => /\ AskedBy' = [AskedBy EXCEPT ![p] = t.asked]
                                /\ SeenBy' = [SeenBy EXCEPT ![p] = t.seen]
         /\ t.stage # "scan" => /\ AskedBy' = [AskedBy EXCEPT ![p] = {}]
                                /\ SeenBy' = [SeenBy EXCEPT ![p] = {}]
         /\ AskedBy'[p] = AskedBy[p] => AskedBy' = AskedBy
         /\ SeenBy'[p] = SeenBy[p] => SeenBy' = SeenBy
         /\ AskedBy'[p] = IF t.stage = "scan" THEN t.asked ELSE {}
         /\ SeenBy'[p] = IF t.stage = "scan" THEN t.seen ELSE {}
<1>1. scan'[p] = t /\ \A q \in Discoverers : q # p => scan'[q] = scan[q]
  BY DEF IInv
<1>2. /\ AskedBy' = [q \in Discoverers |-> AskedBy'[q]]
      /\ AskedBy = [q \in Discoverers |-> AskedBy[q]]
      /\ SeenBy' = [q \in Discoverers |-> SeenBy'[q]]
      /\ SeenBy = [q \in Discoverers |-> SeenBy[q]]
  BY DEF AskedBy, SeenBy
<1>3. /\ AskedBy'[p] = IF t.stage = "scan" THEN t.asked ELSE {}
      /\ SeenBy'[p] = IF t.stage = "scan" THEN t.seen ELSE {}
  BY <1>1 DEF AskedBy, SeenBy, Listing
<1>4. ASSUME NEW q \in Discoverers, q # p
      PROVE  AskedBy'[q] = AskedBy[q] /\ SeenBy'[q] = SeenBy[q]
  BY <1>1, <1>4 DEF AskedBy, SeenBy, Listing
<1>5. /\ AskedBy' = [AskedBy EXCEPT ![p] = AskedBy'[p]]
      /\ SeenBy' = [SeenBy EXCEPT ![p] = SeenBy'[p]]
  BY <1>2, <1>4
<1>6. /\ AskedBy'[p] = AskedBy[p] => AskedBy' = AskedBy
      /\ SeenBy'[p] = SeenBy[p] => SeenBy' = SeenBy
  BY <1>2, <1>4
<1> QED BY <1>3, <1>5, <1>6

\* What a listing's step starts from.
LEMMA ListingFacts ==
  ASSUME IInv, NEW p \in Discoverers
  PROVE  /\ ScanOK(scan[p]) /\ scan[p] \in Scans
         /\ AskedBy[p] = IF Listing(p) THEN scan[p].asked ELSE {}
         /\ SeenBy[p] = IF Listing(p) THEN scan[p].seen ELSE {}
BY DEF IInv, ScanOK, AskedBy, SeenBy

\* A step the list does not see: the listing asks the same, and has seen the same.
LEMMA UnseenStep ==
  ASSUME IInv, NEW p \in Discoverers, NEW t, scan' = [scan EXCEPT ![p] = t],
         IF Listing(p) THEN t.stage = "scan" /\ t.asked = scan[p].asked /\ t.seen = scan[p].seen
                       ELSE t.stage # "scan",
         UNCHANGED <<home, devices, active>>
  PROVE  UNCHANGED List!vars
<1>1. AskedBy'[p] = AskedBy[p] /\ SeenBy'[p] = SeenBy[p]
  BY MappedStep, ListingFacts
<1>2. AskedBy' = AskedBy /\ SeenBy' = SeenBy
  BY <1>1, MappedStep
<1> QED BY <1>2 DEF List!vars

\* A scan begins.
LEMMA ScanIsStart ==
  ASSUME IInv, NEW p \in Discoverers, ~Listing(p),
         Set(p, ScanOf(IF active = {} THEN Codes ELSE active, FALSE)),
         UNCHANGED <<home, devices, active>>
  PROVE  List!Start(p)
<1> DEFINE codes == IF active = {} THEN Codes ELSE active
           t == ScanOf(codes, FALSE)
<1>1. t.stage = "scan" /\ t.asked = codes /\ t.seen = {}
  BY DEF ScanOf, Resting
<1>2. scan' = [scan EXCEPT ![p] = t]
  BY DEF Set
<1> HIDE DEF t, codes
<1>3. AskedBy' = [AskedBy EXCEPT ![p] = codes]
  BY <1>1, <1>2, MappedStep
<1>4. SeenBy' = SeenBy
  BY <1>1, <1>2, MappedStep, ListingFacts
<1> QED BY <1>3, <1>4, ListingFacts DEF List!Start, codes

\* A discovery fails.
LEMMA FailureDrops ==
  ASSUME IInv, NEW p \in Discoverers, NEW t, scan' = [scan EXCEPT ![p] = t], t.stage # "scan",
         UNCHANGED <<home, devices, active>>
  PROVE  List!Drop(p)
BY MappedStep DEF List!Drop

\* A datacenter's answer is what it lists.
LEMMA AnswerIsSeen ==
  ASSUME IInv, NEW p \in Discoverers, NEW code \in Codes, NEW listed \in SUBSET Locks,
         Asks(p, code), Set(p, Answered(scan[p], code, listed)),
         UNCHANGED <<home, devices, active>>
  PROVE  List!See(p)
<1> DEFINE s == scan[p]
           t == Answered(s, code, listed)
<1>1. ScanOK(s) /\ s.stage = "scan" /\ code \in s.todo /\ home \in [Locks -> Codes]
      /\ AskedBy[p] = s.asked /\ SeenBy[p] = s.seen /\ code \in s.asked
  BY ListingFacts DEF Asks, Listing, IInv, World, ScanOK
<1>2. /\ code \notin List!Echoing(s.seen) /\ t.seen = s.seen \cup Sighted(code, listed)
      /\ t.stage = s.stage /\ t.asked = s.asked
  BY <1>1, AnswerKept
<1>3. scan' = [scan EXCEPT ![p] = t]
  BY DEF Set
<1> HIDE DEF t
<1>4. AskedBy' = AskedBy
  BY <1>1, <1>2, <1>3, MappedStep, ListingFacts
<1>5. SeenBy' = [SeenBy EXCEPT ![p] = @ \cup Sighted(code, listed)]
  <2>1. SeenBy' = [SeenBy EXCEPT ![p] = t.seen]
    BY <1>1, <1>2, <1>3, MappedStep
  <2>2. t.seen = SeenBy[p] \cup Sighted(code, listed)
    BY <1>1, <1>2
  <2> QED BY <2>1, <2>2
<1>6. Sighted(code, listed)
        = {[code |-> code, lock |-> l, copy |-> List!Copy(code, l)] : l \in listed}
  BY DEF Sighted, List!Copy
<1>7. code \in AskedBy[p] \ List!Echoing(SeenBy[p])
  BY <1>1, <1>2
<1> QED BY <1>4, <1>5, <1>6, <1>7 DEF List!See

\* The end of a scan whose list is installed.
LEMMA InstallPublishes ==
  ASSUME IInv, NEW p \in Discoverers, Installs(p)
  PROVE  List!Publish(p)
<1> DEFINE s == scan[p]
           t == [s EXCEPT !.stage = "done"]
<1>1. /\ ScanOK(s) /\ s \in Scans /\ s.stage = "scan" /\ ~WentDry(s)
      /\ AskedBy[p] = s.asked /\ SeenBy[p] = s.seen
      /\ scan' = [scan EXCEPT ![p] = t] /\ devices' = s.found /\ UNCHANGED home
      /\ active' = IF Productive(s) # {} THEN Productive(s) ELSE active
  BY ListingFacts DEF Installs, Ended, Listing, Set, worldVars
<1>2. t.stage = "done"
  BY <1>1 DEF Scans
<1>3. AskedBy' = [AskedBy EXCEPT ![p] = {}] /\ SeenBy' = [SeenBy EXCEPT ![p] = {}]
  BY <1>1, <1>2, MappedStep
<1>4. /\ Empty(s) <=> s.seen = {}
      /\ Productive(s) = List!Worth(s.seen) /\ (Productive(s) = {} <=> s.seen = {})
  BY <1>1, SeenByAll
<1>5. active' = IF s.seen = {} THEN active ELSE List!Worth(s.seen)
  BY <1>1, <1>4
<1>6. devices' = [l \in Locks |-> List!Best(s.seen, l)]
  BY <1>1 DEF ScanOK, Gathered, Scans
<1>7. s.seen = {} => s.asked = Codes \/ active = {}
  BY <1>1, <1>4 DEF WentDry, ScanOK
<1>8. s.asked # {}
  BY <1>1 DEF ScanOK
<1> HIDE DEF s
<1> QED BY <1>1, <1>3, <1>5, <1>6, <1>7, <1>8 DEF List!Publish

\* The pinned datacenters went dry.
LEMMA RescanWidens ==
  ASSUME IInv, NEW p \in Discoverers, Rescans(p)
  PROVE  List!Widen(p)
<1> DEFINE s == scan[p]
           t == ScanOf(Codes, TRUE)
<1>1. /\ ScanOK(s) /\ s.stage = "scan" /\ Empty(s) /\ active # {} /\ active' = {}
      /\ AskedBy[p] = s.asked /\ SeenBy[p] = s.seen
      /\ scan' = [scan EXCEPT ![p] = t] /\ UNCHANGED <<home, devices>>
  BY ListingFacts DEF Rescans, Ended, Listing, Set, WentDry, worldVars
<1>2. s.seen = {} /\ s.asked # {}
  BY <1>1, SeenByAll DEF ScanOK
<1>3. t.stage = "scan" /\ t.asked = Codes /\ t.seen = {}
  BY DEF ScanOf, Resting
<1> HIDE DEF s, t
<1>4. AskedBy' = [AskedBy EXCEPT ![p] = Codes]
  BY <1>1, <1>3, MappedStep
<1>5. SeenBy' = SeenBy
  <2>1. SeenBy'[p] = {} /\ SeenBy[p] = {}
    BY <1>1, <1>2, <1>3, MappedStep
  <2> QED BY <1>1, <2>1, MappedStep
<1> QED BY <1>1, <1>2, <1>4, <1>5 DEF List!Widen

\* A step of one discovery is one of the list's, or none.
LEMMA ProceedMaps ==
  ASSUME IInv, NEW p \in Discoverers, Begin(p) \/ Proceed(p)
  PROVE  [List!Next]_(List!vars)
<1> DEFINE s == scan[p]
           codes == IF active = {} THEN Codes ELSE active
<1>0. s \in Scans
  BY ListingFacts
<1>1. ASSUME List!Start(p) \/ List!See(p) \/ List!Widen(p) \/ List!Publish(p) \/ List!Drop(p)
      PROVE  List!Next
  BY <1>1 DEF List!Next
<1>2. CASE Begin(p)
  <2>1. ~Listing(p) /\ UNCHANGED <<home, devices, active>>
    BY <1>2 DEF Begin, Listing, worldVars
  <2>2. CASE checked
    <3>1. Set(p, ScanOf(codes, FALSE))
      BY <1>2, <2>2 DEF Begin
    <3> QED BY <1>1, <2>1, <3>1, ScanIsStart
  <2>3. CASE ~checked
    <3> DEFINE t == Resting("learn")
    <3>1. scan' = [scan EXCEPT ![p] = t] /\ t.stage # "scan"
      BY <1>2, <2>3 DEF Begin, Set, Resting
    <3> HIDE DEF t
    <3> QED BY <2>1, <3>1, UnseenStep
  <2> QED BY <2>2, <2>3
<1>3. CASE Learn(p)
  <2>1. ~Listing(p) /\ UNCHANGED <<home, devices, active>>
    BY <1>3 DEF Learn, Listing, worldVars
  <2>2. CASE Set(p, ScanOf(codes, FALSE))
    BY <1>1, <2>1, <2>2, ScanIsStart
  <2>3. CASE Set(p, Resting("failed"))
    <3> DEFINE t == Resting("failed")
    <3>1. scan' = [scan EXCEPT ![p] = t] /\ t.stage # "scan"
      BY <2>3 DEF Set, Resting
    <3> HIDE DEF t
    <3> QED BY <2>1, <3>1, UnseenStep
  <2> QED BY <1>3, <2>2, <2>3 DEF Learn
<1>4. ASSUME NEW code \in Codes, Skips(p, code) \/ Errs(p, code)
      PROVE  UNCHANGED List!vars
  <2>1. PICK t : /\ scan' = [scan EXCEPT ![p] = t]
                 /\ t = [s EXCEPT !.todo = @ \ {code}]
                    \/ t = [s EXCEPT !.todo = @ \ {code}, !.errors = @ \cup {code}]
    BY <1>4 DEF Skips, Errs, Set
  <2>2. t.stage = s.stage /\ t.asked = s.asked /\ t.seen = s.seen
    BY <1>0, <2>1 DEF Scans
  <2>3. Listing(p) /\ UNCHANGED <<home, devices, active>>
    BY <1>4 DEF Skips, Errs, Asks, Listing, worldVars
  <2> QED BY <2>1, <2>2, <2>3, UnseenStep DEF Listing
<1>5. ASSUME NEW code \in Codes, Answers(p, code) \/ Refuses(p, code)
      PROVE  List!See(p)
  <2>1. PICK listed \in SUBSET Locks : Set(p, Answered(s, code, listed))
    <3>1. Lists(code) \in SUBSET Locks /\ {} \in SUBSET Locks
      BY DEF Lists
    <3> QED BY <1>5, <3>1 DEF Answers, Refuses
  <2>2. Asks(p, code) /\ UNCHANGED <<home, devices, active>>
    BY <1>5 DEF Answers, Refuses, worldVars
  <2> QED BY <2>1, <2>2, AnswerIsSeen
<1>6. ASSUME (\E code \in Codes : Escapes(p, code)) \/ GivesUp(p)
      PROVE  List!Drop(p)
  <2> DEFINE t == [s EXCEPT !.stage = "failed"]
  <2>1. scan' = [scan EXCEPT ![p] = t] /\ UNCHANGED <<home, devices, active>>
    BY <1>6 DEF Escapes, GivesUp, Set, worldVars
  <2>2. t.stage # "scan"
    BY <1>0 DEF Scans
  <2> HIDE DEF t
  <2> QED BY <2>1, <2>2, FailureDrops
<1> QED BY <1>1, <1>2, <1>3, <1>4, <1>5, <1>6, RescanWidens, InstallPublishes DEF Proceed

LEMMA ListInit == Init => List!Init
<1> SUFFICES ASSUME Init PROVE List!Init
  OBVIOUS
<1>1. \A p \in Discoverers : ~Listing(p)
  BY DEF Init, Listing, Resting
<1>2. AskedBy = [p \in Discoverers |-> {}] /\ SeenBy = [p \in Discoverers |-> {}]
  BY <1>1 DEF AskedBy, SeenBy
<1> QED BY <1>2, DiscoveryAssumption DEF Init, List!Init, Nothing

LEMMA ListNext ==
  ASSUME IInv, [Next]_vars
  PROVE  [List!Next]_(List!vars)
<1>1. CASE \E l \in Locks : Rehome(l)
  <2>1. PICK l \in Locks, code \in Codes : home' = [home EXCEPT ![l] = code]
    BY <1>1, DiscoveryAssumption DEF Rehome
  <2>2. UNCHANGED <<devices, active, AskedBy, SeenBy>>
    BY <1>1 DEF Rehome, AskedBy, SeenBy, Listing
  <2> QED BY <2>1, <2>2 DEF List!Next, List!Move
<1>2. CASE (\E code \in Codes : Retire(code)) \/ UNCHANGED vars
  BY <1>2 DEF Retire, vars, List!vars, AskedBy, SeenBy, Listing
<1> QED BY <1>1, <1>2, ProceedMaps DEF Next

\* Discovery implements the abstract list: whatever the interleaving of discoveries,
\* failures and moves, the list published is the best of what one scan saw, and the
\* datacenters pinned are those that owned its locks, or else echoed them.
THEOREM DiscoveryImplementsList == Spec => ImplementsList
BY ListInit, ListNext, DiscoveryInvariant, PTL DEF Spec, ImplementsList, List!Spec
=============================================================================
