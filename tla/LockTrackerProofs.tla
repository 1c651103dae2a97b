-------------------------- MODULE LockTrackerProofs --------------------------
(***************************************************************************)
(* What every method of the tracker returns and leaves alone, for every    *)
(* tracker, event, report and clock.                                       *)
(***************************************************************************)
EXTENDS LockTracker, TLAPS

Pendings == {"locking", "unlocking", None}
Events == [kind : Kinds, state : States, battery : Levels,
           ts : Nat, mid : Nat, boot : Nat, seq : Nat]
PollReports == [bolt : BoltStates \cup {None}, door : {"open", "closed", None},
                battery : Levels, online : BOOLEAN]

\* Two trackers that differ in the pending command only.
SameButPending(t, u) ==
  /\ Face(u) = Face(t) /\ u.bolt = t.bolt /\ u.door = t.door
  /\ u.battery = t.battery /\ u.online = t.online
  /\ u.order = t.order /\ u.seen = t.seen

\* set_pending changes the pending command and nothing else.
LEMMA SetPendingType ==
  ASSUME NEW t \in Trackers, NEW p \in Pendings, NEW now \in Nat
  PROVE  /\ SetPending(t, p, now) \in Trackers
         /\ SameButPending(t, SetPending(t, p, now))
         /\ SetPending(t, p, now).pending = p
<1> DEFINE s == IF p = None THEN 0 ELSE now
           u == [t EXCEPT !.pending = p, !.since = s]
<1>1. s \in Nat
  OBVIOUS
<1>2. u \in Trackers /\ u.pending = p /\ SameButPending(t, u)
  BY <1>1 DEF Trackers, Pendings, SameButPending, Face
<1>3. CASE p = t.pending
  BY <1>3 DEF SetPending, SameButPending, Face
<1>4. CASE p # t.pending
  <2>1. SetPending(t, p, now) = u
    BY <1>4 DEF SetPending
  <2> QED BY <2>1, <1>2
<1> QED BY <1>3, <1>4

\* Clearing on a condition leaves every facet alone.
LEMMA ClearIfType ==
  ASSUME NEW t \in Trackers, NEW c \in BOOLEAN
  PROVE  /\ ClearIf(c, t) \in Trackers
         /\ SameButPending(t, ClearIf(c, t))
         /\ ClearIf(c, t).pending = IF c THEN None ELSE t.pending
<1>1. CASE c
  BY <1>1, SetPendingType DEF ClearIf, Pendings
<1>2. CASE ~c
  BY <1>2 DEF ClearIf, SameButPending, Face
<1> QED BY <1>1, <1>2

LEMMA SameTransitive ==
  ASSUME NEW t, NEW u, NEW v, SameButPending(t, u), SameButPending(u, v)
  PROVE  SameButPending(t, v)
BY DEF SameButPending

\* deque.append while there is room.
LEMMA RememberType ==
  ASSUME NEW seen \in Seq(Identities), NEW id \in Identities
  PROVE  /\ Remember(seen, id) \in Seq(Identities)
         /\ Len(seen) < SeenMax => Remember(seen, id) = Append(seen, id)
<1>1. CASE Len(seen) < SeenMax
  BY <1>1 DEF Remember
<1>2. CASE ~(Len(seen) < SeenMax)
  <2>1. seen # << >>
    BY <1>2, TrackerAssumption
  <2>2. Tail(seen) \in Seq(Identities)
    BY <2>1
  <2> QED BY <1>2, <2>2 DEF Remember
<1> QED BY <1>1, <1>2

\* The pending command settles without disturbing what the event told.
LEMMA SettlePendingType ==
  ASSUME NEW t \in Trackers, NEW u \in Trackers, NEW ev \in Events, NEW now \in Nat
  PROVE  LET s == SettlePending(t, u, ev, now)
         IN  s \in Trackers /\ SameButPending(u, s) /\ ~Reached(s)
<1> DEFINE asked == IF ev.kind = "setLock" /\ ev.state \in BoltStates
                    THEN SetPending(u, Request(ev.state), now) ELSE u
           c == ev.kind = "lock" /\ Takes(t, ev, "bolt")
           confirmed == ClearIf(c, asked)
           s == ClearIf(Reached(confirmed), confirmed)
<1>1. asked \in Trackers /\ SameButPending(u, asked)
  BY SetPendingType DEF Request, Pendings, SameButPending, Face
<1>2. c \in BOOLEAN
  OBVIOUS
<1>3. confirmed \in Trackers /\ SameButPending(asked, confirmed)
  <2> HIDE DEF asked, c
  <2> QED BY <1>1, <1>2, ClearIfType
<1>4. Reached(confirmed) \in BOOLEAN
  BY DEF Reached
<1>5. s \in Trackers /\ SameButPending(confirmed, s)
      /\ s.pending = IF Reached(confirmed) THEN None ELSE confirmed.pending
  <2> HIDE DEF confirmed
  <2> QED BY <1>3, <1>4, ClearIfType
<1>6. SameButPending(u, s)
  <2> HIDE DEF asked, confirmed, s
  <2> QED BY <1>1, <1>3, <1>5, SameTransitive
<1>7. ~Reached(s)
  <2> HIDE DEF confirmed, s
  <2> QED BY <1>5 DEF Reached, SameButPending
<1>8. SettlePending(t, u, ev, now) = s
  BY DEF SettlePending
<1> QED BY <1>5, <1>6, <1>7, <1>8

\* An event's facets stay in their types.
LEMMA TakeFacetsType ==
  ASSUME NEW t \in Trackers, NEW ev \in Events
  PROVE  TakeFacets(t, ev) \in Trackers
<1> DEFINE online == IF ev.kind = "wifiState" /\ ev.state \in {"0", "1"}
                     THEN ev.state = "1" ELSE t.online
           order == [f \in Facets |-> IF Takes(t, ev, f) THEN Key(ev) ELSE t.order[f]]
           bolt == IF Takes(t, ev, "bolt") THEN ev.state ELSE t.bolt
           door == IF Takes(t, ev, "door") THEN DoorShown(ev.state) ELSE t.door
           battery == IF Takes(t, ev, "battery") THEN ev.battery ELSE t.battery
           seen == Remember(t.seen, Identity(ev))
<1>1. online \in BOOLEAN
  BY DEF Trackers
<1>2. order \in [Facets -> Keys]
  BY DEF Trackers, Key, Keys, Events
<1>3. bolt \in BoltStates \cup {None}
  BY DEF Trackers, Takes, Offers
<1>4. door \in {"open", "closed", None}
  BY DEF Trackers, DoorShown
<1>5. battery \in Levels
  BY DEF Trackers, Events
<1>6. seen \in Seq(Identities)
  <2>1. Identity(ev) \in Identities
    BY DEF Identity, Identities, Events
  <2>2. t.seen \in Seq(Identities)
    BY DEF Trackers
  <2> QED BY <2>1, <2>2, RememberType
<1>7. TakeFacets(t, ev) = [t EXCEPT !.seen = seen, !.online = online, !.order = order,
                                    !.bolt = bolt, !.door = door, !.battery = battery]
  BY DEF TakeFacets
<1> HIDE DEF online, order, bolt, door, battery, seen
<1> QED BY <1>1, <1>2, <1>3, <1>4, <1>5, <1>6, <1>7 DEF Trackers

\* An event leaves a tracker, with no command pending towards what it shows.
LEMMA ApplyType ==
  ASSUME NEW t \in Trackers, NEW ev \in Events, NEW now \in Nat
  PROVE  /\ Apply(t, ev, now) \in Trackers
         /\ IsRedelivery(t, ev) => Apply(t, ev, now) = t
         /\ ~IsRedelivery(t, ev) =>
              SameButPending(TakeFacets(t, ev), Apply(t, ev, now))
         /\ ~Reached(t) => ~Reached(Apply(t, ev, now))
<1>1. CASE IsRedelivery(t, ev)
  BY <1>1 DEF Apply
<1>2. CASE ~IsRedelivery(t, ev)
  BY <1>2, TakeFacetsType, SettlePendingType DEF Apply
<1> QED BY <1>1, <1>2

\* A poll overwrites what it can tell, leaves the event stream's memory alone,
\* and leaves no command pending towards what the tracker shows.
LEMMA ApplyPollType ==
  ASSUME NEW t \in Trackers, NEW report \in PollReports, NEW now \in Nat
  PROVE  LET u == ApplyPoll(t, report, now)
         IN  /\ u \in Trackers
             /\ u.bolt = IF report.bolt # None THEN report.bolt ELSE t.bolt
             /\ u.door = IF report.door # None THEN report.door ELSE t.door
             /\ u.battery = IF report.battery # NoBattery
                            THEN report.battery ELSE t.battery
             /\ u.order = t.order /\ u.seen = t.seen
             /\ ~Reached(u)
<1> DEFINE told == [t EXCEPT
                 !.bolt = IF report.bolt # None THEN report.bolt ELSE @,
                 !.door = IF report.door # None THEN report.door ELSE @,
                 !.battery = IF report.battery # NoBattery THEN report.battery ELSE @,
                 !.online = report.online]
           settled == ClearIf(Reached(told), told)
           late == settled.pending # None /\ now - settled.since >= PendingTimeout
           u == ClearIf(late, settled)
<1>1. /\ told \in Trackers
      /\ told.bolt = IF report.bolt # None THEN report.bolt ELSE t.bolt
      /\ told.door = IF report.door # None THEN report.door ELSE t.door
      /\ told.battery = IF report.battery # NoBattery THEN report.battery ELSE t.battery
      /\ told.order = t.order /\ told.seen = t.seen
  BY DEF Trackers, PollReports
<1>2. /\ settled \in Trackers /\ SameButPending(told, settled)
      /\ settled.pending = IF Reached(told) THEN None ELSE told.pending
  <2>1. Reached(told) \in BOOLEAN
    BY DEF Reached
  <2> HIDE DEF told
  <2> QED BY <1>1, <2>1, ClearIfType
<1>3. /\ u \in Trackers /\ SameButPending(settled, u)
      /\ u.pending = IF late THEN None ELSE settled.pending
  <2>1. late \in BOOLEAN
    OBVIOUS
  <2> HIDE DEF settled, late
  <2> QED BY <1>2, <2>1, ClearIfType
<1>4. ApplyPoll(t, report, now) = u
  BY DEF ApplyPoll, ExpirePending
<1> HIDE DEF told, settled, late, u
<1>5. SameButPending(told, u)
  BY <1>2, <1>3, SameTransitive
<1>6. ~Reached(u)
  BY <1>2, <1>3 DEF Reached, SameButPending
<1> QED BY <1>1, <1>3, <1>4, <1>5, <1>6 DEF SameButPending
=============================================================================
