-------------------------- MODULE LockStreamProofs --------------------------
(***************************************************************************)
(* NewestWins for every reorder window, jitter, memory length and number   *)
(* of frames, power cycles and polls, under two conditions: no stamp of a  *)
(* power cycle runs back behind that of its first frame, if that frame's   *)
(* msgId is 0; and only what the tracker was given as one of its last      *)
(* SeenMax frames is re-delivered.                                         *)
(***************************************************************************)
EXTENDS LockStream, LockTrackerProofs, FiniteSetTheorems

\* The heart of the ordering rule: of two frames of one lock, the tracker takes
\* the one sent later after the earlier, and refuses the earlier after the later.
LEMMA AcceptFollowsSending ==
  ASSUME NEW a \in Frames, NEW b \in Frames, Before(a, b)
  PROVE  Accept(Key(a), Key(b)) /\ ~Accept(Key(b), Key(a))
<1>1. Key(a) # NoKey /\ Key(b) # NoKey
  BY DEF Frames, Key, NoKey
<1>2. /\ a.ts \in Nat /\ b.ts \in Nat /\ a.mid \in Nat /\ b.mid \in Nat
      /\ Key(a).ts = a.ts /\ Key(a).mid = a.mid
      /\ Key(b).ts = b.ts /\ Key(b).mid = b.mid
  BY DEF Frames, Key
<1>3. \/ a.mid < b.mid /\ b.ts >= a.ts - Jitter /\ (a.mid = 0 => b.ts >= a.ts)
      \/ b.ts > a.ts + ReorderWindow
  BY DEF Before
<1>4. Jitter \in Nat /\ ReorderWindow \in Nat /\ Jitter <= ReorderWindow
  BY StreamAssumption, TrackerAssumption
<1> QED BY <1>1, <1>2, <1>3, <1>4 DEF Accept, Close, Later

LEMMA FramesAreEvents ==
  ASSUME NEW fr \in Frames
  PROVE  /\ fr \in Events
         /\ \A m \in Nat : /\ [fr EXCEPT !.mid = m] \in Events
                           /\ Identity([fr EXCEPT !.mid = m]) = Identity(fr)
<1>1. fr \in Events
  BY DEF Frames, Events
<1>2. ASSUME NEW m \in Nat
      PROVE  /\ [fr EXCEPT !.mid = m] \in Events
             /\ Identity([fr EXCEPT !.mid = m]) = Identity(fr)
  BY <1>1 DEF Events, Identity
<1> QED BY <1>1, <1>2

LEMMA InitTypes == Init => TypeOK
<1> SUFFICES ASSUME Init PROVE TypeOK
  OBVIOUS
<1>1. /\ lock \in Reports /\ lock.door # None
      /\ lock.bolt \in BoltStates /\ lock.door \in {"open", "closed"}
      /\ lock.battery \in BatteryLevels /\ lock.online \in BOOLEAN
  BY StreamAssumption DEF Init, Reports, None
<1>2. tr \in Trackers
  <2>1. [f \in Facets |-> NoKey] \in [Facets -> Keys]
    BY DEF Keys
  <2>2. << >> \in Seq(Identities)
    OBVIOUS
  <2> QED BY <1>1, <2>1, <2>2 DEF Init, NewTracker, Trackers, Levels, None
<1>3. Cardinality({}) = 0 /\ IsFiniteSet({})
  BY FS_EmptySet
<1>4. polled \in Faces
  BY <1>2 DEF Init, Face, Faces, Trackers
<1> QED BY <1>1, <1>2, <1>3, <1>4, StreamAssumption DEF Init, TypeOK

\* A frame sent is of the right type, whatever its kind.
LEMMA SendTypes ==
  ASSUME TypeOK,
         NEW kind \in Kinds, NEW state \in States, NEW battery \in Levels,
         NEW ts \in Nat, NEW mid \in Nat,
         Send(kind, state, battery, ts, mid),
         lock' \in Reports, lock'.door # None,
         nextMid' = nextMid + 1 \/ nextMid' = nextMid
  PROVE  TypeOK'
<1> DEFINE fr == [kind |-> kind, state |-> state, battery |-> battery, ts |-> ts,
                  mid |-> mid, boot |-> boot, seq |-> LastSeq + 1]
<1>1. /\ sent' = sent \cup {fr}
      /\ UNCHANGED <<clock, boot, heard, recent, tr, report, newest, source, polled>>
  BY DEF Send, ghostVars
<1>2. IsFiniteSet(sent) /\ LastSeq \in Nat
  BY FS_CardinalityType DEF TypeOK, LastSeq
<1>3. fr \in Frames
  BY <1>2 DEF Frames, TypeOK
<1>4. IsFiniteSet(sent')
  BY <1>1, <1>2, FS_AddElement
<1>5. nextMid' \in Nat /\ nextMid' >= FirstMid
  BY StreamAssumption DEF TypeOK
<1> QED BY <1>1, <1>3, <1>4, <1>5 DEF TypeOK

\* The lock's and the cloud's steps say which frame they send.  late is how old
\* the stamp of one of the lock's own frames is.
LEMMA OwnFrame ==
  ASSUME TypeOK, MoveBolt \/ Snapshot \/ MoveDoor
  PROVE  /\ \E kind \in {"lock", "action", "door"}, state \in States, battery \in Levels,
               late \in 0..Jitter :
               /\ Send(kind, state, battery, clock - late, nextMid)
               /\ SteadyStart => Steady(clock - late)
         /\ nextMid' = nextMid + 1 /\ lock' \in Reports /\ lock'.door # None
<1>1. lock \in Reports /\ lock.door # None /\ lock.bolt \in BoltStates
  BY DEF TypeOK, Reports
<1>2. NoBattery \in Levels /\ BatteryLevels \subseteq Levels
  BY DEF Levels
<1>3. CASE MoveBolt
  <2> DEFINE now == IF lock.bolt = "locked" THEN "unlocked" ELSE "locked"
  <2>1. PICK late \in 0..Jitter :
          /\ SteadyStart => Steady(clock - late)
          /\ Send("lock", now, NoBattery, clock - late, nextMid)
          /\ nextMid' = nextMid + 1 /\ lock' = [lock EXCEPT !.bolt = now]
    BY <1>3 DEF MoveBolt, Emit
  <2>2. lock' \in Reports /\ lock'.door # None /\ now \in States
    BY <2>1, <1>1 DEF Reports, BoltStates, States
  <2> HIDE DEF now
  <2> QED BY <2>1, <2>2, <1>2
<1>4. CASE Snapshot
  <2>1. PICK level \in BatteryLevels, late \in 0..Jitter :
          /\ SteadyStart => Steady(clock - late)
          /\ Send("action", lock.bolt, level, clock - late, nextMid)
          /\ nextMid' = nextMid + 1 /\ lock' = [lock EXCEPT !.battery = level]
    BY <1>4 DEF Snapshot, Emit
  <2>2. lock' \in Reports /\ lock'.door # None /\ lock.bolt \in States
    BY <2>1, <1>1 DEF Reports, States
  <2> QED BY <2>1, <2>2, <1>2
<1>5. CASE MoveDoor
  <2> DEFINE state == IF lock.door = "closed" THEN "opened" ELSE "closed"
  <2>1. PICK late \in 0..Jitter :
          /\ SteadyStart => Steady(clock - late)
          /\ Send("door", state, NoBattery, clock - late, nextMid)
          /\ nextMid' = nextMid + 1
          /\ lock' = [lock EXCEPT !.door = IF lock.door = "closed" THEN "open" ELSE "closed"]
    BY <1>5 DEF MoveDoor, Emit
  <2>2. lock' \in Reports /\ lock'.door # None /\ state \in States
    BY <2>1, <1>1 DEF Reports, States, DoorRecords, None
  <2> HIDE DEF state
  <2> QED BY <2>1, <2>2, <1>2
<1> QED BY <1>3, <1>4, <1>5

LEMMA CloudFrame ==
  ASSUME TypeOK, CommandSeen \/ LinkFlips
  PROVE  /\ \E kind \in {"setLock", "wifiState"}, state \in States :
               Send(kind, state, NoBattery, clock, 0)
         /\ nextMid' = nextMid /\ lock' \in Reports /\ lock'.door # None
<1>1. lock \in Reports /\ lock.door # None
  BY DEF TypeOK
<1>2. CASE CommandSeen
  <2>1. PICK state \in BoltStates : Send("setLock", state, NoBattery, clock, 0)
        /\ UNCHANGED <<lock, nextMid>>
    BY <1>2 DEF CommandSeen
  <2> QED BY <2>1, <1>1 DEF States
<1>3. CASE LinkFlips
  <2> DEFINE state == IF lock.online THEN "0" ELSE "1"
  <2>1. Send("wifiState", state, NoBattery, clock, 0)
        /\ lock' = [lock EXCEPT !.online = ~@] /\ UNCHANGED nextMid
    BY <1>3 DEF LinkFlips
  <2>2. lock' \in Reports /\ lock'.door # None /\ state \in States
    BY <2>1, <1>1 DEF Reports, States
  <2> HIDE DEF state
  <2> QED BY <2>1, <2>2
<1> QED BY <1>2, <1>3

\* A poll's answer overwrites what it can tell, within the types.
LEMMA PollReplyTypes ==
  ASSUME TypeOK, PollReply
  PROVE  /\ TypeOK'
         /\ report \in PollReports /\ tr' = ApplyPoll(tr, report, clock)
         /\ polled'.bolt = tr'.bolt /\ polled'.battery = tr'.battery
         /\ polled'.door = IF report.door # None THEN tr'.door ELSE polled.door
<1>1. /\ report # NoReport /\ report' = NoReport
      /\ tr' = ApplyPoll(tr, report, clock)
      /\ source' \in [Facets -> {"event", "poll"}]
      /\ polled' = [Face(tr') EXCEPT !.door =
                       IF "door" # "door" \/ report.door # None THEN @ ELSE polled.door]
      /\ UNCHANGED <<lock, clock, boot, nextMid, sent, heard, recent, newest>>
  BY DEF PollReply, worldVars, TypeOK
<1>2. report \in Reports /\ report \in PollReports /\ tr \in Trackers /\ clock \in Nat
      /\ polled \in Faces
  BY <1>1 DEF TypeOK, Reports, PollReports, Levels
<1>3. tr' \in Trackers
  BY <1>1, <1>2, ApplyPollType
<1>4. /\ polled'.bolt = tr'.bolt /\ polled'.battery = tr'.battery
      /\ polled'.door = IF report.door # None THEN tr'.door ELSE polled.door
      /\ polled' \in Faces
  BY <1>1, <1>2, <1>3 DEF Face, Faces, Trackers
<1> QED BY <1>1, <1>2, <1>3, <1>4 DEF TypeOK

\* Every step keeps the types, whatever the lock numbers and the cloud re-delivers.
LEMMA NextTypes ==
  ASSUME TypeOK, [Next]_vars
  PROVE  TypeOK'
<1>1. clock \in Nat /\ clock >= Jitter /\ Jitter \in Nat /\ nextMid \in Nat /\ tr \in Trackers
  BY StreamAssumption DEF TypeOK
<1>2. CASE MoveBolt \/ Snapshot \/ MoveDoor
  <2>1. PICK kind \in {"lock", "action", "door"}, state \in States, battery \in Levels,
             late \in 0..Jitter : Send(kind, state, battery, clock - late, nextMid)
    BY <1>2, OwnFrame
  <2>2. clock - late \in Nat /\ kind \in Kinds
    BY <1>1 DEF Kinds
  <2> QED BY <2>1, <2>2, <1>1, <1>2, OwnFrame, SendTypes
<1>3. CASE CommandSeen \/ LinkFlips
  <2>1. PICK kind \in {"setLock", "wifiState"}, state \in States :
             Send(kind, state, NoBattery, clock, 0)
    BY <1>3, CloudFrame
  <2>2. kind \in Kinds /\ NoBattery \in Levels
    BY DEF Kinds, Levels
  <2> QED BY <2>1, <2>2, <1>1, <1>3, CloudFrame, SendTypes
<1>4. CASE PowerCycle \/ Tick
  BY <1>4, StreamAssumption DEF PowerCycle, Tick, TypeOK, ghostVars
<1>5. CASE Deliver
  <2>1. PICK fr \in sent \ heard :
          /\ tr' = Apply(tr, fr, clock)
          /\ heard' = heard \cup {fr} /\ recent' = Latest(Append(recent, fr))
          /\ newest' = [f \in Facets |-> IF Offers(fr, f) /\ fr.seq > newest[f].seq
                                         THEN fr ELSE newest[f]]
          /\ source' = [f \in Facets |-> IF Offers(fr, f) /\ fr.seq > newest[f].seq
                                         THEN "event" ELSE source[f]]
          /\ UNCHANGED <<lock, clock, boot, nextMid, sent, report, polled>>
    BY Zenon, <1>5 DEF Deliver, worldVars
  <2>2. fr \in Frames /\ fr \in Events /\ heard' \subseteq sent
    BY <2>1, FramesAreEvents DEF TypeOK
  <2>3. tr' \in Trackers
    BY <2>1, <2>2, <1>1, ApplyType
  <2>4. newest' \in [Facets -> Frames \cup {NoFrame}] /\ source' \in [Facets -> {"event", "poll"}]
    BY <2>1, <2>2 DEF TypeOK
  <2>5. recent' \in Seq(heard')
    <3>1. Append(recent, fr) \in Seq(heard') /\ Append(recent, fr) # << >>
      BY <2>1 DEF TypeOK
    <3> QED BY <3>1, <2>1 DEF Latest
  <2> QED BY <2>1, <2>2, <2>3, <2>4, <2>5 DEF TypeOK
<1>6. CASE Redeliver
  <2>1. PICK fr \in sent \cup {recent[i] : i \in 1..Len(recent)} :
          tr' = Apply(tr, [fr EXCEPT !.mid = nextMid], clock)
    BY Zenon, <1>6 DEF Redeliver
  <2>2. fr \in Frames
    BY <2>1 DEF TypeOK
  <2>3. tr' \in Trackers
    BY <2>1, <2>2, <1>1, FramesAreEvents, ApplyType
  <2>4. /\ nextMid' = nextMid + 1
        /\ UNCHANGED <<lock, clock, boot, sent, heard, recent, report, newest, source, polled>>
    BY Zenon, <1>6 DEF Redeliver, ghostVars
  <2> QED BY <2>3, <2>4, StreamAssumption DEF TypeOK
<1>7. CASE PollAnswered
  <2>1. PICK door \in {lock.door, None} : report' = [lock EXCEPT !.door = door]
    BY <1>7 DEF PollAnswered
  <2>2. report' \in Reports
    BY <2>1 DEF TypeOK, Reports
  <2> QED BY <2>2, <1>7 DEF PollAnswered, TypeOK, worldVars, ghostVars
<1>8. CASE PollReply
  BY <1>8, PollReplyTypes
<1>9. CASE PollFails
  BY <1>9 DEF PollFails, TypeOK, worldVars, ghostVars
<1>10. CASE UNCHANGED vars
  BY <1>10 DEF vars, TypeOK
<1> QED BY <1>2, <1>3, <1>4, <1>5, <1>6, <1>7, <1>8, <1>9, <1>10 DEF Next

\* What the types leave to say of the inductive invariant.
Ordered == SentOrdered /\ MemoryMatches /\ NewestWins

LEMMA InitInvariant == Init => IInv
<1> SUFFICES ASSUME Init PROVE IInv
  OBVIOUS
<1>1. TypeOK
  BY InitTypes
<1>2. SentOrdered
  BY DEF Init, SentOrdered
<1>3. MemoryMatches
  <2>1. tr.order = [f \in Facets |-> NoKey] /\ tr.seen = << >> /\ recent = << >>
        /\ heard = {} /\ newest = [f \in Facets |-> NoFrame]
    BY DEF Init, NewTracker
  <2>2. SeenMax \in Nat /\ Len(recent) = 0
    BY <2>1, TrackerAssumption
  <2> QED BY <2>1, <2>2 DEF MemoryMatches
<1>4. NewestWins
  BY DEF Init, NewestWins
<1> QED BY <1>1, <1>2, <1>3, <1>4 DEF IInv

\* Sending a frame keeps the sent frames ordered, whatever its kind.
LEMMA SendStep ==
  ASSUME IInv, FirstMid >= 1 \/ SteadyStart,
         NEW kind \in Kinds, NEW state \in States, NEW battery \in Levels,
         NEW ts \in Nat, NEW mid \in Nat,
         Send(kind, state, battery, ts, mid),
         ts <= clock, ts >= clock - Jitter,
         \/ /\ kind \in {"lock", "action", "door"} /\ mid = nextMid /\ nextMid' = nextMid + 1
            /\ SteadyStart => Steady(ts)
         \/ kind \in {"setLock", "wifiState"} /\ battery = NoBattery /\ nextMid' = nextMid
  PROVE  Ordered'
<1> DEFINE fr == [kind |-> kind, state |-> state, battery |-> battery, ts |-> ts,
                  mid |-> mid, boot |-> boot, seq |-> LastSeq + 1]
<1>1. /\ kind \in Emits /\ LastSeq < MaxSeq /\ Fresh(fr) /\ sent' = sent \cup {fr}
      /\ UNCHANGED <<clock, boot, heard, recent, tr, report, newest, source, polled>>
  BY DEF Send, ghostVars
<1>2. /\ TypeOK /\ SentOrdered /\ MemoryMatches /\ NewestWins
      /\ IsFiniteSet(sent) /\ Cardinality(sent) \in Nat /\ LastSeq = Cardinality(sent)
      /\ sent \subseteq Frames
  BY FS_CardinalityType DEF IInv, TypeOK, LastSeq
<1>3. fr \in Frames
  BY <1>2 DEF Frames, TypeOK
<1>4. fr \notin sent
  BY <1>1 DEF Fresh
<1>5. IsFiniteSet(sent') /\ Cardinality(sent') = Cardinality(sent) + 1
  BY <1>1, <1>2, <1>4, FS_AddElement
<1>7. /\ fr.seq = Cardinality(sent) + 1 /\ fr.ts = ts /\ fr.boot = boot /\ fr.mid = mid
      /\ fr.kind = kind /\ fr.battery = battery
  BY <1>2
<1>8. /\ clock \in Nat /\ boot \in Nat /\ nextMid \in Nat /\ nextMid >= FirstMid
      /\ FirstMid \in Nat /\ Jitter \in Nat /\ ReorderWindow \in Nat /\ BootTime \in Nat
      /\ BootTime > ReorderWindow + Jitter
  BY <1>2, StreamAssumption, TrackerAssumption DEF TypeOK
<1> HIDE DEF fr
<1>9. SentOrdered'
  <2>1. ASSUME NEW g \in sent'
        PROVE  /\ g.seq > 0 /\ g.seq <= Cardinality(sent')
               /\ g.ts <= clock' /\ g.boot <= boot'
               /\ g.boot < boot' => g.ts + BootTime <= clock'
               /\ Ranked(g) => g.mid >= FirstMid /\ (g.boot = boot' => g.mid < nextMid')
               /\ ~Ranked(g) => g.battery = NoBattery
    <3>1. CASE g = fr
      BY <3>1, <1>1, <1>2, <1>5, <1>7, <1>8 DEF Ranked
    <3>2. CASE g \in sent
      <4>1. g \in Frames /\ g.mid \in Nat /\ g.seq \in Nat
        BY <3>2, <1>2 DEF Frames
      <4> QED BY <3>2, <4>1, <1>1, <1>2, <1>5, <1>8 DEF SentOrdered
    <3> QED BY <3>1, <3>2, <1>1
  <2>2. ASSUME NEW a \in sent', NEW b \in sent'
        PROVE  /\ a.seq = b.seq \/ Identity(a) = Identity(b) => a = b
               /\ a.seq < b.seq /\ Ranked(a) /\ Ranked(b) => Before(a, b)
    <3>1. CASE a \in sent /\ b \in sent
      BY <3>1, <1>2 DEF SentOrdered
    <3>2. CASE a = fr /\ b = fr
      BY <3>2, <1>7, <1>2
    <3>3. CASE a \in sent /\ b = fr
      <4>1. /\ a.seq <= Cardinality(sent) /\ a.ts <= clock /\ a.boot <= boot
            /\ a.boot < boot => a.ts + BootTime <= clock
            /\ Ranked(a) => (a.boot = boot => a.mid < nextMid)
        BY <3>3, <1>2 DEF SentOrdered
      <4>2. a.seq \in Nat /\ a.ts \in Nat /\ a.boot \in Nat /\ a.mid \in Nat
        BY <3>3, <1>2 DEF Frames
      <4>3. a.seq < b.seq /\ Identity(a) # Identity(b)
        BY <3>3, <4>1, <4>2, <1>1, <1>2, <1>7 DEF Fresh
      <4>4. ASSUME Ranked(a), Ranked(b) PROVE Before(a, b)
        <5>1. /\ a.boot = boot => a.mid < nextMid
              /\ b.ts = ts /\ b.boot = boot /\ b.mid = nextMid
          BY <3>3, <4>1, <4>4, <1>7 DEF Ranked
        <5>2. a.boot = boot /\ a.mid = 0 => a.ts <= ts
          BY <3>3, <4>1, <4>2, <4>4, <1>2, <1>7, <1>8 DEF SentOrdered, Steady, Ranked
        <5> QED BY <4>1, <4>2, <5>1, <5>2, <1>8 DEF Before
      <4> QED BY <4>2, <4>3, <4>4
    <3>4. CASE a = fr /\ b \in sent
      <4>1. b.seq <= Cardinality(sent) /\ b.seq \in Nat
        BY <3>4, <1>2 DEF SentOrdered, Frames
      <4> QED BY <3>4, <4>1, <1>1, <1>2, <1>7 DEF Fresh
    <3> QED BY <3>1, <3>2, <3>3, <3>4, <1>1
  <2> QED BY <2>1, <2>2 DEF SentOrdered
<1>10. MemoryMatches'
  BY <1>1, <1>2 DEF MemoryMatches
<1>11. NewestWins'
  BY <1>1, <1>2 DEF NewestWins
<1> QED BY <1>9, <1>10, <1>11 DEF Ordered

\* Time passes, with or without a power cycle.
LEMMA ClockStep ==
  ASSUME IInv, Tick \/ PowerCycle
  PROVE  Ordered'
<1>1. /\ UNCHANGED <<lock, sent, heard, recent, tr, report, newest, source, polled>>
      /\ \/ clock' = clock + 1 /\ boot' = boot /\ nextMid' = nextMid
         \/ clock' = clock + BootTime /\ boot' = boot + 1 /\ nextMid' = FirstMid
  BY DEF Tick, PowerCycle, ghostVars
<1>2. /\ clock \in Nat /\ boot \in Nat /\ Jitter \in Nat /\ BootTime \in Nat /\ FirstMid \in Nat
  BY StreamAssumption DEF IInv, TypeOK
<1>4. SentOrdered'
  <2>1. ASSUME NEW g \in sent'
        PROVE  /\ g.seq > 0 /\ g.seq <= Cardinality(sent')
               /\ g.ts <= clock' /\ g.boot <= boot'
               /\ g.boot < boot' => g.ts + BootTime <= clock'
               /\ Ranked(g) => g.mid >= FirstMid /\ (g.boot = boot' => g.mid < nextMid')
               /\ ~Ranked(g) => g.battery = NoBattery
    <3>1. g \in sent /\ g.ts \in Nat /\ g.boot \in Nat
      BY <1>1 DEF IInv, TypeOK, Frames
    <3> QED BY <1>1, <1>2, <3>1 DEF IInv, SentOrdered
  <2> QED BY <2>1, <1>1 DEF IInv, SentOrdered
<1>5. MemoryMatches' /\ NewestWins'
  BY <1>1 DEF IInv, MemoryMatches, NewestWins
<1> QED BY <1>4, <1>5 DEF Ordered

\* The tracker takes a frame it has not heard, facet by facet, exactly when no
\* newer one has been heard.
LEMMA TakesNews ==
  ASSUME IInv, NEW fr \in sent \ heard, NEW f \in Facets
  PROVE  Takes(tr, fr, f) <=> Offers(fr, f) /\ fr.seq > newest[f].seq
<1>0. fr \in sent /\ fr \notin heard
  OBVIOUS
<1>a. /\ SentOrdered /\ MemoryMatches
      /\ fr \in Frames /\ fr.seq \in Nat /\ fr.seq > 0
      /\ heard \subseteq sent /\ sent \subseteq Frames
      /\ newest \in [Facets -> Frames \cup {NoFrame}]
  BY DEF IInv, TypeOK, SentOrdered, Frames
<1>1. CASE ~Offers(fr, f)
  BY <1>1 DEF Takes
<1>2. CASE Offers(fr, f) /\ newest[f] = NoFrame
  <2>1. tr.order[f] = NoKey
    <3>1. newest[f] \notin heard
      BY <1>2, <1>a DEF SentOrdered, NoFrame, Frames
    <3> QED BY <3>1, <1>a DEF MemoryMatches
  <2> QED BY <1>2, <2>1, <1>a DEF Takes, Accept, NoFrame
<1>3. CASE Offers(fr, f) /\ newest[f] # NoFrame
  <2> DEFINE g == newest[f]
  <2>1. g \in heard /\ g \in sent /\ g # fr /\ Offers(g, f) /\ tr.order[f] = Key(g)
    BY <1>3, <1>0, <1>a DEF MemoryMatches
  <2>2. g \in Frames /\ g.seq \in Nat
    BY <2>1, <1>a DEF Frames
  <2>3. Ranked(g) /\ Ranked(fr)
    BY <1>3, <2>1, <1>0, <1>a DEF SentOrdered, Offers, Ranked
  <2>5. g.seq # fr.seq
    BY <2>1, <1>0, <1>a DEF SentOrdered
  <2>6. g.seq < fr.seq => Accept(Key(g), Key(fr))
    BY <2>1, <2>2, <2>3, <1>0, <1>a, AcceptFollowsSending DEF SentOrdered
  <2>7. fr.seq < g.seq => ~Accept(Key(g), Key(fr))
    BY <2>1, <2>2, <2>3, <1>0, <1>a, AcceptFollowsSending DEF SentOrdered
  <2> HIDE DEF g
  <2>8. Takes(tr, fr, f) <=> Accept(Key(g), Key(fr))
    BY <1>3, <2>1 DEF Takes
  <2>9. Takes(tr, fr, f) <=> fr.seq > g.seq
    BY <2>2, <2>5, <2>6, <2>7, <2>8, <1>a
  <2> QED BY <1>3, <2>9 DEF g
<1> QED BY <1>1, <1>2, <1>3

\* What a tracker shows after an event it has not seen: a facet it takes is as the
\* event says, every other one as it was.
LEMMA AppliedFacets ==
  ASSUME NEW tk \in Trackers, NEW ev \in Events, NEW now \in Nat, ~IsRedelivery(tk, ev),
         NEW after, after = Apply(tk, ev, now)
  PROVE  /\ after.order = [f \in Facets |-> IF Takes(tk, ev, f) THEN Key(ev) ELSE tk.order[f]]
         /\ after.bolt = IF Takes(tk, ev, "bolt") THEN ev.state ELSE tk.bolt
         /\ after.door = IF Takes(tk, ev, "door") THEN DoorShown(ev.state) ELSE tk.door
         /\ after.battery = IF Takes(tk, ev, "battery") THEN ev.battery ELSE tk.battery
<1>0. SameButPending(TakeFacets(tk, ev), after)
  BY ApplyType
<1> DEFINE u == TakeFacets(tk, ev)
<1>1. u.order = [f \in Facets |-> IF Takes(tk, ev, f) THEN Key(ev) ELSE tk.order[f]]
  BY DEF TakeFacets, Trackers
<1>2. u.bolt = IF Takes(tk, ev, "bolt") THEN ev.state ELSE tk.bolt
  BY DEF TakeFacets, Trackers
<1>3. u.door = IF Takes(tk, ev, "door") THEN DoorShown(ev.state) ELSE tk.door
  BY DEF TakeFacets, Trackers
<1>4. u.battery = IF Takes(tk, ev, "battery") THEN ev.battery ELSE tk.battery
  BY DEF TakeFacets, Trackers
<1>5. SameButPending(u, after)
  BY <1>0
<1> HIDE DEF u
<1> QED BY <1>1, <1>2, <1>3, <1>4, <1>5 DEF SameButPending

\* The bodies remembered stay those of the last frames heard: the memory forgets a
\* body as the frames move past SeenMax, not before.
LEMMA FramesRemembered ==
  ASSUME NEW H, NEW frames \in Seq(H), NEW fr \in H,
         NEW seen \in Seq(Identities), Identity(fr) \in Identities,
         Len(seen) = Len(frames), Len(frames) <= SeenMax,
         \A i \in 1..Len(frames) : seen[i] = Identity(frames[i])
  PROVE  LET after == Latest(Append(frames, fr))
             memory == Remember(seen, Identity(fr))
         IN  /\ after \in Seq(H)
             /\ Len(memory) = Len(after) /\ Len(after) <= SeenMax
             /\ \A i \in 1..Len(after) : memory[i] = Identity(after[i])
<1>1. SeenMax \in Nat /\ SeenMax > 0
  BY TrackerAssumption
<1> DEFINE longer == Append(frames, fr)
<1>2. longer \in Seq(H) /\ Len(longer) = Len(frames) + 1 /\ Len(frames) \in Nat
      /\ longer[Len(frames) + 1] = fr
      /\ \A i \in 1..Len(frames) : longer[i] = frames[i]
  OBVIOUS
<1>3. CASE Len(frames) < SeenMax
  <2>1. Latest(longer) = longer /\ Remember(seen, Identity(fr)) = Append(seen, Identity(fr))
    BY <1>1, <1>2, <1>3 DEF Latest, Remember
  <2>2. /\ Len(Append(seen, Identity(fr))) = Len(frames) + 1
        /\ Append(seen, Identity(fr))[Len(frames) + 1] = Identity(fr)
        /\ \A i \in 1..Len(frames) : Append(seen, Identity(fr))[i] = seen[i]
    OBVIOUS
  <2> HIDE DEF longer
  <2>3. ASSUME NEW i \in 1..Len(longer)
        PROVE  Append(seen, Identity(fr))[i] = Identity(longer[i])
    <3>1. i \in 1..Len(frames) \/ i = Len(frames) + 1
      BY <1>2
    <3> QED BY <3>1, <2>2, <1>2
  <2> QED BY <2>1, <2>2, <2>3, <1>1, <1>2, <1>3 DEF longer
<1>4. CASE Len(frames) = SeenMax
  <2> DEFINE rest == Tail(seen)
  <2>1. Latest(longer) = Tail(longer) /\ Remember(seen, Identity(fr)) = Append(rest, Identity(fr))
    BY <1>1, <1>2, <1>4 DEF Latest, Remember
  <2>2. /\ Tail(longer) \in Seq(H) /\ Len(Tail(longer)) = SeenMax
        /\ \A i \in 1..SeenMax : Tail(longer)[i] = longer[i + 1]
    BY <1>1, <1>2, <1>4
  <2>3. /\ rest \in Seq(Identities) /\ Len(rest) = SeenMax - 1
        /\ \A i \in 1..(SeenMax - 1) : rest[i] = seen[i + 1]
    BY <1>1, <1>4
  <2> HIDE DEF rest
  <2>4. /\ Len(Append(rest, Identity(fr))) = SeenMax
        /\ Append(rest, Identity(fr))[SeenMax] = Identity(fr)
        /\ \A i \in 1..(SeenMax - 1) : Append(rest, Identity(fr))[i] = rest[i]
    BY <1>1, <2>3
  <2> HIDE DEF longer
  <2>5. ASSUME NEW i \in 1..SeenMax
        PROVE  Append(rest, Identity(fr))[i] = Identity(Tail(longer)[i])
    <3>1. CASE i = SeenMax
      BY <3>1, <1>1, <1>2, <1>4, <2>2, <2>4
    <3>2. CASE i # SeenMax
      <4>1. i \in 1..(SeenMax - 1) /\ i + 1 \in 1..Len(frames)
        BY <3>2, <1>1, <1>4
      <4> QED BY <4>1, <1>2, <2>2, <2>3, <2>4
    <3> QED BY <3>1, <3>2
  <2> QED BY <2>1, <2>2, <2>4, <2>5, <1>1 DEF longer
<1> QED BY <1>1, <1>3, <1>4

\* A frame not heard yet is never taken for one the tracker remembers.
LEMMA NewIsNew ==
  ASSUME IInv, NEW fr \in sent \ heard
  PROVE  ~IsRedelivery(tr, fr)
<1>1. /\ recent \in Seq(heard) /\ heard \subseteq sent /\ MemoryMatches /\ SentOrdered
  BY DEF IInv, TypeOK
<1>2. ASSUME NEW i \in 1..Len(tr.seen), tr.seen[i] = Identity(fr) PROVE FALSE
  <2>1. i \in 1..Len(recent) /\ Identity(recent[i]) = Identity(fr)
    BY <1>1, <1>2 DEF MemoryMatches
  <2>2. recent[i] \in heard
    BY <1>1, <2>1
  <2>3. recent[i] = fr
    BY <1>1, <2>1, <2>2 DEF SentOrdered
  <2> QED BY <2>2, <2>3
<1> QED BY <1>2 DEF IsRedelivery

\* A first delivery: the frame is new to the tracker, and each facet it claims is
\* taken exactly when no newer frame has been heard.
LEMMA DeliverStep ==
  ASSUME IInv, Deliver
  PROVE  Ordered'
<1>1. PICK fr \in sent \ heard :
        /\ tr' = Apply(tr, fr, clock)
        /\ heard' = heard \cup {fr} /\ recent' = Latest(Append(recent, fr))
        /\ newest' = [f \in Facets |-> IF Offers(fr, f) /\ fr.seq > newest[f].seq
                                       THEN fr ELSE newest[f]]
        /\ source' = [f \in Facets |-> IF Offers(fr, f) /\ fr.seq > newest[f].seq
                                       THEN "event" ELSE source[f]]
        /\ UNCHANGED <<lock, clock, boot, nextMid, sent, report, polled>>
  BY Zenon DEF Deliver, worldVars
<1>2. /\ TypeOK /\ SentOrdered /\ MemoryMatches /\ NewestWins
      /\ fr \in Frames /\ fr \in Events /\ fr.seq \in Nat /\ fr.seq > 0
      /\ tr \in Trackers /\ clock \in Nat /\ heard \subseteq sent /\ sent \subseteq Frames
      /\ newest \in [Facets -> Frames \cup {NoFrame}]
  BY <1>1, FramesAreEvents DEF IInv, TypeOK, SentOrdered, Frames
<1>3. /\ recent \in Seq(heard) /\ Len(recent) \in Nat
      /\ \A i \in 1..Len(recent) : recent[i] \in heard /\ recent[i] \in sent
  BY <1>2 DEF TypeOK
<1>4. ~IsRedelivery(tr, fr)
  BY <1>1, NewIsNew
<1>5. tr' \in Trackers /\ SameButPending(TakeFacets(tr, fr), tr') /\ TakeFacets(tr, fr) \in Trackers
  BY <1>1, <1>2, <1>4, ApplyType, TakeFacetsType
<1>6. /\ recent' \in Seq(heard')
      /\ Len(tr'.seen) = Len(recent') /\ Len(recent') <= SeenMax
      /\ \A i \in 1..Len(recent') : tr'.seen[i] = Identity(recent'[i])
  <2>1. tr'.seen = Remember(tr.seen, Identity(fr))
    BY <1>2, <1>5 DEF SameButPending, TakeFacets, Trackers
  <2>2. tr.seen \in Seq(Identities)
    BY <1>2 DEF Trackers
  <2>3. recent \in Seq(heard') /\ fr \in heard'
    BY <1>1, <1>3
  <2>4. Identity(fr) \in Identities
    BY <1>2 DEF Identity, Identities, Events
  <2> QED BY <1>1, <1>2, <2>1, <2>2, <2>3, <2>4, FramesRemembered DEF MemoryMatches
<1>7. ASSUME NEW f \in Facets
      PROVE  Takes(tr, fr, f) <=> Offers(fr, f) /\ fr.seq > newest[f].seq
  BY <1>1, TakesNews
<1>8. /\ tr'.order = [f \in Facets |-> IF Takes(tr, fr, f) THEN Key(fr) ELSE tr.order[f]]
      /\ tr'.bolt = IF Takes(tr, fr, "bolt") THEN fr.state ELSE tr.bolt
      /\ tr'.door = IF Takes(tr, fr, "door") THEN DoorShown(fr.state) ELSE tr.door
      /\ tr'.battery = IF Takes(tr, fr, "battery") THEN fr.battery ELSE tr.battery
  BY <1>1, <1>2, <1>4, AppliedFacets
<1>10. SentOrdered'
  BY <1>1, <1>2 DEF SentOrdered
<1>11. MemoryMatches'
  <2>1. ASSUME NEW f \in Facets
        PROVE  \/ newest'[f] = NoFrame /\ tr'.order[f] = NoKey
               \/ newest'[f] \in heard' /\ Offers(newest'[f], f) /\ tr'.order[f] = Key(newest'[f])
    BY <1>1, <1>2, <1>7, <1>8 DEF MemoryMatches
  <2>2. ASSUME NEW f \in Facets, NEW g \in heard', Offers(g, f)
        PROVE  g.seq <= newest'[f].seq
    <3>1. newest[f].seq \in Nat /\ g.seq \in Nat
      BY <1>1, <1>2 DEF Frames, NoFrame
    <3>2. CASE g \in heard
      BY <3>1, <3>2, <2>2, <1>1, <1>2 DEF MemoryMatches
    <3>3. CASE g = fr
      BY <3>1, <3>3, <2>2, <1>1, <1>2
    <3> QED BY <3>2, <3>3, <1>1
  <2> QED BY <2>1, <2>2, <1>6 DEF MemoryMatches
<1>12. NewestWins'
  <2>1. ASSUME NEW f \in Facets
        PROVE  Face(tr')[f] = IF source'[f] = "event" THEN Claim(newest'[f], f) ELSE polled[f]
    <3>1. CASE ~Takes(tr, fr, f)
      <4>1. newest'[f] = newest[f] /\ source'[f] = source[f]
        BY <3>1, <1>1, <1>7
      <4>2. Face(tr')[f] = Face(tr)[f]
        BY <3>1, <1>8 DEF Face, Facets
      <4> QED BY <4>1, <4>2, <1>2 DEF NewestWins
    <3>2. CASE Takes(tr, fr, f)
      <4>1. newest'[f] = fr /\ source'[f] = "event"
        BY <3>2, <1>1, <1>7
      <4>2. Face(tr')[f] = Claim(fr, f)
        BY <3>2, <1>8 DEF Face, Facets, Claim
      <4> QED BY <4>1, <4>2
    <3> QED BY <3>1, <3>2
  <2> QED BY <2>1, <1>1 DEF NewestWins
<1> QED BY <1>10, <1>11, <1>12 DEF Ordered

\* A re-delivery of a frame that was heard changes nothing.
LEMMA RedeliverStep ==
  ASSUME IInv, ~BlindRedelivery, Redeliver
  PROVE  Ordered' /\ tr' = tr
<1>1. PICK fr \in {recent[i] : i \in 1..Len(recent)} :
        /\ tr' = Apply(tr, [fr EXCEPT !.mid = nextMid], clock)
        /\ nextMid' = nextMid + 1
        /\ UNCHANGED <<lock, clock, boot, sent, heard, recent, report, newest, source, polled>>
  BY Zenon DEF Redeliver, ghostVars
<1>2. /\ TypeOK /\ SentOrdered /\ MemoryMatches /\ NewestWins
      /\ fr \in Frames /\ nextMid \in Nat /\ tr \in Trackers /\ clock \in Nat
  <2>1. TypeOK /\ \A i \in 1..Len(recent) : recent[i] \in heard
    BY DEF IInv, TypeOK
  <2> QED BY <2>1, <1>1 DEF IInv, TypeOK
<1>3. tr' = tr
  <2>1. [fr EXCEPT !.mid = nextMid] \in Events
        /\ Identity([fr EXCEPT !.mid = nextMid]) = Identity(fr)
    BY <1>2, FramesAreEvents
  <2>2. IsRedelivery(tr, [fr EXCEPT !.mid = nextMid])
    BY <2>1, <1>1, <1>2 DEF IsRedelivery, MemoryMatches
  <2> QED BY <2>1, <2>2, <1>1, <1>2, ApplyType
<1>5. SentOrdered'
  <2>1. ASSUME NEW g \in sent, Ranked(g), g.boot = boot
        PROVE  g.mid < nextMid'
    BY <2>1, <1>1, <1>2 DEF SentOrdered, TypeOK, Frames
  <2> QED BY <2>1, <1>1, <1>2 DEF SentOrdered
<1>6. MemoryMatches' /\ NewestWins'
  BY <1>1, <1>2, <1>3 DEF MemoryMatches, NewestWins
<1> QED BY <1>3, <1>5, <1>6 DEF Ordered

\* A poll is applied: what it tells is what is shown, and the event stream's
\* memory is left alone.
LEMMA PollReplyStep ==
  ASSUME IInv, PollReply
  PROVE  Ordered'
<1>1. /\ report # NoReport /\ report' = NoReport
      /\ tr' = ApplyPoll(tr, report, clock)
      /\ source' = [f \in Facets |-> IF f # "door" \/ report.door # None
                                     THEN "poll" ELSE source[f]]
      /\ UNCHANGED <<lock, clock, boot, nextMid, sent, heard, recent, newest>>
  BY DEF PollReply, worldVars
<1>2. /\ TypeOK /\ SentOrdered /\ MemoryMatches /\ NewestWins
      /\ report \in Reports /\ tr \in Trackers /\ clock \in Nat
      /\ polled \in Faces
  BY <1>1 DEF IInv, TypeOK
<1>3. report \in PollReports
  BY <1>2 DEF Reports, PollReports, Levels
<1>4. /\ tr' \in Trackers
      /\ tr'.door = IF report.door # None THEN report.door ELSE tr.door
      /\ tr'.order = tr.order /\ tr'.seen = tr.seen
  BY <1>1, <1>2, <1>3, ApplyPollType
<1>5. /\ polled'.bolt = tr'.bolt /\ polled'.battery = tr'.battery
      /\ polled'.door = IF report.door # None THEN tr'.door ELSE polled.door
  BY PollReplyTypes DEF IInv
<1>7. SentOrdered'
  BY <1>1, <1>2 DEF SentOrdered
<1>8. MemoryMatches'
  BY <1>1, <1>2, <1>4 DEF MemoryMatches
<1>9. NewestWins'
  <2>1. ASSUME NEW f \in Facets
        PROVE  Face(tr')[f] = IF source'[f] = "event" THEN Claim(newest'[f], f) ELSE polled'[f]
    <3>1. CASE f = "bolt" \/ f = "battery"
      BY <3>1, <1>1, <1>5 DEF Face
    <3>2. CASE f = "door" /\ report.door # None
      BY <3>2, <1>1, <1>5 DEF Face
    <3>3. CASE f = "door" /\ report.door = None
      <4>1. Face(tr').door = Face(tr).door /\ source'["door"] = source["door"]
            /\ polled'.door = polled.door /\ newest' = newest
        BY <3>3, <1>1, <1>4, <1>5 DEF Face, Facets
      <4>2. Face(tr)["door"] = IF source["door"] = "event"
                               THEN Claim(newest["door"], "door") ELSE polled["door"]
        BY <1>2 DEF NewestWins, Facets
      <4> QED BY <3>3, <4>1, <4>2
    <3> QED BY <3>1, <3>2, <3>3 DEF Facets
  <2> QED BY <2>1 DEF NewestWins
<1> QED BY <1>7, <1>8, <1>9 DEF Ordered

\* Every step of the system preserves the invariant.
LEMMA NextInvariant ==
  ASSUME IInv, FirstMid >= 1 \/ SteadyStart, ~BlindRedelivery, [Next]_vars
  PROVE  IInv'
<1> SUFFICES Ordered'
  BY NextTypes DEF IInv, Ordered
<1>1. /\ TypeOK /\ SentOrdered /\ MemoryMatches /\ NewestWins
      /\ clock \in Nat /\ clock >= Jitter /\ nextMid \in Nat /\ Jitter \in Nat
  BY StreamAssumption DEF IInv, TypeOK
<1>2. CASE MoveBolt \/ Snapshot \/ MoveDoor
  <2>1. PICK kind \in {"lock", "action", "door"}, state \in States, battery \in Levels,
             late \in 0..Jitter :
          /\ Send(kind, state, battery, clock - late, nextMid)
          /\ SteadyStart => Steady(clock - late)
    BY <1>1, <1>2, OwnFrame
  <2>2. /\ clock - late \in Nat /\ clock - late <= clock /\ clock - late >= clock - Jitter
        /\ kind \in Kinds /\ nextMid' = nextMid + 1
    BY <1>1, <1>2, OwnFrame DEF Kinds
  <2> QED BY <2>1, <2>2, <1>1, SendStep
<1>3. CASE CommandSeen \/ LinkFlips
  <2>1. PICK kind \in {"setLock", "wifiState"}, state \in States :
             Send(kind, state, NoBattery, clock, 0)
    BY <1>1, <1>3, CloudFrame
  <2>2. kind \in Kinds /\ NoBattery \in Levels /\ nextMid' = nextMid
    BY <1>1, <1>3, CloudFrame DEF Kinds, Levels
  <2> QED BY <2>1, <2>2, <1>1, SendStep
<1>4. CASE PowerCycle \/ Tick
  BY <1>4, ClockStep
<1>5. CASE Deliver
  BY <1>5, DeliverStep
<1>6. CASE Redeliver
  BY <1>6, RedeliverStep
<1>7. CASE PollReply
  BY <1>7, PollReplyStep
<1>8. CASE PollAnswered \/ PollFails \/ UNCHANGED vars
  <2>1. UNCHANGED <<lock, clock, boot, nextMid, sent, heard, recent, tr, newest, source, polled>>
    BY <1>8 DEF PollAnswered, PollFails, vars, worldVars, ghostVars
  <2> QED BY <2>1, <1>1 DEF Ordered, SentOrdered, MemoryMatches, NewestWins
<1> QED BY <1>2, <1>3, <1>4, <1>5, <1>6, <1>7, <1>8 DEF Next

\* The tracker's memory always matches what it heard, and the sent frames are
\* ordered: the inductive invariant holds in every reachable state.
THEOREM StreamInvariant ==
  ASSUME FirstMid >= 1 \/ SteadyStart, ~BlindRedelivery
  PROVE  Spec => []IInv
<1>1. Init => IInv
  BY InitInvariant
<1>2. IInv /\ [Next]_vars => IInv'
  BY NextInvariant
<1> QED BY <1>1, <1>2, PTL DEF Spec

\* Types, for every value of the constants and whatever the cloud re-delivers.
THEOREM StreamTypes == Spec => []TypeOK
<1>1. Init => TypeOK
  BY InitTypes
<1>2. TypeOK /\ [Next]_vars => TypeOK'
  BY NextTypes
<1> QED BY <1>1, <1>2, PTL DEF Spec

\* The ordering rule of tracker.py (_accept, _is_redelivery, apply) always shows
\* the newest state heard, for any window, jitter and number of frames.
THEOREM NewestAlwaysWins ==
  ASSUME FirstMid >= 1 \/ SteadyStart, ~BlindRedelivery
  PROVE  Spec => []NewestWins
<1>1. IInv => NewestWins
  BY DEF IInv
<1> QED BY <1>1, StreamInvariant, PTL


\* No step leaves a command pending towards what the bolt already shows: events
\* and polls both end by clearing it (tracker.py apply, apply_poll), re-deliveries
\* of what was never heard included.
THEOREM NeverPointlessPending == Spec => []NoPointlessPending
<1>1. Init => NoPointlessPending
  BY DEF Init, NoPointlessPending, NewTracker, Reached
<1>2. ASSUME TypeOK, NoPointlessPending, [Next]_vars PROVE NoPointlessPending'
  <2>1. tr \in Trackers /\ clock \in Nat /\ nextMid \in Nat
        /\ sent \subseteq Frames /\ heard \subseteq sent
    BY <1>2 DEF TypeOK
  <2>2. CASE Deliver
    <3>1. PICK fr \in sent \ heard : tr' = Apply(tr, fr, clock)
      BY <2>2 DEF Deliver
    <3> QED BY <3>1, <2>1, <1>2, FramesAreEvents, ApplyType DEF NoPointlessPending
  <2>3. CASE Redeliver
    <3>1. PICK fr \in sent \cup {recent[i] : i \in 1..Len(recent)} :
            tr' = Apply(tr, [fr EXCEPT !.mid = nextMid], clock)
      BY Zenon, <2>3 DEF Redeliver
    <3>2. fr \in Frames
      BY <3>1, <2>1, <1>2 DEF TypeOK
    <3> QED BY <3>1, <3>2, <2>1, <1>2, FramesAreEvents, ApplyType DEF NoPointlessPending
  <2>4. CASE PollReply
    BY <2>4, <2>1, <1>2, PollReplyTypes, ApplyPollType DEF NoPointlessPending
  <2>5. CASE ~Deliver /\ ~Redeliver /\ ~PollReply
    <3>1. tr' = tr
      BY <2>5, <1>2 DEF Next, vars, MoveBolt, Snapshot, MoveDoor, CommandSeen, LinkFlips,
         Emit, Send, PowerCycle, Tick, PollAnswered, PollFails
    <3> QED BY <3>1, <1>2 DEF NoPointlessPending, Reached
  <2> QED BY <2>2, <2>3, <2>4, <2>5
<1> QED BY <1>1, <1>2, StreamTypes, PTL DEF Spec
=============================================================================
