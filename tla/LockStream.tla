----------------------------- MODULE LockStream -----------------------------
(***************************************************************************)
(* One lock, the cloud in front of it, and the tracker that listens.       *)
(*                                                                         *)
(* The lock numbers its frames (msgId) and stamps them with a clock that   *)
(* jitters backwards; the cloud delivers them in any order, loses some and *)
(* delivers some again under a new msgId; a power cycle restarts the       *)
(* numbering.  Beside the stream runs the safety-net poll, whose answer is *)
(* taken at one moment and applied at a later one.                         *)
(*                                                                         *)
(* The environment is what research/FINDINGS.md describes; the two actions *)
(* of the program are Deliver (coordinator._on_event) and PollReply        *)
(* (coordinator._async_update_data), each the whole tracker method.        *)
(***************************************************************************)
EXTENDS LockTracker, FiniteSets

CONSTANTS Emits,            \* the kinds of frame this instance emits
          Jitter,           \* how far back a stamp may run
          BootTime,         \* seconds a power cycle takes
          FirstMid,         \* msgId of the first frame after power-on
          StartMid,         \* msgId of the lock's next frame when the tracker is created
          SteadyStart,      \* is no stamp earlier than that of a first frame with msgId 0?
          Starts,           \* what the first poll may find: bolt, door, battery, online
          BlindRedelivery,  \* may a frame be re-delivered whose original was lost?
          MaxSeq,           \* bound: frames ever sent
          MaxBoot,          \* bound: power cycles
          MaxClock          \* bound: the clock

ASSUME StreamAssumption ==
  /\ Emits \subseteq Kinds
  /\ Jitter \in Nat /\ Jitter <= ReorderWindow
  /\ BootTime \in Nat /\ BootTime > ReorderWindow + Jitter
  /\ FirstMid \in Nat /\ StartMid \in Nat /\ StartMid >= FirstMid
  /\ SteadyStart \in BOOLEAN /\ BlindRedelivery \in BOOLEAN
  /\ MaxSeq \in Nat
  /\ MaxBoot \in Nat
  /\ MaxClock \in Nat
  /\ Starts \subseteq [bolt : BoltStates, door : {"open", "closed"},
                       battery : BatteryLevels, online : {TRUE}]

Frames == [kind : Kinds, state : States, battery : Levels,
           ts : Nat, mid : Nat, boot : Nat, seq : Nat]
Reports == [bolt : BoltStates, door : {"open", "closed", None},
            battery : BatteryLevels, online : BOOLEAN]
NoReport == [bolt |-> None, door |-> None, battery |-> NoBattery, online |-> FALSE]

VARIABLES
  lock,      \* what the lock last told the cloud: bolt, door, battery, online
  clock,     \* seconds; the lock stamps its frames from it, Jitter late
  boot,      \* power cycles so far
  nextMid,   \* the msgId of the lock's next frame
  sent,      \* every frame ever sent; one that is lost is never delivered
  heard,     \* the frames the tracker has been given
  recent,    \* ghost: the last SeenMax of them, in the order given
  tr,        \* the tracker
  report,    \* the answer of the poll in flight, or NoReport
  newest,    \* ghost: per facet, the newest frame heard that claims it
  source,    \* ghost: per facet, what wrote it last, "event" or "poll"
  polled     \* ghost: per facet, what the last poll wrote

worldVars == <<lock, clock, boot, nextMid, sent>>
ghostVars == <<newest, source, polled>>
vars == <<lock, clock, boot, nextMid, sent, heard, recent, tr, report,
          newest, source, polled>>

NoFrame == [kind |-> "none", state |-> "none", battery |-> NoBattery,
            ts |-> 0, mid |-> 0, boot |-> 0, seq |-> 0]

Init ==
  /\ lock \in Starts
  /\ clock = Jitter /\ boot = 0 /\ nextMid = StartMid
  /\ sent = {} /\ heard = {} /\ recent = << >>
  /\ tr = NewTracker(lock)
  /\ report = NoReport
  /\ newest = [f \in Facets |-> NoFrame]
  /\ source = [f \in Facets |-> "poll"]
  /\ polled = Face(tr)

-----------------------------------------------------------------------------
\* The lock and the cloud.

LastSeq == Cardinality(sent)

\* The stream's identity assumption (models.py: "timestamp+body identifies
\* the event"): no two events share it.
Fresh(fr) == \A g \in sent : Identity(g) # Identity(fr)

Send(kind, state, battery, ts, mid) ==
  LET fr == [kind |-> kind, state |-> state, battery |-> battery, ts |-> ts,
             mid |-> mid, boot |-> boot, seq |-> LastSeq + 1]
  IN  /\ kind \in Emits
      /\ LastSeq < MaxSeq
      /\ Fresh(fr)
      /\ sent' = sent \cup {fr}
      /\ UNCHANGED <<clock, boot, heard, recent, tr, report, ghostVars>>

\* The frames that take part in ordering.
Ranked(fr) == fr.kind \in {"lock", "action", "door"}

\* The stamp is not earlier than that of this power cycle's frame without a msgId.
Steady(ts) ==
  \A fr \in sent : Ranked(fr) /\ fr.boot = boot /\ fr.mid = 0 => fr.ts <= ts

\* A frame of the lock's own: the next msgId, a stamp up to Jitter old.
Emit(kind, state, battery) ==
  \E late \in 0..Jitter :
    /\ lock.online
    /\ SteadyStart => Steady(clock - late)
    /\ Send(kind, state, battery, clock - late, nextMid)
    /\ nextMid' = nextMid + 1

\* The bolt turns; the lock logs a record.
MoveBolt ==
  LET now == IF lock.bolt = "locked" THEN "unlocked" ELSE "locked"
  IN  Emit("lock", now, NoBattery) /\ lock' = [lock EXCEPT !.bolt = now]

\* A full snapshot, pre-actuation ones included: the bolt as it is now.
Snapshot ==
  \E level \in BatteryLevels :
    /\ Emit("action", lock.bolt, level)
    /\ lock' = [lock EXCEPT !.battery = level]

MoveDoor ==
  LET opened == lock.door = "closed"
  IN  /\ Emit("door", IF opened THEN "opened" ELSE "closed", NoBattery)
      /\ lock' = [lock EXCEPT !.door = IF opened THEN "open" ELSE "closed"]

\* Somebody's command reaches the lock; the frame's msgId is of another space.
CommandSeen ==
  \E state \in BoltStates :
    Send("setLock", state, NoBattery, clock, 0) /\ UNCHANGED <<lock, nextMid>>

\* The cloud sees the lock's WiFi link go down or come up.
LinkFlips ==
  /\ Send("wifiState", IF lock.online THEN "0" ELSE "1", NoBattery, clock, 0)
  /\ lock' = [lock EXCEPT !.online = ~@]
  /\ UNCHANGED nextMid

PowerCycle ==
  /\ boot < MaxBoot /\ clock + BootTime <= MaxClock
  /\ boot' = boot + 1
  /\ clock' = clock + BootTime
  /\ nextMid' = FirstMid
  /\ UNCHANGED <<lock, sent, heard, recent, tr, report, ghostVars>>

Tick ==
  /\ clock < MaxClock
  /\ clock' = clock + 1
  /\ UNCHANGED <<lock, boot, nextMid, sent, heard, recent, tr, report, ghostVars>>

-----------------------------------------------------------------------------
\* The tracker's inputs.

\* The last SeenMax frames of a sequence one longer at most.
Latest(frames) == IF Len(frames) > SeenMax THEN Tail(frames) ELSE frames

\* A frame arrives for the first time.
Deliver ==
  \E fr \in sent \ heard :
    /\ tr' = Apply(tr, fr, clock)
    /\ heard' = heard \cup {fr}
    /\ recent' = Latest(Append(recent, fr))
    /\ LET newer(f) == Offers(fr, f) /\ fr.seq > newest[f].seq
       IN  /\ newest' = [f \in Facets |-> IF newer(f) THEN fr ELSE newest[f]]
           /\ source' = [f \in Facets |-> IF newer(f) THEN "event" ELSE source[f]]
    /\ UNCHANGED <<worldVars, report, polled>>

\* The cloud sends one of the last SeenMax frames again: same timestamp and body, a
\* new higher msgId.
Redeliver ==
  \E fr \in IF BlindRedelivery THEN sent ELSE {recent[i] : i \in 1..Len(recent)} :
    /\ Offers(fr, "bolt") \/ Offers(fr, "door")
    /\ nextMid <= StartMid + MaxSeq
    /\ nextMid' = nextMid + 1
    /\ tr' = Apply(tr, [fr EXCEPT !.mid = nextMid], clock)
    /\ UNCHANGED <<lock, clock, boot, sent, heard, recent, report, ghostVars>>

\* The cloud answers a poll from what it knows now.  device/list can tell the
\* bolt and the battery; whether it can tell the door is best-effort.
PollAnswered ==
  /\ report = NoReport
  /\ \E door \in {lock.door, None} : report' = [lock EXCEPT !.door = door]
  /\ UNCHANGED <<worldVars, heard, recent, tr, ghostVars>>

\* The answer reaches the tracker.
PollReply ==
  /\ report # NoReport
  /\ tr' = ApplyPoll(tr, report, clock)
  /\ report' = NoReport
  /\ LET tells(f) == f # "door" \/ report.door # None
     IN  /\ source' = [f \in Facets |-> IF tells(f) THEN "poll" ELSE source[f]]
         /\ polled' = [Face(tr') EXCEPT !.door = IF tells("door") THEN @ ELSE polled.door]
  /\ UNCHANGED <<worldVars, heard, recent, newest>>

\* UpdateFailed: the answer is lost and nothing changes.
PollFails ==
  /\ report # NoReport
  /\ report' = NoReport
  /\ UNCHANGED <<worldVars, heard, recent, tr, ghostVars>>

Next ==
  \/ MoveBolt \/ Snapshot \/ MoveDoor \/ CommandSeen \/ LinkFlips
  \/ PowerCycle \/ Tick
  \/ Deliver \/ Redeliver
  \/ PollAnswered \/ PollReply \/ PollFails

Spec == Init /\ [][Next]_vars

\* The poll is asked for ever (DataUpdateCoordinator reschedules it after
\* success and failure alike) and does not fail for ever.
FairSpec == Spec /\ WF_vars(PollAnswered) /\ SF_vars(PollReply)

-----------------------------------------------------------------------------
\* Properties.

\* Types, and the ranges the counters stay in.
TypeOK ==
  /\ lock \in Reports
  /\ lock.door # None
  /\ clock \in Nat /\ clock >= Jitter
  /\ boot \in Nat
  /\ nextMid \in Nat /\ nextMid >= FirstMid
  /\ sent \subseteq Frames /\ IsFiniteSet(sent)
  /\ heard \subseteq sent /\ recent \in Seq(heard)
  /\ tr \in Trackers
  /\ report \in Reports \cup {NoReport}
  /\ newest \in [Facets -> Frames \cup {NoFrame}]
  /\ source \in [Facets -> {"event", "poll"}]
  /\ polled \in Faces

\* However the cloud reorders, loses and re-delivers frames, and across a power
\* cycle, every facet the last event wrote shows what the newest frame heard so
\* far says, and no event has disturbed one the last poll wrote without being
\* newer than all before it (tracker.py _accept, _is_redelivery, apply).
NewestWins ==
  \A f \in Facets :
    Face(tr)[f] = IF source[f] = "event" THEN Claim(newest[f], f) ELSE polled[f]

\* The strengthening that makes NewestWins inductive.
\* The lock sent a before b: within one power cycle the msgId counts up and the
\* stamp runs back by at most Jitter, and not behind that of a frame that has none;
\* across one, the stamps are far apart.
Before(a, b) ==
  \/ /\ a.boot = b.boot /\ a.mid < b.mid
     /\ b.ts >= a.ts - Jitter /\ (a.mid = 0 => b.ts >= a.ts)
  \/ a.boot < b.boot /\ b.ts > a.ts + ReorderWindow

SentOrdered ==
  /\ \A fr \in sent :
       /\ fr.seq > 0 /\ fr.seq <= Cardinality(sent)
       /\ fr.ts <= clock /\ fr.boot <= boot
       /\ fr.boot < boot => fr.ts + BootTime <= clock
       /\ Ranked(fr) => fr.mid >= FirstMid /\ (fr.boot = boot => fr.mid < nextMid)
       /\ ~Ranked(fr) => fr.battery = NoBattery
  /\ \A a, b \in sent :
       /\ a.seq = b.seq \/ Identity(a) = Identity(b) => a = b
       /\ a.seq < b.seq /\ Ranked(a) /\ Ranked(b) => Before(a, b)

\* What the tracker remembers is what it has heard.
MemoryMatches ==
  /\ \A f \in Facets :
       \/ newest[f] = NoFrame /\ tr.order[f] = NoKey
       \/ newest[f] \in heard /\ Offers(newest[f], f) /\ tr.order[f] = Key(newest[f])
  /\ \A f \in Facets, fr \in heard : Offers(fr, f) => fr.seq <= newest[f].seq
  /\ Len(tr.seen) = Len(recent) /\ Len(recent) <= SeenMax
  /\ \A i \in 1..Len(recent) : tr.seen[i] = Identity(recent[i])

\* The inductive invariant behind NewestWins: what the lock sent is ordered by
\* its sequence, and the tracker's keys and seen bodies (tracker.py _order and
\* _seen) are those of the frames heard.
IInv == TypeOK /\ SentOrdered /\ MemoryMatches /\ NewestWins

\* No command is shown as in flight towards the state the bolt already shows:
\* an entity never spins "unlocking" on an unlocked bolt, whichever of setLock,
\* record, snapshot and poll came first (tracker.py apply, apply_poll).
NoPointlessPending == ~Reached(tr)

\* Once the lock is left alone, the tracker ends up showing the bolt, battery
\* and connectivity the cloud has, in spite of frames lost, reordered and
\* re-delivered, because the poll corrects what the stream got wrong
\* (coordinator.py _async_update_data, tracker.py apply_poll).
Converges ==
  <>[](tr.bolt = lock.bolt /\ tr.battery = lock.battery /\ tr.online = lock.online)
-----------------------------------------------------------------------------
\* The abstract display, as this system implements it.

Truth == [bolt |-> lock.bolt, door |-> lock.door, battery |-> lock.battery]

\* What the frames sent so far have said of a facet.
Said(f) ==
  {[at |-> fr.seq, value |-> Claim(fr, f)] : fr \in {g \in sent : Offers(g, f)}}

\* The facets the answer of the poll in flight tells.
Told == IF report = NoReport THEN {}
        ELSE IF report.door = None THEN Facets \ {"door"} ELSE Facets

Display == INSTANCE LockDisplay WITH
  truth  <- Truth,
  count  <- LastSeq,
  said   <- [f \in Facets |-> Said(f)],
  shown  <- Face(tr),
  at     <- [f \in Facets |-> newest[f].seq],
  answer <- [f \in Told |-> Face(report)[f]]

\* The tracker behind its stream and its poll implements the display: every step
\* of the lock, the cloud, the coordinator or the tracker is one of the display's
\* or leaves it alone, power cycles included, "so a re-delivered stale snapshot
\* can't clobber fresher state" (tracker.py:16-17; apply, apply_poll).
ImplementsDisplay == Display!Spec
=============================================================================
