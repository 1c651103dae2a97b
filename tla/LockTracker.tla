---------------------------- MODULE LockTracker ----------------------------
(***************************************************************************)
(* The client-side state tracker of one lock: homeaccess/tracker.py.       *)
(*                                                                         *)
(* A tracker is a record: the four shown facets and the pending command    *)
(* (LockState), the ordering key last applied to each facet (_order) and   *)
(* the bounded memory of bodies already seen (_seen).  Every method of     *)
(* LockTracker is an operator from a tracker to the tracker it leaves.     *)
(* A facet nothing has been applied to has the key NoKey, which stands for *)
(* the missing dictionary entry.                                           *)
(***************************************************************************)
EXTENDS Integers, Sequences

CONSTANTS ReorderWindow,    \* seconds within which msgId decides (REORDER_WINDOW)
          PendingTimeout,   \* seconds a pending command may stay unconfirmed
          SeenMax,          \* length of the memory of seen bodies (deque maxlen)
          BatteryLevels     \* the battery levels a frame or a poll may carry

ASSUME TrackerAssumption ==
  /\ ReorderWindow \in Nat
  /\ PendingTimeout \in Nat \ {0}
  /\ SeenMax \in Nat \ {0}
  /\ BatteryLevels \subseteq Nat

None == "none"
NoBattery == -1
NoKey == [ts |-> -1, mid |-> -1]

BoltStates == {"locked", "unlocked"}
DoorRecords == {"opened", "closed"}
Facets == {"bolt", "door", "battery"}

\* What parse_event can make of a frame, as far as the tracker tells kinds and
\* states apart; "parts" is the accessory's report, None an unknown code.
Kinds == {"lock", "action", "door", "setLock", "wifiState", "parts"}
States == BoltStates \cup DoorRecords \cup {"0", "1", None}

Levels == BatteryLevels \cup {NoBattery}
Keys == [ts : Nat, mid : Nat] \cup {NoKey}

\* timestamp + body: what makes two frames the same event.
Identities == [ts : Nat, kind : Kinds, state : States, battery : Levels]

Trackers ==
  [bolt    : BoltStates \cup {None},
   door    : {"open", "closed", None},
   battery : Levels,
   pending : {"locking", "unlocking", None},
   since   : Nat,
   online  : BOOLEAN,
   order   : [Facets -> Keys],
   seen    : Seq(Identities)]

\* The tracker the coordinator creates from the first poll that lists a lock.
NewTracker(report) ==
  [bolt |-> report.bolt, door |-> report.door, battery |-> report.battery,
   pending |-> None, since |-> 0, online |-> report.online,
   order |-> [f \in Facets |-> NoKey], seen |-> << >>]

-----------------------------------------------------------------------------
\* Ordering.

Key(ev) == [ts |-> ev.ts, mid |-> ev.mid]

Later(k, last) == k.ts > last.ts \/ (k.ts = last.ts /\ k.mid > last.mid)

Close(k, last) == /\ k.ts - last.ts <= ReorderWindow
                  /\ last.ts - k.ts <= ReorderWindow

\* Mutant of Accept: the stamp alone decides, as in the first release.
AcceptByTime(last, k) == last = NoKey \/ Later(k, last)

\* A msgId of 0 is falsy in the source, so it is treated as a missing one.
Accept(last, k) ==
  \/ last = NoKey
  \/ /\ last # NoKey
     /\ IF k.mid # 0 /\ last.mid # 0 /\ Close(k, last)
        THEN k.mid > last.mid
        ELSE Later(k, last)

Identity(ev) == [ts |-> ev.ts, kind |-> ev.kind, state |-> ev.state,
                 battery |-> ev.battery]

IsRedelivery(tr, ev) == \E i \in 1..Len(tr.seen) : tr.seen[i] = Identity(ev)

\* Mutant of Remember: bodies are not remembered.
RememberNothing(seen, id) == seen

\* deque(maxlen=SeenMax).append
Remember(seen, id) ==
  Append(IF Len(seen) < SeenMax THEN seen ELSE Tail(seen), id)

\* The facet f of the state that an event claims to know.
Offers(ev, f) ==
  \/ f = "bolt" /\ ev.kind \in {"action", "lock"} /\ ev.state \in BoltStates
  \/ f = "door" /\ ev.kind = "door" /\ ev.state \in DoorRecords
  \/ f = "battery" /\ ev.battery # NoBattery

Takes(tr, ev, f) == Offers(ev, f) /\ Accept(tr.order[f], Key(ev))

\* Mutant of DoorShown: the record's word is shown as it is.
DoorAsRecorded(state) == state

DoorShown(state) == IF state = "opened" THEN "open" ELSE "closed"

-----------------------------------------------------------------------------
\* The pending command.

Target(pending) == IF pending = "unlocking" THEN "unlocked" ELSE "locked"
\* Mutant of Request: the state asked for is shown for the command.
RequestedState(state) == state

Request(state) == IF state = "unlocked" THEN "unlocking" ELSE "locking"

SetPending(tr, pending, now) ==
  IF pending = tr.pending THEN tr
  ELSE [tr EXCEPT !.pending = pending,
                  !.since = IF pending = None THEN 0 ELSE now]

Reached(tr) == tr.pending # None /\ Target(tr.pending) = tr.bolt

ClearIf(cond, tr) == IF cond THEN SetPending(tr, None, 0) ELSE tr

\* Mutant of ExpirePending: whatever is pending is given up, however new.
ExpireAnyway(tr, now) == ClearIf(tr.pending # None, tr)

ExpirePending(tr, now) ==
  ClearIf(tr.pending # None /\ now - tr.since >= PendingTimeout, tr)

-----------------------------------------------------------------------------
\* Mutant of ApplyPoll: the connectivity is left to the pushed events.
ApplyPollButOnline(tr, report, now) ==
  LET told == [tr EXCEPT
                 !.bolt = IF report.bolt # None THEN report.bolt ELSE @,
                 !.door = IF report.door # None THEN report.door ELSE @,
                 !.battery = IF report.battery # NoBattery THEN report.battery ELSE @]
  IN  ExpirePending(ClearIf(Reached(told), told), now)

\* Mutant of ApplyPoll: giving up is left to the entity's timer.
ApplyPollNoExpiry(tr, report, now) ==
  LET told == [tr EXCEPT !.bolt = IF report.bolt # None THEN report.bolt ELSE @,
                         !.online = report.online]
  IN  ClearIf(Reached(told), told)

\* A poll: every facet the report can tell is overwritten, unconditionally.
ApplyPoll(tr, report, now) ==
  LET told == [tr EXCEPT
                 !.bolt = IF report.bolt # None THEN report.bolt ELSE @,
                 !.door = IF report.door # None THEN report.door ELSE @,
                 !.battery = IF report.battery # NoBattery THEN report.battery ELSE @,
                 !.online = report.online]
  IN  ExpirePending(ClearIf(Reached(told), told), now)

\* The facets an event that is not a re-delivery overwrites.
TakeFacets(tr, ev) ==
  [tr EXCEPT
     !.seen = Remember(@, Identity(ev)),
     !.online = IF ev.kind = "wifiState" /\ ev.state \in {"0", "1"}
                THEN ev.state = "1" ELSE @,
     !.order = [f \in Facets |-> IF Takes(tr, ev, f) THEN Key(ev) ELSE @[f]],
     !.bolt = IF Takes(tr, ev, "bolt") THEN ev.state ELSE @,
     !.door = IF Takes(tr, ev, "door") THEN DoorShown(ev.state) ELSE @,
     !.battery = IF Takes(tr, ev, "battery") THEN ev.battery ELSE @]

\* Mutant of SettlePending: only a lock record confirms.
SettleByRecordOnly(tr, taken, ev, now) ==
  LET asked == IF ev.kind = "setLock" /\ ev.state \in BoltStates
               THEN SetPending(taken, Request(ev.state), now)
               ELSE taken
  IN  ClearIf(ev.kind = "lock" /\ Takes(tr, ev, "bolt"), asked)

\* What an event does to the pending command, once its facets are taken:
\* setLock marks one, an accepted lock record confirms whatever is pending,
\* and so does a bolt that has reached the target.
SettlePending(tr, taken, ev, now) ==
  LET asked == IF ev.kind = "setLock" /\ ev.state \in BoltStates
               THEN SetPending(taken, Request(ev.state), now)
               ELSE taken
      confirmed == ClearIf(ev.kind = "lock" /\ Takes(tr, ev, "bolt"), asked)
  IN  ClearIf(Reached(confirmed), confirmed)

Apply(tr, ev, now) ==
  IF IsRedelivery(tr, ev) THEN tr
  ELSE SettlePending(tr, TakeFacets(tr, ev), ev, now)

\* What a tracker shows of each facet, and what an event claims of one.
Faces == [bolt : BoltStates \cup {None}, door : {"open", "closed", None},
          battery : Levels]

Face(tr) == [bolt |-> tr.bolt, door |-> tr.door, battery |-> tr.battery]

Claim(ev, f) ==
  CASE f = "bolt" -> ev.state
    [] f = "door" -> DoorShown(ev.state)
    [] f = "battery" -> ev.battery
=============================================================================
