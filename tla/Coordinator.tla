---------------------------- MODULE Coordinator ----------------------------
(***************************************************************************)
(* The coordinator between the realtime listeners and the safety-net poll: *)
(* coordinator.py (PhilipsCoordinator) over the listeners of Realtime.     *)
(*                                                                         *)
(* Every datacenter hosts one lock; only those in Streams have a WebSocket *)
(* to carry it.  What the coordinator shows of a lock's bolt is right or   *)
(* stale, and what it shows of its connectivity is a value; the tracker    *)
(* itself is LockTracker.                                                  *)
(*                                                                         *)
(* Home Assistant runs the poll (DataUpdateCoordinator): on the timer it   *)
(* arms after every poll, and on request through a debouncer that runs a   *)
(* request at once, queues one made while it cools down after another, and *)
(* drops one made while another runs.  async_set_updated_data rearms the   *)
(* timer and clears the debouncer's queue.                                 *)
(***************************************************************************)
EXTENDS Realtime

CONSTANTS Datacenters,   \* where the account's locks live
          MaxChanges     \* bound: things that happen to the locks

ASSUME CoordinatorAssumption ==
  /\ Streams \subseteq Datacenters
  /\ Datacenters # {}
  /\ MaxChanges \in Nat

VARIABLES
  interval,   \* update_interval
  timer,      \* the interval the next scheduled poll was armed with, or "none"
  debounce,   \* the request debouncer
  caller,     \* the listener whose callback awaits the requested poll, or Nobody
  polls,      \* the polls in flight: one on request, one on the timer
  out,        \* the locks that are offline, in truth
  off,        \* the locks shown offline
  stale,      \* the locks whose shown state the cloud no longer has
  changes,    \* changes so far
  reauth,     \* the account's credentials were refused: polling has stopped
  blindly     \* ghost: has the interval not been settled since a poll failed?

pollVars == <<interval, timer, debounce, caller, polls, reauth, blindly>>
lockVars == <<out, off, stale, changes>>
coVars == <<interval, timer, debounce, caller, polls, out, off, stale, changes,
            reauth, blindly>>
vars == <<pc, up, lasted, delay, live, foreign, interval, timer, debounce, caller,
          polls, out, off, stale, changes, reauth, blindly>>

Nobody == "nobody"
Slots == {"request", "timer"}
\* knows: the locks that have not changed since the cloud answered;
\* out: those it said were offline.
PollStates == [stage : {"none", "asking", "answered"},
               knows : SUBSET Datacenters, out : SUBSET Datacenters]
NoPoll == [stage |-> "none", knows |-> {}, out |-> {}]
Asking == [NoPoll EXCEPT !.stage = "asking"]

Polling(slot) == polls[slot].stage # "none"

\* The first refresh found every lock online, with no listener started yet.
Init ==
  /\ RtInit
  /\ interval = "fast" /\ timer = "fast"
  /\ debounce = "ready" /\ caller = Nobody
  /\ polls = [s \in Slots |-> NoPoll]
  /\ out = {} /\ off = {} /\ stale = {} /\ changes = 0
  /\ reauth = FALSE /\ blindly = FALSE

-----------------------------------------------------------------------------
\* _update_poll_interval: slow only while a live socket carries every lock and
\* none is shown offline.
Covered == \A d \in Datacenters : d \in Streams /\ up[d]
Rate(shownOff) == IF Covered /\ shownOff = {} THEN "slow" ELSE "fast"

\* A poll begins: the timer is disarmed and the debouncer's cool-down ends.
StartPoll(slot) ==
  /\ polls' = [polls EXCEPT ![slot] = Asking]
  /\ timer' = "none"

Settled(state) == IF state \in {"cooling", "queued"} THEN "ready" ELSE state

\* async_request_refresh: dropped if a requested poll is under way or coming, and,
\* in the versions that keep the two kinds of poll apart, during a scheduled one.
RequestRefresh(by) ==
  \/ /\ debounce = "ready"
     /\ StartPoll("request")
     /\ debounce' = "running" /\ caller' = by
     /\ UNCHANGED <<interval, reauth, blindly>>
  \/ /\ debounce = "cooling"
     /\ debounce' = "queued"
     /\ UNCHANGED <<interval, timer, caller, polls, reauth, blindly>>
  \/ /\ debounce \in {"running", "queued"} \/ (debounce = "ready" /\ Polling("timer"))
     /\ UNCHANGED pollVars

-----------------------------------------------------------------------------
\* The listeners, with the coordinator's callbacks.

\* _on_ws_connect
Connect(d) ==
  /\ Connects(d) /\ RequestRefresh(d)
  /\ UNCHANGED lockVars

ConnectInVain(d) ==
  /\ ConnectsInVain(d) /\ RequestRefresh(d)
  /\ UNCHANGED lockVars

\* Mutant of Disconnect: no refresh when the socket drops.
DisconnectQuietly(d) ==
  /\ Drops(d) /\ caller # d
  /\ UNCHANGED <<lockVars, pollVars>>

\* _on_ws_disconnect, not before _on_ws_connect has returned.
Disconnect(d) ==
  /\ Drops(d) /\ caller # d /\ RequestRefresh(d)
  /\ UNCHANGED lockVars

\* A callback returns once the poll it started, if any, has ended.
CallbackReturns(d) ==
  /\ Greeted(d) \/ Parted(d)
  /\ caller # d
  /\ UNCHANGED coVars

\* What a listener does without its callbacks.
Recovers(d) ==
  /\ TokenReady(d) \/ AttemptFails(d) \/ TokenRepaired(d) \/ CheckFails(d) \/ Wakes(d)
  /\ UNCHANGED coVars

Outlives(d) == Lasts(d) /\ UNCHANGED coVars

ForeignClient == ForeignLogin /\ UNCHANGED coVars

-----------------------------------------------------------------------------
\* The locks, and the events of _on_event.

\* A lock d changes: a poll already answered does not know it.
Changed(d) ==
  /\ changes < MaxChanges
  /\ changes' = changes + 1
  /\ polls' = [s \in Slots |-> [polls[s] EXCEPT !.knows = @ \ {d}]]

Heard(d) == d \in Streams /\ pc[d] = "stream"
Missed(d) == d \in Streams => (~up[d] \/ pc[d] = "closed")

\* An event that changed something shown: a new poll rate is put into effect by
\* async_set_updated_data, otherwise the entities are only told.
Notify ==
  LET rate == Rate(off')
  IN  /\ blindly' = FALSE
      /\ interval' = rate
      /\ IF rate = interval THEN UNCHANGED <<timer, debounce>>
         ELSE timer' = rate /\ debounce' = Settled(debounce)
      /\ UNCHANGED <<caller, reauth>>

MoveHeard(d) ==
  /\ Heard(d) /\ Changed(d)
  /\ UNCHANGED <<out, off, stale, rtVars>>
  /\ Notify

MoveMissed(d) ==
  /\ Missed(d) /\ Changed(d)
  /\ stale' = stale \cup {d}
  /\ UNCHANGED <<out, off, rtVars, interval, timer, debounce, caller,
                 reauth, blindly>>

Flip(d) == out' = IF d \in out THEN out \ {d} ELSE out \cup {d}

\* wifiState: the pushed value is shown; it changes nothing if shown already.
LinkHeard(d) ==
  /\ Heard(d) /\ Changed(d) /\ Flip(d)
  /\ off' = IF d \in out' THEN off \cup {d} ELSE off \ {d}
  /\ UNCHANGED <<stale, rtVars>>
  /\ IF off' # off THEN Notify
     ELSE UNCHANGED <<interval, timer, debounce, caller, reauth, blindly>>

LinkMissed(d) ==
  /\ Missed(d) /\ Changed(d) /\ Flip(d)
  /\ stale' = stale \cup {d}
  /\ UNCHANGED <<off, rtVars, interval, timer, debounce, caller, reauth,
                 blindly>>

-----------------------------------------------------------------------------
\* The polls.

TimerFires ==
  /\ timer # "none" /\ ~Polling("timer")
  /\ StartPoll("timer")
  /\ debounce' = Settled(debounce)
  /\ UNCHANGED <<interval, caller, reauth, blindly, lockVars, rtVars>>

\* lock.py _command: a poll soon after a command no WebSocket will confirm.
FollowUp ==
  /\ ~Covered
  /\ RequestRefresh(Nobody)
  /\ UNCHANGED <<lockVars, rtVars>>

CoolDownEnds ==
  /\ \/ /\ debounce = "cooling"
        /\ debounce' = "ready" /\ UNCHANGED <<polls, timer>>
     \/ /\ debounce = "queued"
        /\ debounce' = "running" /\ StartPoll("request")
  /\ UNCHANGED <<interval, caller, reauth, blindly, lockVars, rtVars>>

\* The cloud answers: device/list needs no live token.
PollAnswered(slot) ==
  /\ polls[slot].stage = "asking"
  /\ polls' = [polls EXCEPT ![slot] =
                 [stage |-> "answered", knows |-> Datacenters, out |-> out]]
  /\ UNCHANGED <<interval, timer, debounce, caller, reauth, blindly, lockVars, rtVars>>

\* However a poll ends, the debouncer of a requested one starts to cool down.
EndPoll(slot) ==
  /\ polls' = [polls EXCEPT ![slot] = NoPoll]
  /\ IF slot = "request"
     THEN debounce' = "cooling" /\ caller' = Nobody
     ELSE UNCHANGED <<debounce, caller>>

\* Mutant of PollApplied: the shown connectivity is left as it was.
PollAppliedButOnline(slot) ==
  /\ polls[slot].stage = "answered"
  /\ EndPoll(slot)
  /\ stale' = Datacenters \ polls[slot].knows
  /\ off' = off
  /\ interval' = Rate(off')
  /\ timer' = interval'
  /\ blindly' = FALSE
  /\ UNCHANGED <<out, changes, reauth, rtVars>>

\* _async_update_data: the answer overwrites what is shown, then the interval is
\* settled and the timer armed with it.
PollApplied(slot) ==
  /\ polls[slot].stage = "answered"
  /\ EndPoll(slot)
  /\ stale' = Datacenters \ polls[slot].knows
  /\ off' = polls[slot].out
  /\ interval' = Rate(off')
  /\ timer' = interval'
  /\ blindly' = FALSE
  /\ UNCHANGED <<out, changes, reauth, rtVars>>

\* Mutant of PollFails: a failed poll does not arm the timer.
PollFailsUnarmed(slot) ==
  /\ Polling(slot)
  /\ EndPoll(slot)
  /\ blindly' = TRUE
  /\ UNCHANGED <<interval, timer, reauth, lockVars, rtVars>>

\* UpdateFailed: nothing is settled, and the timer is armed as before.
PollFails(slot) ==
  /\ Polling(slot)
  /\ EndPoll(slot)
  /\ timer' = interval
  /\ blindly' = TRUE
  /\ UNCHANGED <<interval, reauth, lockVars, rtVars>>

\* ConfigEntryAuthFailed: the token had expired and the login for another is refused;
\* the timer is left disarmed until the user signs in.
PollRefused(slot) ==
  /\ polls[slot].stage = "asking"
  /\ EndPoll(slot)
  /\ reauth' = TRUE
  /\ blindly' = TRUE
  /\ UNCHANGED <<interval, timer, lockVars, rtVars>>

PollStep(slot) == PollAnswered(slot) \/ PollApplied(slot) \/ PollFails(slot)
                  \/ PollRefused(slot)

ListenerStep(d) == Connect(d) \/ ConnectInVain(d) \/ Disconnect(d) \/ CallbackReturns(d)
                   \/ Recovers(d) \/ Outlives(d)
LockStep(d) == MoveHeard(d) \/ MoveMissed(d) \/ LinkHeard(d) \/ LinkMissed(d)

Next ==
  \/ \E d \in Streams : ListenerStep(d)
  \/ ForeignClient
  \/ \E d \in Datacenters : LockStep(d)
  \/ TimerFires \/ FollowUp \/ CoolDownEnds
  \/ \E slot \in Slots : PollStep(slot)

Spec == Init /\ [][Next]_vars

\* The event loop runs a listener until it is on a socket that stays open, and every
\* await in it ends; the timer and the cool-down run out, and polls end.  Handshakes of a live
\* token, token checks and polls do not fail for ever.
FairSpec ==
  /\ Spec
  /\ \A d \in Streams :
       /\ WF_vars(Connect(d) \/ ConnectInVain(d) \/ CallbackReturns(d) \/ Recovers(d))
       /\ WF_vars(Disconnect(d) /\ pc[d] = "closed")
       /\ SF_vars(TokenReady(d) /\ UNCHANGED coVars) /\ SF_vars(Connect(d))
       /\ SF_vars(TokenRepaired(d) /\ UNCHANGED coVars)
  /\ WF_vars(TimerFires) /\ WF_vars(CoolDownEnds)
  /\ \A slot \in Slots : /\ WF_vars(PollStep(slot))
                         /\ SF_vars(PollAnswered(slot)) /\ SF_vars(PollApplied(slot))

-----------------------------------------------------------------------------
\* Properties.

TypeOK ==
  /\ RtTypeOK
  /\ interval \in {"slow", "fast"}
  /\ timer \in {"none", "slow", "fast"}
  /\ debounce \in {"ready", "running", "cooling", "queued"}
  /\ caller \in Streams \cup {Nobody}
  /\ polls \in [Slots -> PollStates]
  /\ out \subseteq Datacenters /\ off \subseteq Datacenters
  /\ stale \subseteq Datacenters
  /\ changes \in Nat
  /\ reauth \in BOOLEAN /\ blindly \in BOOLEAN

\* There is always a next poll: one is in flight or the timer is armed, whatever
\* the timer, the requests, the debouncer and the events do to one another.
PollAlwaysComing == reauth \/ timer # "none" \/ \E slot \in Slots : Polling(slot)

Quiet == debounce # "queued" /\ \A slot \in Slots : ~Polling(slot)

\* Once no poll is under way or queued, the slow poll is only ever armed while
\* every lock is carried by a live socket and shown online, even though a
\* request made while another runs is dropped (coordinator.py
\* _update_poll_interval).  A failed poll is excused: see BlindPollsFast.
SlowOnlyWhenCovered ==
  Quiet /\ ~blindly /\ timer = "slow" => Covered /\ off = {}

\* The same without the excuse: what _on_ws_disconnect promises, "Refresh now so
\* the interval drops to the fast poll while we're blind".
BlindPollsFast == Quiet /\ timer = "slow" => Covered

\* What a dead socket missed, or an overtaken poll answer undid, is put right
\* in the end (coordinator.py _async_update_data, the safety net).
MissedIsRepaired == <>[](stale = {} /\ off = out) \/ <>reauth
=============================================================================
