------------------------- MODULE CoordinatorProofs -------------------------
(***************************************************************************)
(* Proofs about Coordinator and its listeners: a poll is always coming, it *)
(* is slow only while sockets carry every lock, and a listener backs off   *)
(* unless its session lasted.                                              *)
(*                                                                         *)
(* SlowOnlyWhenCovered is not inductive: that a refresh asked for while    *)
(* another runs may be dropped is harmless only because the debouncer runs *)
(* no longer than its poll, and because the timer is never armed with an   *)
(* interval other than the one last settled.                               *)
(***************************************************************************)
EXTENDS Coordinator, TLAPS

\* The timer holds the interval in force.
TimerFollows == timer \in {"none", interval}

\* While the debouncer runs, so does its poll.
RunningPolls == debounce = "running" => Polling("request")

IInv == /\ TypeOK /\ PollAlwaysComing /\ SlowOnlyWhenCovered
        /\ TimerFollows /\ RunningPolls

-----------------------------------------------------------------------------
\* The listeners' own types, and their backoff.

ListenerActs(d) ==
  \/ TokenReady(d) \/ AttemptFails(d) \/ Connects(d) \/ ConnectsInVain(d) \/ Greeted(d)
  \/ Lasts(d) \/ Drops(d) \/ Parted(d) \/ TokenRepaired(d) \/ CheckFails(d) \/ Wakes(d)

\* Doubling stays within the bounds, and never shrinks the delay.
LEMMA DoubledBounds ==
  ASSUME NEW t \in ReconnectDelay..ReconnectDelayMax
  PROVE  /\ DoubledDelay(t) \in ReconnectDelay..ReconnectDelayMax
         /\ DoubledDelay(t) >= t
BY RealtimeAssumption DEF DoubledDelay

LEMMA ListenerTypes ==
  ASSUME RtTypeOK, NEW d \in Streams, ListenerActs(d)
  PROVE  RtTypeOK'
<1> USE RealtimeAssumption DEF RtTypeOK, Goto, Places
<1>1. CASE Wakes(d)
  <2>1. delay[d] \in ReconnectDelay..ReconnectDelayMax
    OBVIOUS
  <2>2. DoubledDelay(delay[d]) \in ReconnectDelay..ReconnectDelayMax
    BY <2>1, DoubledBounds
  <2> QED BY <1>1, <2>2 DEF Wakes
<1>2. CASE Parted(d)
  BY <1>2 DEF Parted
<1>3. CASE ~Wakes(d) /\ ~Parted(d)
  BY <1>3 DEF ListenerActs, TokenReady, AttemptFails, Connects, ConnectsInVain, Greeted,
     Lasts, Drops, TokenRepaired, CheckFails
<1> QED BY <1>1, <1>2, <1>3

\* The delay shrinks only when a listener goes to sleep after a session that lasted.
LEMMA ListenerBacksOff ==
  ASSUME RtTypeOK, NEW d \in Streams, ListenerActs(d), NEW e \in Streams,
         delay'[e] < delay[e]
  PROVE  lasted[e] /\ pc'[e] = "sleep"
<1> USE RealtimeAssumption DEF RtTypeOK, Goto, Places
<1>1. delay[e] \in ReconnectDelay..ReconnectDelayMax
  OBVIOUS
<1>2. CASE Wakes(d)
  BY <1>1, <1>2, DoubledBounds DEF Wakes
<1>3. CASE Parted(d)
  BY <1>1, <1>3 DEF Parted
<1>4. CASE ~Wakes(d) /\ ~Parted(d)
  BY <1>1, <1>4 DEF ListenerActs, TokenReady, AttemptFails, Connects, ConnectsInVain, Greeted,
     Lasts, Drops, TokenRepaired, CheckFails
<1> QED BY <1>2, <1>3, <1>4

-----------------------------------------------------------------------------
\* The steps of the whole, sorted by what they do to the polls.

\* What RequestRefresh leaves, of what was settled before.
LEMMA Requested ==
  ASSUME IInv, NEW by \in Streams \cup {Nobody}, RequestRefresh(by)
  PROVE  /\ interval' \in {"slow", "fast"} /\ timer' \in {"none", "slow", "fast"}
         /\ debounce' \in {"ready", "running", "cooling", "queued"}
         /\ caller' \in Streams \cup {Nobody} /\ polls' \in [Slots -> PollStates]
         /\ reauth' = reauth /\ blindly' = blindly
         /\ PollAlwaysComing' /\ TimerFollows' /\ RunningPolls'
         /\ ~Quiet'
<1> USE DEF IInv, TypeOK, TimerFollows, RunningPolls, PollAlwaysComing, Quiet, Polling,
        RequestRefresh, Slots
<1>1. Asking \in PollStates /\ Asking.stage # "none"
  BY DEF Asking, NoPoll, PollStates
<1>2. CASE debounce = "ready" /\ StartPoll("request") /\ debounce' = "running"
  <2>1. polls' \in [Slots -> PollStates] /\ polls'["request"] = Asking
    BY <1>1, <1>2 DEF StartPoll
  <2>2. Polling("request")'
    BY <1>1, <2>1
  <2>3. /\ timer' = "none" /\ caller' = by
        /\ UNCHANGED <<interval, reauth, blindly>>
    BY <1>2 DEF StartPoll, pollVars
  <2>4. PollAlwaysComing' /\ TimerFollows' /\ RunningPolls' /\ ~Quiet'
    BY <2>2, <2>3
  <2> QED BY <1>2, <2>1, <2>3, <2>4
<1>3. CASE UNCHANGED <<interval, timer, caller, polls, reauth, blindly>>
           /\ debounce = "cooling" /\ debounce' = "queued"
  BY <1>3
<1>4. CASE UNCHANGED pollVars
           /\ (debounce \in {"running", "queued"} \/ (debounce = "ready" /\ Polling("timer")))
  BY <1>4 DEF pollVars
<1> QED BY <1>2, <1>3, <1>4

\* A listener's step asks for a refresh, or leaves the polls and the sockets be.
LEMMA ListenerStepInv ==
  ASSUME IInv, NEW d \in Streams, ListenerStep(d)
  PROVE  IInv'
<1>1. ListenerActs(d)
  BY DEF ListenerStep, Connect, ConnectInVain, Disconnect, CallbackReturns, Recovers,
     Outlives, ListenerActs
<1>2. RtTypeOK'
  BY <1>1, ListenerTypes DEF IInv, TypeOK
<1>3. CASE Connect(d) \/ ConnectInVain(d) \/ Disconnect(d)
  <2>1. RequestRefresh(d) /\ UNCHANGED lockVars
    BY <1>3 DEF Connect, ConnectInVain, Disconnect
  <2> QED BY <1>2, <2>1, Requested DEF IInv, TypeOK, SlowOnlyWhenCovered, lockVars
<1>4. CASE CallbackReturns(d) \/ Recovers(d) \/ Outlives(d)
  <2>1. UNCHANGED coVars /\ up' = up
    BY <1>4 DEF CallbackReturns, Recovers, Outlives, Greeted, Parted, TokenReady,
       AttemptFails, TokenRepaired, CheckFails, Wakes, Lasts
  <2> QED BY <1>2, <2>1 DEF coVars, IInv, TypeOK, PollAlwaysComing, SlowOnlyWhenCovered,
             Quiet, Covered, Polling, TimerFollows, RunningPolls
<1> QED BY <1>3, <1>4 DEF ListenerStep

\* A change of a lock marks the answers that do not know it; no poll ends.
LEMMA ChangeKeepsPolls ==
  ASSUME TypeOK, NEW d \in Datacenters, Changed(d)
  PROVE  /\ polls' \in [Slots -> PollStates] /\ changes' \in Nat
         /\ \A s \in Slots : polls'[s].stage = polls[s].stage
<1> USE DEF TypeOK, Changed, PollStates
<1>1. changes' \in Nat
  OBVIOUS
<1>2. \A s \in Slots : [polls[s] EXCEPT !.knows = @ \ {d}] \in PollStates
  OBVIOUS
<1> QED BY <1>1, <1>2

LEMMA LockStepInv ==
  ASSUME IInv, NEW d \in Datacenters, LockStep(d)
  PROVE  IInv'
<1> USE DEF IInv, TypeOK
<1>1. Changed(d)
  BY DEF LockStep, MoveHeard, MoveMissed, LinkHeard, LinkMissed
<1>2. /\ polls' \in [Slots -> PollStates] /\ changes' \in Nat
      /\ \A s \in Slots : Polling(s)' = Polling(s)
  BY <1>1, ChangeKeepsPolls DEF Polling
<1>3. UNCHANGED rtVars /\ RtTypeOK'
  BY DEF LockStep, MoveHeard, MoveMissed, LinkHeard, LinkMissed, RtTypeOK, rtVars
<1>4. out' \subseteq Datacenters /\ off' \subseteq Datacenters /\ stale' \subseteq Datacenters
  BY DEF LockStep, MoveHeard, MoveMissed, LinkHeard, LinkMissed, Flip
<1>5. CASE Notify
  <2>1. /\ interval' \in {"slow", "fast"} /\ timer' \in {"none", interval'}
        /\ interval' = "slow" => Covered' /\ off' = {}
    BY <1>3, <1>5 DEF Notify, Rate, Covered, rtVars, TimerFollows
  <2>2. /\ debounce' \in {"ready", "running", "cooling", "queued"}
        /\ debounce' = "running" => debounce = "running"
        /\ UNCHANGED <<caller, reauth>> /\ blindly' = FALSE
        /\ timer' = "none" => timer = "none"
    BY <1>5 DEF Notify, Settled, Rate
  <2>3. PollAlwaysComing' /\ RunningPolls'
    BY <1>2, <2>2 DEF PollAlwaysComing, RunningPolls, Slots
  <2> QED BY <1>2, <1>3, <1>4, <2>1, <2>2, <2>3 DEF TimerFollows, SlowOnlyWhenCovered
<1>6. CASE ~Notify
  <2>1. UNCHANGED <<off, interval, timer, debounce, caller, reauth, blindly>>
    BY <1>6 DEF LockStep, MoveHeard, MoveMissed, LinkHeard, LinkMissed
  <2> QED BY <1>2, <1>3, <1>4, <2>1 DEF PollAlwaysComing, RunningPolls, TimerFollows,
             SlowOnlyWhenCovered, Quiet, Covered, rtVars, Slots
<1> QED BY <1>5, <1>6

\* A poll ends with the interval settled, or blindly.
LEMMA PollStepInv ==
  ASSUME IInv, NEW slot \in Slots, PollStep(slot)
  PROVE  IInv'
<1> USE DEF IInv, TypeOK
<1>1. CASE PollAnswered(slot)
  <2>1. [stage |-> "answered", knows |-> Datacenters, out |-> out] \in PollStates
    BY DEF PollStates
  <2>2. polls' \in [Slots -> PollStates] /\ \A s \in Slots : Polling(s)' = Polling(s)
    BY <1>1, <2>1 DEF PollAnswered, Polling
  <2>3. RtTypeOK' /\ UNCHANGED <<interval, timer, debounce, caller, reauth, blindly,
                                 lockVars, up>>
    BY <1>1 DEF PollAnswered, RtTypeOK, rtVars
  <2> QED BY <2>2, <2>3 DEF PollAlwaysComing, RunningPolls, TimerFollows,
             SlowOnlyWhenCovered, Quiet, Covered, lockVars, Slots
<1>2. ASSUME EndPoll(slot)
      PROVE  /\ polls' \in [Slots -> PollStates] /\ RunningPolls'
             /\ debounce' \in {"ready", "running", "cooling", "queued"}
             /\ caller' \in Streams \cup {Nobody}
  <2>1. NoPoll \in PollStates
    BY DEF NoPoll, PollStates
  <2> QED BY <1>2, <2>1 DEF EndPoll, RunningPolls, Polling, Slots
<1>3. CASE PollApplied(slot)
  <2>1. /\ interval' \in {"slow", "fast"} /\ timer' = interval'
        /\ interval' = "slow" => Covered' /\ off' = {}
    BY <1>3 DEF PollApplied, Rate, Covered, rtVars
  <2>2. off' \subseteq Datacenters /\ stale' \subseteq Datacenters
    BY <1>3 DEF PollApplied, PollStates
  <2>3. RtTypeOK' /\ UNCHANGED <<out, changes, reauth>> /\ blindly' = FALSE
    BY <1>3 DEF PollApplied, RtTypeOK, rtVars
  <2> QED BY <1>2, <1>3, <2>1, <2>2, <2>3 DEF PollApplied, PollAlwaysComing, TimerFollows,
             SlowOnlyWhenCovered
<1>4. CASE PollFails(slot) \/ PollRefused(slot)
  <2>1. EndPoll(slot) /\ blindly' /\ UNCHANGED <<interval, lockVars>> /\ RtTypeOK'
    BY <1>4 DEF PollFails, PollRefused, RtTypeOK, rtVars
  <2>2. \/ timer' = interval /\ reauth' = reauth
        \/ timer' = timer /\ reauth' = TRUE
    BY <1>4 DEF PollFails, PollRefused
  <2> QED BY <1>2, <2>1, <2>2 DEF PollAlwaysComing, TimerFollows, SlowOnlyWhenCovered,
             lockVars
<1> QED BY <1>1, <1>3, <1>4 DEF PollStep

\* The timer and the debouncer start polls.
LEMMA TimingInv ==
  ASSUME IInv, TimerFires \/ CoolDownEnds \/ FollowUp
  PROVE  IInv'
<1> USE DEF IInv, TypeOK
<1>1. Asking \in PollStates /\ Asking.stage # "none"
  BY DEF Asking, NoPoll, PollStates
<1>2. CASE FollowUp
  <2>1. RequestRefresh(Nobody) /\ UNCHANGED <<lockVars, rtVars>>
    BY <1>2 DEF FollowUp
  <2> QED BY <2>1, Requested DEF SlowOnlyWhenCovered, lockVars, rtVars, RtTypeOK
<1>3. CASE TimerFires
  <2>1. polls' \in [Slots -> PollStates] /\ Polling("timer")'
        /\ (Polling("request") => Polling("request")')
    BY <1>1, <1>3 DEF TimerFires, StartPoll, Polling, Slots
  <2>2. /\ debounce' \in {"ready", "running", "cooling", "queued"}
        /\ debounce' = "running" => debounce = "running"
    BY <1>3 DEF TimerFires, Settled
  <2> QED BY <1>3, <2>1, <2>2 DEF TimerFires, StartPoll, PollAlwaysComing, RunningPolls,
             TimerFollows, SlowOnlyWhenCovered, Quiet, lockVars, rtVars, RtTypeOK, Slots
<1>4. CASE CoolDownEnds
  <2>1. CASE debounce = "cooling"
    BY <1>4, <2>1 DEF CoolDownEnds, PollAlwaysComing, RunningPolls, TimerFollows, Polling,
       SlowOnlyWhenCovered, Quiet, Covered, lockVars, rtVars, RtTypeOK
  <2>2. CASE debounce = "queued"
    <3>1. polls' \in [Slots -> PollStates] /\ Polling("request")'
      BY <1>1, <1>4, <2>2 DEF CoolDownEnds, StartPoll, Polling, Slots
    <3> QED BY <1>4, <2>2, <3>1 DEF CoolDownEnds, StartPoll, PollAlwaysComing, RunningPolls,
               TimerFollows, SlowOnlyWhenCovered, Quiet, lockVars, rtVars, RtTypeOK, Slots
  <2> QED BY <1>4, <2>1, <2>2 DEF CoolDownEnds
<1> QED BY <1>2, <1>3, <1>4

LEMMA InitInvariant == Init => IInv
<1> SUFFICES ASSUME Init PROVE IInv
  OBVIOUS
<1>1. RtTypeOK
  BY RealtimeAssumption DEF Init, RtInit, RtTypeOK, Places
<1>2. NoPoll \in PollStates
  BY DEF NoPoll, PollStates
<1> QED BY <1>1, <1>2 DEF Init, IInv, TypeOK, PollAlwaysComing, SlowOnlyWhenCovered,
           TimerFollows, RunningPolls

LEMMA NextInvariant ==
  ASSUME IInv, [Next]_vars
  PROVE  IInv'
<1>1. CASE ForeignClient
  <2>1. UNCHANGED coVars /\ up' = up
    BY <1>1 DEF ForeignClient, ForeignLogin
  <2>2. foreign' \in Nat /\ live' \in BOOLEAN /\ UNCHANGED <<pc, up, lasted, delay>>
    <3>1. foreign \in Nat
      BY DEF IInv, TypeOK, RtTypeOK
    <3>2. foreign' \in Nat
      BY <1>1, <3>1 DEF ForeignClient, ForeignLogin
    <3> QED BY <1>1, <3>2 DEF ForeignClient, ForeignLogin
  <2>3. RtTypeOK'
    BY <2>2 DEF IInv, TypeOK, RtTypeOK
  <2> QED BY <2>1, <2>3 DEF coVars, IInv, TypeOK, PollAlwaysComing, SlowOnlyWhenCovered,
             Quiet, Covered, Polling, TimerFollows, RunningPolls
<1>2. CASE UNCHANGED vars
  BY <1>2 DEF vars, IInv, TypeOK, RtTypeOK, PollAlwaysComing, SlowOnlyWhenCovered, Quiet,
     Covered, Polling, TimerFollows, RunningPolls
<1> QED BY <1>1, <1>2, ListenerStepInv, LockStepInv, PollStepInv, TimingInv DEF Next

LEMMA CoordinatorInvariant == Spec => []IInv
BY InitInvariant, NextInvariant, PTL DEF Spec

\* Coordinator.TypeOK holds in every reachable state.
THEOREM CoordinatorTypes == Spec => []TypeOK
<1>1. IInv => TypeOK
  BY DEF IInv
<1> QED BY <1>1, CoordinatorInvariant, PTL

\* There is always a next poll, unless the user has to sign in.
THEOREM PollsGoOn == Spec => []PollAlwaysComing
<1>1. IInv => PollAlwaysComing
  BY DEF IInv
<1> QED BY <1>1, CoordinatorInvariant, PTL

\* Between polls, the slow interval is armed only while sockets carry every lock and
\* none is shown offline.
THEOREM SlowMeansCovered == Spec => []SlowOnlyWhenCovered
<1>1. IInv => SlowOnlyWhenCovered
  BY DEF IInv
<1> QED BY <1>1, CoordinatorInvariant, PTL

\* A listener's delay shrinks only after a session that lasted.
THEOREM ListenersBackOff == Spec => BackoffIsEarned
<1>1. ASSUME IInv, [Next]_vars
      PROVE  [\A d \in Streams :
                delay'[d] < delay[d] => lasted[d] /\ pc'[d] = "sleep"]_rtVars
  <2> SUFFICES ASSUME NEW e \in Streams, delay'[e] < delay[e]
               PROVE  lasted[e] /\ pc'[e] = "sleep"
    OBVIOUS
  <2>1. delay[e] \in ReconnectDelay..ReconnectDelayMax
    BY <1>1 DEF IInv, TypeOK, RtTypeOK
  <2>2. delay' # delay
    BY <2>1, RealtimeAssumption
  <2>3. PICK d \in Streams : ListenerStep(d)
    BY <1>1, <2>2 DEF Next, vars, ForeignClient, ForeignLogin, LockStep, MoveHeard,
       MoveMissed, LinkHeard, LinkMissed, rtVars, TimerFires, FollowUp, CoolDownEnds,
       PollStep, PollAnswered, PollApplied, PollFails, PollRefused
  <2>4. ListenerActs(d)
    BY <2>3 DEF ListenerStep, Connect, ConnectInVain, Disconnect, CallbackReturns, Recovers,
       Outlives, ListenerActs
  <2> QED BY <1>1, <2>4, ListenerBacksOff DEF IInv, TypeOK
<1> QED BY <1>1, CoordinatorInvariant, PTL DEF Spec, BackoffIsEarned
=============================================================================
