------------------------------ MODULE Command ------------------------------
(***************************************************************************)
(* A user's commands to one lock: lock.py (PhilipsLock._command) over      *)
(* homeaccess/api.py (HomeAccess._command) and the lock's tracker.         *)
(*                                                                         *)
(* A command marks the lock pending at once, is sent along one route after *)
(* another until the cloud accepts it or refuses it for good, and leaves   *)
(* behind the timers that give up on it and, if no WebSocket covers the    *)
(* lock, the polls that confirm it.  Commands may overlap.  Frames are     *)
(* delivered in order here; LockStream has the order they may really take. *)
(***************************************************************************)
EXTENDS LockTracker, FiniteSets, SequencesExt

CONSTANTS Commands,      \* calls of the lock entity's services
          Fallbacks,     \* the routes after the lock's own, in order
          FollowUps,     \* FOLLOW_UP_REFRESHES
          Covers,        \* may a WebSocket cover the lock? a set of BOOLEANs
          Escapes,       \* may an error escape that is no HomeAccessError?
          MaxFrames,     \* bound: frames heard
          MaxClock       \* bound: the clock

Home == "home"
Routes == {Home} \cup Range(Fallbacks)
NoRoute == "none"

ASSUME CommandAssumption ==
  /\ Fallbacks \in Seq(Range(Fallbacks)) /\ IsInjective(Fallbacks)
  /\ Home \notin Range(Fallbacks) /\ NoRoute \notin Range(Fallbacks)
  /\ IsFiniteSet(FollowUps) /\ FollowUps \subseteq Nat
  /\ Covers \subseteq BOOLEAN
  /\ Escapes \in BOOLEAN
  /\ MaxFrames \in Nat /\ MaxClock \in Nat

VARIABLES
  bolt,      \* where the bolt is, in truth
  asked,     \* the accepted commands the lock has not acted on, as bolt states
  covered,   \* ws_covers_lock
  clock,     \* time.monotonic, in seconds
  frames,    \* frames heard so far
  tr,        \* the lock's tracker
  learned,   \* _command_routes: the fallback that worked last, or NoRoute
  cmd,       \* what each command is doing
  timers     \* async_call_later: when, and what for

vars == <<bolt, asked, covered, clock, frames, tr, learned, cmd, timers>>

\* tried: the routes so far; final: the lock's own host has refused in JSON.
Calls == [pc : {"idle", "send", "sent", "refused", "unreachable", "crashed"},
          target : BoltStates, todo : Seq(Routes), tried : Seq(Routes),
          final : BOOLEAN]
Idle == [pc |-> "idle", target |-> "locked", todo |-> << >>, tried |-> << >>,
         final |-> FALSE]
Timers == [at : Nat, what : {"expire", "poll"}]

Init ==
  /\ bolt \in BoltStates /\ asked = {}
  /\ covered \in Covers
  /\ clock = 0 /\ frames = 0
  /\ tr = NewTracker([bolt |-> bolt, door |-> None, battery |-> NoBattery,
                      online |-> TRUE])
  /\ learned = NoRoute
  /\ cmd = [c \in Commands |-> Idle]
  /\ timers = {}

-----------------------------------------------------------------------------
\* lock.py _command, and api.py _command inside it.

\* Mutant of RoutesNow: the learned route is not taken out of the rest.
RoutesAgain == IF learned = NoRoute THEN << Home >> \o Fallbacks
               ELSE << learned, Home >> \o Fallbacks

\* The learned route first, then the lock's own, then the other fallbacks (no
\* route comes up twice among them).
RoutesNow ==
  LET all == << Home >> \o Fallbacks
  IN  IF learned = NoRoute THEN all
      ELSE << learned >> \o RemoveAt(all, CHOOSE i \in DOMAIN all : all[i] = learned)

Call(c) ==
  /\ cmd[c].pc = "idle"
  /\ \E target \in BoltStates :
       /\ tr' = SetPending(tr, Request(target), clock)
       /\ cmd' = [cmd EXCEPT ![c] = [Idle EXCEPT !.pc = "send", !.target = target,
                                                 !.todo = RoutesNow]]
  /\ UNCHANGED <<bolt, asked, covered, clock, frames, learned, timers>>

Ends(c, pc) == [cmd[c] EXCEPT !.pc = pc, !.todo = Tail(@),
                              !.tried = Append(@, Head(cmd[c].todo))]

\* The first route of a call: the one learned when it began, or the lock's own.
FirstRoute(c) == Head(cmd[c].tried \o cmd[c].todo)

\* Code 200: a fallback that worked is learned, unless it was when the call began;
\* the timers are set.
Accepted(c) ==
  LET route == Head(cmd[c].todo)
  IN  /\ cmd[c].pc = "send"
      /\ cmd' = [cmd EXCEPT ![c] = Ends(c, "sent")]
      /\ asked' = asked \cup {cmd[c].target}
      /\ learned' = IF route \in {Home, FirstRoute(c)} THEN learned ELSE route
      /\ timers' = timers
           \cup {[at |-> clock + PendingTimeout + 1, what |-> "expire"]}
           \cup (IF covered THEN {}
                 ELSE {[at |-> clock + delay, what |-> "poll"] : delay \in FollowUps})
      /\ UNCHANGED <<bolt, covered, clock, frames, tr>>

\* A reply that is not JSON, or a fallback's refusal, moves on to the next route.
NextRoute(c) ==
  /\ cmd[c].pc = "send" /\ Len(cmd[c].todo) > 1
  /\ cmd' = [cmd EXCEPT ![c] = Ends(c, "send")]
  /\ UNCHANGED <<bolt, asked, covered, clock, frames, tr, learned, timers>>

\* CommandError: a JSON refusal by the lock's own host is final, and so is any
\* failure of the last route.
Refused(c) ==
  LET final == Head(cmd[c].todo) = Home
  IN  /\ cmd[c].pc = "send"
      /\ final \/ Len(cmd[c].todo) = 1
      /\ \E json \in BOOLEAN :
           /\ json \/ Len(cmd[c].todo) = 1
           /\ cmd' = [cmd EXCEPT ![c] = [Ends(c, "refused") EXCEPT !.final = final /\ json]]
      /\ tr' = SetPending(tr, None, 0)
      /\ UNCHANGED <<bolt, asked, covered, clock, frames, learned, timers>>

\* Mutant of Unreachable: a connection error leaves the command shown.
UnreachableStillShown(c) ==
  /\ cmd[c].pc = "send"
  /\ cmd' = [cmd EXCEPT ![c] = Ends(c, "unreachable")]
  /\ \E taken \in BOOLEAN :
       asked' = IF taken THEN asked \cup {cmd[c].target} ELSE asked
  /\ UNCHANGED <<bolt, covered, clock, frames, tr, learned, timers>>

\* A connection error, before or after the cloud took the command.
Unreachable(c) ==
  /\ cmd[c].pc = "send"
  /\ cmd' = [cmd EXCEPT ![c] = Ends(c, "unreachable")]
  /\ \E taken \in BOOLEAN :
       asked' = IF taken THEN asked \cup {cmd[c].target} ELSE asked
  /\ tr' = SetPending(tr, None, 0)
  /\ UNCHANGED <<bolt, covered, clock, frames, learned, timers>>

\* A timeout, or the KeyError of a lock no longer listed, is not caught.
Crashes(c) ==
  /\ Escapes /\ cmd[c].pc = "send"
  /\ cmd' = [cmd EXCEPT ![c] = Ends(c, "crashed")]
  /\ UNCHANGED <<bolt, asked, covered, clock, frames, tr, learned, timers>>

-----------------------------------------------------------------------------
\* Timers, polls and frames.

Due(what) == {t \in timers : t.at = clock /\ t.what = what}

\* coordinator.expire_pending
Expires ==
  \E t \in Due("expire") :
    /\ tr' = ExpirePending(tr, clock)
    /\ timers' = timers \ {t}
    /\ UNCHANGED <<bolt, asked, covered, clock, frames, learned, cmd>>

Answer == [bolt |-> bolt, door |-> None, battery |-> NoBattery, online |-> TRUE]

FollowUpFires ==
  \E t \in Due("poll") :
    /\ tr' = ApplyPoll(tr, Answer, clock)
    /\ timers' = timers \ {t}
    /\ UNCHANGED <<bolt, asked, covered, clock, frames, learned, cmd>>

Poll ==
  /\ tr' = ApplyPoll(tr, Answer, clock)
  /\ UNCHANGED <<bolt, asked, covered, clock, frames, learned, cmd, timers>>

\* A frame is heard if a WebSocket covers the lock.
Hear(kind, state) ==
  IF covered
  THEN /\ frames < MaxFrames /\ frames' = frames + 1
       /\ tr' = Apply(tr, [kind |-> kind, state |-> state, battery |-> NoBattery,
                           ts |-> clock, mid |-> frames + 1], clock)
  ELSE UNCHANGED <<frames, tr>>

\* The lock acts on a command; a jammed one never does.
Actuates ==
  \E target \in asked :
    /\ asked' = asked \ {target}
    /\ bolt' = target
    /\ IF target = bolt THEN UNCHANGED <<frames, tr>> ELSE Hear("lock", target)
    /\ UNCHANGED <<covered, clock, learned, cmd, timers>>

SocketFlips ==
  /\ covered' \in Covers
  /\ UNCHANGED <<bolt, asked, clock, frames, tr, learned, cmd, timers>>

\* No second passes over a timer that is due.
Tick ==
  /\ clock < MaxClock
  /\ \A t \in timers : t.at > clock
  /\ clock' = clock + 1
  /\ UNCHANGED <<bolt, asked, covered, frames, tr, learned, cmd, timers>>

Next ==
  \/ \E c \in Commands : Call(c) \/ Accepted(c) \/ NextRoute(c) \/ Refused(c)
                         \/ Unreachable(c) \/ Crashes(c)
  \/ Expires \/ FollowUpFires \/ Poll
  \/ Actuates \/ SocketFlips \/ Tick

Spec == Init /\ [][Next]_vars

\* Time passes, timers fire, and the safety-net poll comes round for ever.
FairSpec == /\ Spec
            /\ WF_vars(Tick) /\ WF_vars(Expires) /\ WF_vars(FollowUpFires)
            /\ WF_vars(Poll)

-----------------------------------------------------------------------------
\* Properties.

TypeOK ==
  /\ bolt \in BoltStates /\ asked \subseteq BoltStates
  /\ covered \in BOOLEAN
  /\ clock \in Nat /\ frames \in Nat
  /\ tr \in Trackers
  /\ learned \in Routes \cup {NoRoute}
  /\ cmd \in [Commands -> Calls]
  /\ timers \subseteq Timers

InFlight == \E c \in Commands : cmd[c].pc = "send"

\* However commands overlap, fail and are confirmed, whatever the entity shows
\* as in flight is in flight or has a timer armed that will give up on it: a
\* jammed bolt never spins for ever (lock.py _command, tracker.py
\* PENDING_TIMEOUT).  A command ended by an error nobody catches is excused: see
\* PendingIsGivenUp.
PendingIsWatched ==
  tr.pending # None => \/ InFlight \/ \E c \in Commands : cmd[c].pc = "crashed"
                       \/ \E t \in timers : t.what = "expire"
                                            /\ t.at >= tr.since + PendingTimeout

\* The same without the excuse, as tracker.py says it of every pending command:
\* one "that no event or poll has confirmed in this long is given up on".
PendingIsGivenUp ==
  tr.pending # None => InFlight \/ clock <= tr.since + PendingTimeout + 1

\* In the end every pending command is confirmed or given up on, by the poll if
\* not by a timer (as far as the bounded clock lets it: tracker.py apply_poll).
PendingEnds ==
  tr.pending # None ~> tr.pending = None \/ tr.since + PendingTimeout > MaxClock

Supersedes(c) == /\ cmd[c].pc = "idle" /\ cmd'[c].pc = "send"
                 /\ Request(cmd'[c].target) # tr.pending
Fails(c) == cmd[c].pc = "send" /\ cmd'[c].pc \in {"refused", "unreachable"}

\* What is shown as in flight stays shown until it is settled: by the bolt at its
\* target, a lock record heard, PENDING_TIMEOUT since it was marked, a call for the
\* opposite, or a call that fails.  No poll that finds the bolt where it was, and no
\* timer that an earlier call left behind, takes it off before that, and to ask for
\* the same again does not make it last longer (tracker.py set_pending,
\* expire_pending, apply_poll; lock.py _command).
ShownUntilSettled ==
  [][tr.pending # None /\ (tr'.pending # tr.pending \/ tr'.since # tr.since)
       => \/ tr'.bolt = Target(tr.pending)
          \/ frames' # frames
          \/ clock >= tr.since + PendingTimeout
          \/ \E c \in Commands : Supersedes(c) \/ Fails(c)]_vars

\* A command is refused only when the lock's own host says no or when every
\* route has failed, each tried once, whatever another command has taught us
\* meanwhile (api.py _command, "a JSON refusal from the lock's own host is
\* final").
EveryRouteTried ==
  \A c \in Commands :
    /\ IsInjective(cmd[c].tried)
    /\ cmd[c].pc = "refused" => cmd[c].final \/ Range(cmd[c].tried) = Routes
=============================================================================
