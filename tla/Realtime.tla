------------------------------ MODULE Realtime ------------------------------
(***************************************************************************)
(* The realtime listeners: homeaccess/realtime.py (Realtime.listen), one   *)
(* endless task per datacenter that has a WebSocket.                       *)
(*                                                                         *)
(* The loop is split at its awaits: getting the token, the handshake, the  *)
(* on_connect callback, the stream, the on_disconnect callback, the token  *)
(* check, and the sleep before the next attempt.  The callbacks belong to  *)
(* the coordinator (module Coordinator); here each just takes its time.    *)
(*                                                                         *)
(* The account's token is live or displaced: another client's login        *)
(* displaces it, and only a request the cloud answers with 444 gets a new  *)
(* one (module Session): the token check, never a poll, whose device/list  *)
(* is served without a look at the token.                                  *)
(***************************************************************************)
EXTENDS Integers

CONSTANTS Streams,            \* the datacenters that have a listener
          ReconnectDelay,     \* RECONNECT_DELAY
          ReconnectDelayMax,  \* RECONNECT_DELAY_MAX
          MaxForeign          \* bound: logins of other clients

ASSUME RealtimeAssumption ==
  /\ ReconnectDelay \in Nat \ {0}
  /\ ReconnectDelayMax \in Nat /\ ReconnectDelay <= ReconnectDelayMax
  /\ MaxForeign \in Nat

VARIABLES
  pc,       \* where each listener stands
  up,       \* Realtime.connected
  lasted,   \* did this attempt's socket open STABLE_AFTER ago or earlier?
  delay,    \* the reconnect delay
  live,     \* is the account's token the cloud's current session?
  foreign   \* logins of other clients so far

rtVars == <<pc, up, lasted, delay, live, foreign>>

\* closed: in on_connect, on a socket the server has closed.
Places == {"token", "handshake", "on_connect", "closed", "stream", "on_disconnect",
           "check", "sleep"}

RtInit ==
  /\ pc = [d \in Streams |-> "token"]
  /\ up = [d \in Streams |-> FALSE]
  /\ lasted = [d \in Streams |-> FALSE]
  /\ delay = [d \in Streams |-> ReconnectDelay]
  /\ live = TRUE /\ foreign = 0

Goto(d, place) == pc' = [pc EXCEPT ![d] = place]

\* async_token_for: only a provably expired token is renewed here, so the token
\* may be one another login displaced.
TokenReady(d) ==
  /\ pc[d] = "token"
  /\ Goto(d, "handshake")
  /\ UNCHANGED <<up, lasted, delay, live, foreign>>

\* Mutant of AttemptFails: a refused handshake is retried with the same token.
AttemptFailsUnchecked(d) ==
  /\ pc[d] \in {"token", "handshake"}
  /\ Goto(d, "sleep")
  /\ UNCHANGED <<up, lasted, delay, live, foreign>>

\* The token cannot be had, or the handshake fails; a displaced token is refused.
AttemptFails(d) ==
  /\ pc[d] \in {"token", "handshake"}
  /\ Goto(d, "check")
  /\ UNCHANGED <<up, lasted, delay, live, foreign>>

Connects(d) ==
  /\ pc[d] = "handshake" /\ live
  /\ Goto(d, "on_connect")
  /\ up' = [up EXCEPT ![d] = TRUE]
  /\ UNCHANGED <<lasted, delay, live, foreign>>

\* A displaced token may be let in, only to be closed at once.
ConnectsInVain(d) ==
  /\ pc[d] = "handshake" /\ ~live
  /\ Goto(d, "closed")
  /\ up' = [up EXCEPT ![d] = TRUE]
  /\ UNCHANGED <<lasted, delay, live, foreign>>

\* on_connect returns.
Greeted(d) ==
  /\ pc[d] = "on_connect"
  /\ Goto(d, "stream")
  /\ UNCHANGED <<up, lasted, delay, live, foreign>>

\* STABLE_AFTER passes since the socket opened; the callbacks' time counts too.
Lasts(d) ==
  /\ pc[d] \in {"on_connect", "closed", "stream", "on_disconnect"}
  /\ ~lasted[d]
  /\ lasted' = [lasted EXCEPT ![d] = TRUE]
  /\ UNCHANGED <<pc, up, delay, live, foreign>>

\* The server hangs up, the network breaks, or on_event raises.
Drops(d) ==
  /\ pc[d] \in {"stream", "closed"}
  /\ Goto(d, "on_disconnect")
  /\ up' = [up EXCEPT ![d] = FALSE]
  /\ UNCHANGED <<lasted, delay, live, foreign>>

\* Mutant of Parted: any connection resets the delay.
PartedReset(d) ==
  /\ pc[d] = "on_disconnect"
  /\ Goto(d, IF lasted[d] THEN "sleep" ELSE "check")
  /\ delay' = [delay EXCEPT ![d] = ReconnectDelay]
  /\ UNCHANGED <<up, lasted, live, foreign>>

\* on_disconnect returns: a session that lasted resets the delay, a shorter one
\* has its token checked.
Parted(d) ==
  /\ pc[d] = "on_disconnect"
  /\ IF lasted[d]
     THEN Goto(d, "sleep") /\ delay' = [delay EXCEPT ![d] = ReconnectDelay]
     ELSE Goto(d, "check") /\ UNCHANGED delay
  /\ UNCHANGED <<up, lasted, live, foreign>>

\* check_token: a 444 is answered with a re-login, unless that fails or is
\* rate-limited; its failures are swallowed.
TokenRepaired(d) ==
  /\ pc[d] = "check"
  /\ Goto(d, "sleep")
  /\ live' = TRUE
  /\ UNCHANGED <<up, lasted, delay, foreign>>

CheckFails(d) ==
  /\ pc[d] = "check"
  /\ Goto(d, "sleep")
  /\ UNCHANGED <<up, lasted, delay, live, foreign>>

\* Mutant of DoubledDelay: no cap.
DelayUncapped(t) == 2 * t

DoubledDelay(t) == IF 2 * t < ReconnectDelayMax THEN 2 * t ELSE ReconnectDelayMax

Wakes(d) ==
  /\ pc[d] = "sleep"
  /\ Goto(d, "token")
  /\ delay' = [delay EXCEPT ![d] = DoubledDelay(@)]
  /\ lasted' = [lasted EXCEPT ![d] = FALSE]
  /\ UNCHANGED <<up, live, foreign>>

ForeignLogin ==
  /\ foreign < MaxForeign
  /\ foreign' = foreign + 1
  /\ live' = FALSE
  /\ UNCHANGED <<pc, up, lasted, delay>>

-----------------------------------------------------------------------------
\* Types, and the bounds of the backoff.
RtTypeOK ==
  /\ pc \in [Streams -> Places]
  /\ up \in [Streams -> BOOLEAN]
  /\ lasted \in [Streams -> BOOLEAN]
  /\ delay \in [Streams -> ReconnectDelay..ReconnectDelayMax]
  /\ live \in BOOLEAN
  /\ foreign \in Nat

\* Every listener always comes back to a socket that carries events, whoever displaced
\* its token and however that fails: no failure ends the loop, and a displaced token is
\* replaced long before it expires (realtime.py listen, the check_token comment).  But
\* callbacks that take STABLE_AFTER make a session that lasted of a socket closed at
\* once, whose token is not checked: while that goes on, nothing is promised.
RealtimeReturns ==
  \A d \in Streams : []<>((up[d] /\ pc[d] # "closed") \/ lasted[d])

\* The delay shrinks only after a session that lasted, so an endpoint that
\* accepts and drops us at once is never retried faster than one that refuses
\* (realtime.py "A failing re-login must not hammer the cloud").
BackoffIsEarned ==
  [][\A d \in Streams :
       delay'[d] < delay[d] => lasted[d] /\ pc'[d] = "sleep"]_rtVars
=============================================================================
