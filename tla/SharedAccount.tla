--------------------------- MODULE SharedAccount ---------------------------
(***************************************************************************)
(* What an account session promises the requests that share it, whatever   *)
(* the order of locks, logins and replies behind it (homeaccess/session.py *)
(* and transport.py).                                                      *)
(*                                                                         *)
(* The cloud keeps one session per account, and every login ends the one   *)
(* before.  A client's request is sent with our session, and once more     *)
(* with a newer one if the first has died meanwhile; never a third time.   *)
(* We log in, one login at a time, only for a reason: our session is dead  *)
(* or provably old, it has no token for some datacenter, or the client     *)
(* asked when there was no session at all.                                 *)
(***************************************************************************)
EXTENDS Integers

CONSTANTS Clients,      \* those who make requests
          Datacenters   \* what a login may hand out tokens for

VARIABLES
  cloud,    \* the cloud's live session
  ended,    \* the last session the cloud stopped accepting because of its age
  aged,     \* our last session whose tokens were provably old
  mine,     \* our session, and the datacenters it has a token for
  coming,   \* the session a login's reply brings, or NoTokens
  asking,   \* the clients that asked to sign in while there was no session
  used      \* per client, the sessions its request has been sent with

vars == <<cloud, ended, aged, mine, coming, asking, used>>

NoTokens == [session |-> 0, dcs |-> {}]

Live(session) == session # 0 /\ session = cloud /\ session # ended

Init ==
  /\ cloud \in Nat /\ mine.session = cloud
  /\ ended = 0 /\ aged = 0 /\ coming = NoTokens /\ asking = {}
  /\ used = [c \in Clients |-> {}]

\* A request goes out: the first time, or again because its session died.
Send(c) ==
  /\ mine # NoTokens
  /\ \A s \in used[c] : used[c] = {s} /\ ~Live(s) /\ s < mine.session
  /\ used' = [used EXCEPT ![c] = @ \cup {mine.session}]
  /\ UNCHANGED <<cloud, ended, aged, mine, coming, asking>>

\* A request is over, served or not.
Over(c) ==
  /\ used' = [used EXCEPT ![c] = {}]
  /\ asking' = asking \ {c}
  /\ UNCHANGED <<cloud, ended, aged, mine, coming>>

\* It is over with the login made for it, whose reply is lost.
Lost(c) ==
  /\ coming' = NoTokens
  /\ used' = [used EXCEPT ![c] = {}]
  /\ asking' = asking \ {c}
  /\ UNCHANGED <<cloud, ended, aged, mine>>

Ask(c) ==
  /\ mine = NoTokens
  /\ asking' = asking \cup {c}
  /\ UNCHANGED <<cloud, ended, aged, mine, coming, used>>

Reason(c) == \/ ~Live(mine.session) \/ mine.session = aged
             \/ mine.dcs # Datacenters
             \/ c \in asking

Login(c) ==
  /\ Reason(c) /\ coming = NoTokens
  /\ cloud' = cloud + 1
  /\ \E dcs \in SUBSET Datacenters : coming' = [session |-> cloud + 1, dcs |-> dcs]
  /\ asking' = asking \ {c}
  /\ UNCHANGED <<ended, aged, mine, used>>

\* The session logged in becomes ours.
Adopt ==
  /\ coming.session > mine.session
  /\ mine' = coming /\ coming' = NoTokens
  /\ UNCHANGED <<cloud, ended, aged, asking, used>>

\* The rest of the world: another client of the account, and time.
Foreign == cloud' = cloud + 1 /\ UNCHANGED <<ended, aged, mine, coming, asking, used>>

Ages ==
  /\ aged' = mine.session
  /\ UNCHANGED <<cloud, ended, mine, coming, asking, used>>

Ends ==
  /\ ended' = cloud
  /\ UNCHANGED <<cloud, aged, mine, coming, asking, used>>

Next ==
  \/ \E c \in Clients : Send(c) \/ Over(c) \/ Lost(c) \/ Ask(c) \/ Login(c)
  \/ Adopt \/ Foreign \/ Ages \/ Ends

Spec == Init /\ [][Next]_vars
=============================================================================
