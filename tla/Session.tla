------------------------------ MODULE Session ------------------------------
(***************************************************************************)
(* One account session shared by every request: homeaccess/session.py      *)
(* (Account) under homeaccess/transport.py (HttpClient.request).           *)
(*                                                                         *)
(* The cloud keeps one session per account, so every login, ours or        *)
(* another client's, ends the one before.  A session is a number; a token  *)
(* is the number of the session it belongs to, and a tokenset the session  *)
(* and the datacenters it holds a token for.                               *)
(*                                                                         *)
(* A task is one thread of requests on the event loop: a user's commands,  *)
(* or polls and the token checks of the realtime listener.  The cloud does *)
(* not look at the token of a poll (research/FINDINGS.md, Login: device/   *)
(* list is not token-gated), so a poll logs in for a token it can tell has *)
(* expired, and never because one was displaced.                           *)
(*                                                                         *)
(* A request is split at every await: getting a token, waiting for the     *)
(* login lock, the login at the cloud, its reply, saving the state file,   *)
(* the request at the cloud, and its reply.  Between two awaits it runs    *)
(* without interleaving.                                                   *)
(***************************************************************************)
EXTENDS Integers, Sequences, FiniteSets

CONSTANTS Tasks,         \* the concurrent request threads
          Users,         \* the tasks a person waits on (user_initiated)
          Datacenters,   \* datacenters a login may hand out tokens for
          Asked,         \* per task, the datacenter its requests go to
          Interval,      \* RELOGIN_MIN_INTERVAL, in ticks of Second
          MaxSession     \* bound: logins at the cloud, everyone's

ASSUME SessionAssumption ==
  /\ Users \subseteq Tasks
  /\ Asked \in [Tasks -> Datacenters]
  /\ Interval \in Nat \ {0}
  /\ MaxSession \in Nat

NoSession == 0
NoTokens == [session |-> NoSession, dcs |-> {}]
Tokensets == [session : Nat \ {0}, dcs : SUBSET Datacenters]

Waiting == {"queued"}
Holding == {"login", "issued", "saving"}
Steps == {"idle", "token", "sent", "answered"} \cup Waiting \cup Holding

VARIABLES
  cloud,      \* the cloud's live session
  aged,       \* our last session whose tokens we could prove expired (tokens.is_expired)
  ended,      \* the last session the cloud stopped accepting because of its age
  tokenset,   \* Account.tokenset, or NoTokens
  queue,      \* _login_lock: its holder first, then its waiters in FIFO order
  since,      \* time since _last_login_attempt, or Interval if longer or never
  reply,      \* the tokenset in the login reply on its way, or NoTokens
  req         \* what each task is doing

vars == <<cloud, aged, ended, tokenset, queue, since, reply, req>>
cloudVars == <<cloud, aged, ended>>

\* last: a 444 is returned, not answered by a login (a retry, or _reauth=False).
Requests == [pc : Steps, dc : Datacenters, last : BOOLEAN,
             token : Nat, rejected : Nat, ok : BOOLEAN,
             why : {"signin", "expired", "rejected"}]

Idle(dc) == [pc |-> "idle", dc |-> dc, last |-> FALSE, token |-> NoSession,
             rejected |-> NoSession, ok |-> FALSE, why |-> "signin"]

Init ==
  /\ cloud \in {0, 1} /\ cloud <= MaxSession
  /\ aged = NoSession /\ ended = NoSession
  /\ tokenset \in {NoTokens} \cup
       {[session |-> cloud, dcs |-> dcs] : dcs \in SUBSET Datacenters \ {{}}}
  /\ cloud = 0 <=> tokenset = NoTokens
  /\ queue = << >>
  /\ since = Interval
  /\ reply = NoTokens
  /\ req = [p \in Tasks |-> Idle(Asked[p])]

-----------------------------------------------------------------------------
\* tokens.is_expired, for the token of one datacenter: missing, or provably old.
Usable(dc) == /\ tokenset # NoTokens
              /\ dc \in tokenset.dcs
              /\ tokenset.session # aged

\* The cloud accepts a token of the live session until that session ends.
Live(session) == /\ session # NoSession /\ session = cloud
                 /\ session # ended

Set(p, r) == req' = [req EXCEPT ![p] = r]
Goto(p, pc) == Set(p, [req[p] EXCEPT !.pc = pc])

\* asyncio.Lock: FIFO.
Enqueue(p, r) == Set(p, r) /\ queue' = Append(queue, p)
Holds(p) == queue # << >> /\ Head(queue) = p
Release == queue' = Tail(queue)

-----------------------------------------------------------------------------
\* HttpClient.request and Account.async_token_for.

\* A request begins; a fallback route of a command asks for no re-login.
Begin(p) ==
  /\ req[p].pc = "idle"
  /\ \E last \in IF p \in Users THEN BOOLEAN ELSE {FALSE} :
       Set(p, [Idle(req[p].dc) EXCEPT !.pc = "token", !.last = last])
  /\ UNCHANGED <<cloudVars, tokenset, queue, since, reply>>

\* _ensure_logged_in: no tokenset at all, so async_login, which does not look
\* again once it has the lock.
SignIn(p) ==
  /\ req[p].pc = "idle" /\ tokenset = NoTokens
  /\ Enqueue(p, [Idle(req[p].dc) EXCEPT !.pc = "queued", !.why = "signin"])
  /\ UNCHANGED <<cloudVars, tokenset, since, reply>>

\* The token is not provably expired: the request goes out with it.
UseToken(p) ==
  /\ req[p].pc = "token" /\ Usable(req[p].dc)
  /\ Set(p, [req[p] EXCEPT !.pc = "sent", !.token = tokenset.session])
  /\ UNCHANGED <<cloudVars, tokenset, queue, since, reply>>

AskLogin(p) ==
  /\ req[p].pc = "token" /\ ~Usable(req[p].dc)
  /\ Enqueue(p, [req[p] EXCEPT !.pc = "queued", !.why = "expired"])
  /\ UNCHANGED <<cloudVars, tokenset, since, reply>>

-----------------------------------------------------------------------------
\* Under the login lock: async_login, async_relogin, async_token_for, _login.

\* Mutant of Replaced: nobody looks whether the token was renewed meanwhile.
NeverReplaced(rejected) == FALSE

\* Somebody ahead in the lock renewed the token.
Replaced(rejected) == tokenset # NoTokens /\ tokenset.session # rejected

\* Mutant of Renewed: only a request that was rejected looks again.
RenewedIfRejected(p) == req[p].why = "rejected" /\ Replaced(req[p].rejected)

Renewed(p) == \/ req[p].why = "expired" /\ Usable(req[p].dc)
              \/ req[p].why = "rejected" /\ Replaced(req[p].rejected)

Limited(p) == req[p].why = "rejected" /\ p \notin Users /\ since < Interval

\* Mutant of Granted: the lock is not waited for.
GrantedUnlocked(p) == req[p].pc = "queued"

Granted(p) == req[p].pc = "queued" /\ Holds(p)

\* Mutant of UseRenewed: the retry keeps the headers of the first attempt.
UseRenewedOldHeaders(p) ==
  /\ Granted(p) /\ Renewed(p)
  /\ Release
  /\ Goto(p, "sent")
  /\ UNCHANGED <<cloudVars, tokenset, since, reply>>

UseRenewed(p) ==
  /\ Granted(p) /\ Renewed(p)
  /\ Release
  /\ IF req[p].why = "expired"
     THEN Set(p, [req[p] EXCEPT !.pc = "sent", !.token = tokenset.session])
     ELSE Goto(p, "token")
  /\ UNCHANGED <<cloudVars, tokenset, since, reply>>

\* HomeAccessConnectionError: the background re-login is rate-limited.
RateLimited(p) ==
  /\ Granted(p) /\ ~Renewed(p) /\ Limited(p)
  /\ Release
  /\ Set(p, Idle(req[p].dc))
  /\ UNCHANGED <<cloudVars, tokenset, since, reply>>

StartLogin(p) ==
  /\ Granted(p) /\ ~Renewed(p) /\ ~Limited(p)
  /\ since' = 0
  /\ Goto(p, "login")
  /\ UNCHANGED <<cloudVars, tokenset, queue, reply>>

\* The cloud logs us in, for the datacenters it likes.
CloudLogsIn(p) ==
  /\ req[p].pc = "login" /\ cloud < MaxSession
  /\ cloud' = cloud + 1
  /\ \E dcs \in SUBSET Datacenters \ {{}} :
       reply' = [session |-> cloud + 1, dcs |-> dcs]
  /\ Goto(p, "issued")
  /\ UNCHANGED <<aged, ended, tokenset, queue, since>>

\* Mutant of LoginFails: a failed login leaves the lock taken.
LoginFailsLocked(p) ==
  /\ req[p].pc \in {"login", "issued"}
  /\ reply' = NoTokens
  /\ Set(p, Idle(req[p].dc))
  /\ UNCHANGED <<cloudVars, tokenset, queue, since>>

\* Refused, unreachable, unreadable, or the reply is lost: the lock is let go
\* (async with) and the request fails.
LoginFails(p) ==
  /\ req[p].pc \in {"login", "issued"}
  /\ reply' = NoTokens
  /\ Release
  /\ Set(p, Idle(req[p].dc))
  /\ UNCHANGED <<cloudVars, tokenset, since>>

\* The reply arrives: the new tokenset is in use before it is saved.
LoginReply(p) ==
  /\ req[p].pc = "issued"
  /\ tokenset' = reply
  /\ reply' = NoTokens
  /\ Goto(p, "saving")
  /\ UNCHANGED <<cloudVars, queue, since>>

\* The state file is written and the lock is let go; the login's caller goes on
\* with its first request, with the token it came for (or AuthError if the
\* login brought none for its datacenter), or with the retry.
Saved(p) ==
  /\ req[p].pc = "saving"
  /\ Release
  /\ CASE req[p].why = "expired" /\ req[p].dc \in tokenset.dcs ->
            Set(p, [req[p] EXCEPT !.pc = "sent", !.token = tokenset.session])
       [] req[p].why = "expired" /\ req[p].dc \notin tokenset.dcs ->
            Set(p, Idle(req[p].dc))
       [] OTHER -> Goto(p, "token")
  /\ UNCHANGED <<cloudVars, tokenset, since, reply>>

\* Mutant of SaveFails: a failed save leaves the lock taken.
SaveFailsLocked(p) ==
  /\ req[p].pc = "saving"
  /\ Set(p, Idle(req[p].dc))
  /\ UNCHANGED <<cloudVars, tokenset, queue, since, reply>>

SaveFails(p) ==
  /\ req[p].pc = "saving"
  /\ Release
  /\ Set(p, Idle(req[p].dc))
  /\ UNCHANGED <<cloudVars, tokenset, since, reply>>

-----------------------------------------------------------------------------
\* The request at the cloud, and its reply.

\* A command or a token check: the token has to be live.
CloudChecks(p) ==
  /\ req[p].pc = "sent"
  /\ Set(p, [req[p] EXCEPT !.pc = "answered", !.ok = Live(req[p].token)])
  /\ UNCHANGED <<cloudVars, tokenset, queue, since, reply>>

\* A poll: device/list answers a dead token too.
CloudLists(p) ==
  /\ req[p].pc = "sent" /\ p \notin Users
  /\ Set(p, [req[p] EXCEPT !.pc = "answered", !.ok = TRUE])
  /\ UNCHANGED <<cloudVars, tokenset, queue, since, reply>>

CloudServes(p) == CloudChecks(p) \/ CloudLists(p)

\* A timeout or connection error, before or after the cloud saw it.
SendFails(p) ==
  /\ req[p].pc \in {"sent", "answered"}
  /\ Set(p, Idle(req[p].dc))
  /\ UNCHANGED <<cloudVars, tokenset, queue, since, reply>>

\* The request is over: served, or its 444 is the caller's to see.
Finish(p) ==
  /\ req[p].pc = "answered" /\ (req[p].ok \/ req[p].last)
  /\ Set(p, Idle(req[p].dc))
  /\ UNCHANGED <<cloudVars, tokenset, queue, since, reply>>

\* Mutant of Rejected: the retry may be rejected like the first attempt.
RejectedAgain(p) ==
  /\ req[p].pc = "answered" /\ ~req[p].ok /\ ~req[p].last
  /\ Enqueue(p, [req[p] EXCEPT !.pc = "queued", !.why = "rejected",
                               !.rejected = req[p].token])
  /\ UNCHANGED <<cloudVars, tokenset, since, reply>>

\* Mutant of Rejected: the time of the attempt is noted before the limit is looked at.
RejectedNoted(p) ==
  /\ req[p].pc = "answered" /\ ~req[p].ok /\ ~req[p].last
  /\ Enqueue(p, [req[p] EXCEPT !.pc = "queued", !.why = "rejected", !.last = TRUE,
                               !.rejected = req[p].token])
  /\ since' = 0
  /\ UNCHANGED <<cloudVars, tokenset, reply>>

\* A 444: re-login with the rejected token in hand, then retry once.
Rejected(p) ==
  /\ req[p].pc = "answered" /\ ~req[p].ok /\ ~req[p].last
  /\ Enqueue(p, [req[p] EXCEPT !.pc = "queued", !.why = "rejected", !.last = TRUE,
                               !.rejected = req[p].token])
  /\ UNCHANGED <<cloudVars, tokenset, since, reply>>

-----------------------------------------------------------------------------
\* The rest of the world.

\* The phone app, or a config flow's own account object, logs in.
ForeignLogin ==
  /\ cloud < MaxSession
  /\ cloud' = cloud + 1
  /\ UNCHANGED <<aged, ended, tokenset, queue, since, reply, req>>

\* Our token reaches its expiry less the margin, as our clock sees it.
Ages ==
  /\ tokenset # NoTokens
  /\ aged' = tokenset.session
  /\ UNCHANGED <<cloud, ended, tokenset, queue, since, reply, req>>

\* The cloud's session reaches its end.
Ends ==
  /\ cloud # NoSession
  /\ ended' = cloud
  /\ UNCHANGED <<cloud, aged, tokenset, queue, since, reply, req>>

\* Mutant of Second: the time since the last attempt is one off at the limit.
SecondTooMany ==
  /\ since <= Interval
  /\ since' = since + 1
  /\ UNCHANGED <<cloudVars, tokenset, queue, reply, req>>

Second ==
  /\ since < Interval
  /\ since' = since + 1
  /\ UNCHANGED <<cloudVars, tokenset, queue, reply, req>>

\* What a request does once begun.
Proceed(p) ==
  \/ UseToken(p) \/ AskLogin(p)
  \/ UseRenewed(p) \/ RateLimited(p) \/ StartLogin(p)
  \/ CloudLogsIn(p) \/ LoginFails(p) \/ LoginReply(p) \/ Saved(p) \/ SaveFails(p)
  \/ CloudServes(p) \/ SendFails(p) \/ Finish(p) \/ Rejected(p)

Next ==
  \/ \E p \in Tasks : Begin(p) \/ SignIn(p) \/ Proceed(p)
  \/ ForeignLogin \/ Ages \/ Ends \/ Second

Spec == Init /\ [][Next]_vars

\* The event loop runs every ready task, and every HTTP call ends (aiohttp's
\* total timeout); the lock itself is FIFO.
FairSpec == Spec /\ \A p \in Tasks : WF_vars(Proceed(p))

\* In addition token checks keep coming and reach the cloud, as they do while a socket
\* is refused (realtime.py listen), time passes, and neither re-logins nor logins fail
\* for ever.  Nothing is asked of polls and of users.
KeepTrying ==
  /\ WF_vars(Second)
  /\ \A p \in Tasks \ Users : WF_vars(Begin(p))
  /\ SF_vars(\E p \in Tasks \ Users : CloudChecks(p))
  /\ SF_vars(\E p \in Tasks \ Users : Rejected(p))
  /\ SF_vars(\E p \in Tasks : CloudLogsIn(p))
  /\ SF_vars(\E p \in Tasks : LoginReply(p))

-----------------------------------------------------------------------------
\* Properties.

TypeOK ==
  /\ cloud \in Nat /\ aged \in Nat /\ ended \in Nat
  /\ tokenset \in Tokensets \cup {NoTokens}
  /\ queue \in Seq(Tasks)
  /\ since \in 0..Interval
  /\ reply \in Tokensets \cup {NoTokens}
  /\ req \in [Tasks -> Requests]

\* However many requests a displaced token fails at once, a login driven by a
\* rejection never ends a live session of our own: by then either nobody has
\* renewed it, or the renewal is used instead (session.py async_relogin,
\* "one login serves every request that failed with the same token").
NoSelfDisplacement ==
  \A p \in Tasks :
    req[p].pc = "login" /\ req[p].why = "rejected" => ~Live(tokenset.session)

\* A retry never goes out with the token that was rejected, whoever logged in
\* meanwhile (transport.py request: the token is fetched again after reauth).
RetryIsFresh ==
  \A p \in Tasks : req[p].pc = "sent" => req[p].token > req[p].rejected

\* A login is only ever in progress at one task, the holder of the lock, and no
\* task waits for the lock twice.
OneLoginAtATime ==
  /\ \A p \in Tasks : req[p].pc \in Holding => Holds(p)
  /\ \A i, j \in 1..Len(queue) : queue[i] = queue[j] => i = j

\* Every request ends, in success, a refusal or an error: no failure of a login
\* or of saving leaves the login lock taken (session.py: async with).
EveryRequestEnds == \A p \in Tasks : req[p].pc # "idle" ~> req[p].pc = "idle"

\* After a displacement the session comes back, though no user does anything and the
\* polls notice nothing: the listener's token checks do ("this both detects and repairs
\* a session another login displaced", api.py async_check_token), and the rate limit,
\* which they meet more often than not, delays their re-login but never shuts it out
\* (session.py RELOGIN_MIN_INTERVAL).
SessionRecovers == KeepTrying => []<>(cloud = MaxSession \/ Live(tokenset.session))

\* A request takes its steps in one direction: where it stands, a sign-in first, then
\* an attempt, a re-login, a retry.  Nothing sends it back, so it cannot go round in
\* 444s and logins, and ends within a fixed number of steps whatever the cloud, the
\* lock and other tasks do (transport.py request: "retry once").
Stage(r) ==
  CASE r.pc \in Waiting \cup Holding /\ r.why = "signin" -> 3
    [] ~(r.pc \in Waiting \cup Holding /\ r.why = "signin") /\ ~r.last -> 2
    [] r.pc \in Waiting \cup Holding /\ r.why = "rejected" /\ r.last -> 1
    [] OTHER -> 0

Place == [idle |-> 0, answered |-> 1, sent |-> 2, saving |-> 3, issued |-> 4,
          login |-> 5, queued |-> 6, token |-> 7]

Rank(r) == IF r.pc = "idle" THEN 0 ELSE 10 * Stage(r) + Place[r.pc]

NoRetryLoop ==
  [][\A p \in Tasks : req[p].pc # "idle" /\ req'[p] # req[p] => Rank(req'[p]) < Rank(req[p])]_vars

\* The strengthening that makes the invariants above inductive.
\* What one task relies on, wherever it stands in its request.
TaskInv(p) ==
  LET r == req[p]
      mine == tokenset.session
  IN  /\ r.rejected <= mine /\ r.token <= mine
      /\ r.pc = "idle" => r.rejected = NoSession
      /\ r.pc \in Waiting \cup Holding /\ r.why = "signin" => r.rejected = NoSession
      /\ r.pc = "token" \/ (r.pc \in Waiting \cup Holding /\ r.why = "expired")
           => r.rejected = NoSession \/ r.rejected < mine
      /\ r.pc \in {"sent", "answered"} => r.token > r.rejected
      /\ r.pc = "answered" /\ ~r.ok => ~Live(r.token)
      /\ r.pc \in {"queued", "login"} /\ r.why = "rejected" =>
           r.rejected # NoSession /\ ~Live(r.rejected)
      /\ r.pc = "login" /\ r.why = "rejected" => r.rejected = mine
      /\ r.pc = "issued" => reply # NoTokens
      /\ r.pc = "saving" => tokenset # NoTokens /\ (r.why = "rejected" => r.rejected < mine)

\* What a second attempt relies on: the session of the first stays dead, and the reason
\* for a login still holds when it is made.
OnceMore(p) ==
  LET r == req[p]
  IN  /\ r.rejected # NoSession => ~Live(r.rejected)
      /\ r.rejected # NoSession \/ r.why = "rejected" => r.last
      /\ r.pc \notin {"sent", "answered"} => r.token = r.rejected
      /\ r.pc = "login" /\ r.why = "expired" => ~Usable(r.dc)

\* The lock queue holds exactly the tasks that wait for the lock or hold it.
QueueInv ==
  /\ OneLoginAtATime
  /\ \A p \in Tasks : req[p].pc \in Waiting \cup Holding
                      <=> \E i \in 1..Len(queue) : queue[i] = p

\* Sessions only move forward: ours is never ahead of the cloud's, and a reply
\* on its way brings a newer one.
SessionsOrdered ==
  /\ tokenset.session <= cloud
  /\ reply # NoTokens => reply.session > tokenset.session /\ reply.session <= cloud

\* A reply on its way is awaited, so that no login starts while one is.
ReplyAwaited == reply # NoTokens => \E p \in Tasks : req[p].pc = "issued"

\* The inductive invariant: sessions only move forward, the lock queue is exact,
\* and a rejected token stays rejected (session.py Account, transport.py request).
IInv ==
  /\ TypeOK /\ QueueInv /\ SessionsOrdered /\ ReplyAwaited
  /\ \A p \in Tasks : TaskInv(p) /\ OnceMore(p)

-----------------------------------------------------------------------------
\* The abstract account, as this system implements it.

\* The sessions a request has been sent with.
SentWith(r) == {r.token, r.rejected} \ {NoSession}
Used == [p \in Tasks |-> SentWith(req[p])]

\* A request waits to log in because there was no session when it began.
SignsIn(r) == r.pc \in {"queued", "login"} /\ r.why = "signin"
Asking == {p \in Tasks : SignsIn(req[p])}

Account == INSTANCE SharedAccount WITH
  Clients <- Tasks,
  mine    <- tokenset,
  coming  <- reply,
  asking  <- Asking,
  used    <- Used

\* Behind all its awaits the session is that account: one login at a time, each for a
\* reason that still holds when it is made, and no request sent more than twice or
\* again with the session that was refused ("one login serves every request that
\* failed with the same token", session.py async_relogin; async_token_for; transport.py
\* request).
ImplementsAccount == Account!Spec
=============================================================================
