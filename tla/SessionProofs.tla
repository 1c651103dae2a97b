--------------------------- MODULE SessionProofs ---------------------------
(***************************************************************************)
(* The session's safety for any set of tasks, of users among them and of   *)
(* datacenters, any rate limit and any number of logins.                   *)
(***************************************************************************)
EXTENDS Session, TLAPS

\* The names of a request's fields, for a request in its type.
LEMMA RequestFields ==
  ASSUME NEW r \in Requests
  PROVE  /\ r.pc \in Steps /\ r.dc \in Datacenters /\ r.last \in BOOLEAN
         /\ r.token \in Nat /\ r.rejected \in Nat /\ r.ok \in BOOLEAN
         /\ r.why \in {"signin", "expired", "rejected"}
BY DEF Requests

\* The inductive invariant but for the second attempts, which rest on it.
Base == TypeOK /\ QueueInv /\ SessionsOrdered /\ \A p \in Tasks : TaskInv(p)

\* What a step of one task does to the tasks it does not name: the sessions
\* they rely on only move forward, and the lock's holder sees none move.
LEMMA OthersKeep ==
  ASSUME TypeOK, TypeOK', SessionsOrdered, NEW q \in Tasks, TaskInv(q),
         req'[q] = req[q], cloud' >= cloud,
         ended' = ended \/ (ended' = cloud /\ cloud' = cloud),
         \/ tokenset' = tokenset /\ (reply' = reply \/ reply = NoTokens)
         \/ req[q].pc \notin Holding /\ tokenset'.session > tokenset.session
         \/ req[q].pc \notin Holding /\ tokenset' = tokenset
  PROVE  TaskInv(q)'
<1> DEFINE r == req[q]
           m == tokenset.session
           n == tokenset'.session
<1>1. r \in Requests /\ cloud \in Nat /\ cloud' \in Nat
  BY DEF TypeOK
<1>2. /\ r.pc \in Steps /\ r.token \in Nat /\ r.rejected \in Nat /\ r.ok \in BOOLEAN
      /\ r.why \in {"signin", "expired", "rejected"}
  BY <1>1, RequestFields
<1>3. m \in Nat /\ n \in Nat /\ m <= cloud /\ n >= m
  BY <1>1 DEF TypeOK, Tokensets, NoTokens, NoSession, SessionsOrdered
<1>4. r.rejected <= m /\ r.token <= m
  BY DEF TaskInv
<1>5. /\ ~Live(r.token) => ~Live(r.token)'
      /\ ~Live(r.rejected) => ~Live(r.rejected)'
  <2> HIDE DEF r
  <2>1. Live(r.token)' => Live(r.token)
    BY <1>1, <1>2, <1>3, <1>4 DEF Live, r
  <2>2. Live(r.rejected)' => Live(r.rejected)
    BY <1>1, <1>2, <1>3, <1>4 DEF Live, r
  <2> QED BY <2>1, <2>2
<1>6. r.pc \in Holding => tokenset' = tokenset /\ (reply # NoTokens => reply' = reply)
  OBVIOUS
<1> QED BY <1>1, <1>2, <1>3, <1>4, <1>5, <1>6
        DEF TaskInv, Waiting, Holding, NoTokens, NoSession

\* Two tasks are never past the lock at once.
LEMMA HolderIsAlone ==
  ASSUME OneLoginAtATime, NEW p \in Tasks, NEW q \in Tasks, q # p, Holds(p)
  PROVE  req[q].pc \notin Holding
BY DEF OneLoginAtATime, Holds

Queued(r) == r.pc \in Waiting \cup Holding

\* Joining the queue.
LEMMA EnqueueKeeps ==
  ASSUME TypeOK, QueueInv, NEW p \in Tasks, NEW r \in Requests,
         ~Queued(req[p]), r.pc = "queued",
         queue' = Append(queue, p), req' = [req EXCEPT ![p] = r]
  PROVE  QueueInv' /\ queue' \in Seq(Tasks)
<1>1. queue \in Seq(Tasks) /\ Len(queue) \in Nat /\ req \in [Tasks -> Requests]
  BY DEF TypeOK
<1>2. /\ queue' \in Seq(Tasks) /\ Len(queue') = Len(queue) + 1
      /\ queue'[Len(queue) + 1] = p
      /\ \A i \in 1..Len(queue) : queue'[i] = queue[i]
  BY <1>1
<1>3. \A i \in 1..Len(queue) : queue[i] # p
  BY DEF QueueInv, Queued
<1>4. req'[p].pc = "queued" /\ \A q \in Tasks : q # p => req'[q] = req[q]
  BY <1>1
<1>5. OneLoginAtATime'
  <2>1. ASSUME NEW q \in Tasks, req'[q].pc \in Holding PROVE Holds(q)'
    <3>1. q # p /\ Holds(q)
      BY <2>1, <1>4 DEF Holding, QueueInv, OneLoginAtATime
    <3>2. queue # << >> /\ Head(queue) = q
      BY <3>1 DEF Holds
    <3>3. queue' # << >> /\ Head(queue') = q
      BY <3>2, <1>1, <1>2
    <3> QED BY <3>3 DEF Holds
  <2>2. ASSUME NEW i \in 1..Len(queue'), NEW j \in 1..Len(queue'), queue'[i] = queue'[j]
        PROVE  i = j
    BY <2>2, <1>1, <1>2, <1>3 DEF QueueInv, OneLoginAtATime
  <2> QED BY <2>1, <2>2 DEF OneLoginAtATime
<1>6. ASSUME NEW q \in Tasks
      PROVE  req'[q].pc \in Waiting \cup Holding <=> \E i \in 1..Len(queue') : queue'[i] = q
  <2>1. CASE q = p
    BY <2>1, <1>1, <1>2, <1>4 DEF Waiting
  <2>2. CASE q # p
    <3>1. (\E i \in 1..Len(queue') : queue'[i] = q) <=> \E i \in 1..Len(queue) : queue[i] = q
      BY <2>2, <1>1, <1>2
    <3> QED BY <2>2, <3>1, <1>4 DEF QueueInv
  <2> QED BY <2>1, <2>2
<1> QED BY <1>2, <1>5, <1>6 DEF QueueInv

\* Letting the lock go.
LEMMA ReleaseKeeps ==
  ASSUME TypeOK, QueueInv, NEW p \in Tasks, NEW r \in Requests,
         Holds(p), ~Queued(r),
         queue' = Tail(queue), req' = [req EXCEPT ![p] = r]
  PROVE  QueueInv' /\ queue' \in Seq(Tasks)
<1>1. queue \in Seq(Tasks) /\ Len(queue) \in Nat /\ req \in [Tasks -> Requests]
      /\ queue # << >> /\ queue[1] = p /\ Len(queue) >= 1
  BY DEF TypeOK, Holds
<1>2. /\ queue' \in Seq(Tasks) /\ Len(queue') = Len(queue) - 1
      /\ \A i \in 1..Len(queue') : queue'[i] = queue[i + 1]
  BY <1>1
<1>3. req'[p] = r /\ \A q \in Tasks : q # p => req'[q] = req[q]
  BY <1>1
<1>4. OneLoginAtATime'
  <2>1. ASSUME NEW q \in Tasks PROVE req'[q].pc \notin Holding
    BY <2>1, <1>3, HolderIsAlone DEF QueueInv, Queued
  <2>2. ASSUME NEW i \in 1..Len(queue'), NEW j \in 1..Len(queue'), queue'[i] = queue'[j]
        PROVE  i = j
    <3>1. i + 1 \in 1..Len(queue) /\ j + 1 \in 1..Len(queue) /\ queue[i + 1] = queue[j + 1]
      BY <2>2, <1>1, <1>2
    <3> QED BY <3>1 DEF QueueInv, OneLoginAtATime
  <2> QED BY <2>1, <2>2 DEF OneLoginAtATime
<1>5. ASSUME NEW q \in Tasks
      PROVE  req'[q].pc \in Waiting \cup Holding <=> \E i \in 1..Len(queue') : queue'[i] = q
  <2>1. CASE q = p
    <3>1. ASSUME NEW i \in 1..Len(queue') PROVE queue'[i] # p
      <4>1. i + 1 \in 1..Len(queue) /\ 1 \in 1..Len(queue) /\ i + 1 # 1
        BY <1>1, <1>2
      <4> QED BY <4>1, <1>1, <1>2 DEF QueueInv, OneLoginAtATime
    <3> QED BY <2>1, <3>1, <1>3 DEF Queued
  <2>2. CASE q # p
    <3>1. ASSUME NEW i \in 1..Len(queue), queue[i] = q
          PROVE  \E k \in 1..Len(queue') : queue'[k] = q
      <4>1. i # 1
        BY <2>2, <3>1, <1>1
      <4>2. i - 1 \in 1..Len(queue') /\ queue'[i - 1] = q
        BY <4>1, <3>1, <1>1, <1>2
      <4> QED BY <4>2
    <3>2. ASSUME NEW k \in 1..Len(queue'), queue'[k] = q
          PROVE  \E i \in 1..Len(queue) : queue[i] = q
      <4>1. k + 1 \in 1..Len(queue)
        BY <1>1, <1>2
      <4> QED BY <4>1, <3>2, <1>2
    <3> QED BY <2>2, <3>1, <3>2, <1>3 DEF QueueInv
  <2> QED BY <2>1, <2>2
<1> QED BY <1>2, <1>4, <1>5 DEF QueueInv

\* Neither: outside the lock, or at its head.
LEMMA StayKeeps ==
  ASSUME TypeOK, QueueInv, NEW p \in Tasks, NEW r \in Requests,
         queue' = queue, req' = [req EXCEPT ![p] = r],
         \/ ~Queued(req[p]) /\ ~Queued(r)
         \/ Holds(p) /\ Queued(req[p]) /\ r.pc \in Holding
  PROVE  QueueInv' /\ queue' \in Seq(Tasks)
<1>1. req'[p] = r /\ \A q \in Tasks : q # p => req'[q] = req[q]
  BY DEF TypeOK
<1>2. OneLoginAtATime'
  BY <1>1 DEF QueueInv, OneLoginAtATime, Holds, Queued
<1>3. \A q \in Tasks : req'[q].pc \in Waiting \cup Holding
                       <=> \E i \in 1..Len(queue') : queue'[i] = q
  BY <1>1 DEF QueueInv, Queued
<1> QED BY <1>2, <1>3 DEF QueueInv, TypeOK

\* One task's step, assembled: the queue, the sessions and the task itself are
\* shown to be in order, and every other task keeps what it relies on.
LEMMA TaskStep ==
  ASSUME Base, NEW p \in Tasks, NEW r \in Requests, req' = [req EXCEPT ![p] = r],
         QueueInv', queue' \in Seq(Tasks),
         cloud' \in Nat, cloud' >= cloud, aged' = aged, ended' = ended,
         since' \in 0..Interval,
         tokenset' \in Tokensets \cup {NoTokens}, reply' \in Tokensets \cup {NoTokens},
         SessionsOrdered', TaskInv(p)',
         \/ tokenset' = tokenset /\ reply' = reply
         \/ Holds(p) /\ (tokenset' = tokenset \/ tokenset'.session > tokenset.session)
  PROVE  Base'
<1>1. TypeOK /\ QueueInv /\ SessionsOrdered /\ \A q \in Tasks : TaskInv(q)
  BY DEF Base
<1>2. TypeOK'
  BY <1>1 DEF TypeOK
<1>3. ASSUME NEW q \in Tasks, q # p PROVE TaskInv(q)'
  <2>1. req'[q] = req[q]
    BY <1>1, <1>3 DEF TypeOK
  <2>2. Holds(p) => req[q].pc \notin Holding
    BY <1>1, <1>3, HolderIsAlone DEF QueueInv
  <2> QED BY <1>1, <1>2, <2>1, <2>2, OthersKeep
<1> QED BY <1>2, <1>3 DEF Base

\* The facts every step starts from.
LEMMA StepFacts ==
  ASSUME Base, NEW p \in Tasks
  PROVE  /\ TypeOK /\ QueueInv /\ SessionsOrdered /\ TaskInv(p)
         /\ req[p] \in Requests /\ req \in [Tasks -> Requests]
         /\ cloud \in Nat /\ since \in 0..Interval /\ Interval \in Nat /\ queue \in Seq(Tasks)
         /\ tokenset \in Tokensets \cup {NoTokens} /\ reply \in Tokensets \cup {NoTokens}
         /\ tokenset.session \in Nat /\ tokenset.session <= cloud
         /\ tokenset # NoTokens => tokenset.session > 0
         /\ req[p].pc \in Holding => Holds(p)
         /\ Idle(req[p].dc) \in Requests
<1>1. TypeOK /\ QueueInv /\ SessionsOrdered /\ TaskInv(p)
  BY DEF Base
<1>2. req[p] \in Requests
  BY <1>1 DEF TypeOK
<1>3. Idle(req[p].dc) \in Requests
  BY <1>2 DEF Idle, Requests, Steps, NoSession
<1>4. /\ tokenset.session \in Nat /\ tokenset.session <= cloud
      /\ tokenset # NoTokens => tokenset.session > 0
  BY <1>1 DEF TypeOK, Tokensets, NoTokens, NoSession, SessionsOrdered
<1> QED BY <1>1, <1>2, <1>3, <1>4, SessionAssumption
        DEF TypeOK, QueueInv, OneLoginAtATime

\* A task that has gone back to idle relies on nothing.
LEMMA IdleIsFine ==
  ASSUME NEW p \in Tasks, NEW dc \in Datacenters, req'[p] = Idle(dc),
         tokenset'.session \in Nat
  PROVE  TaskInv(p)'
BY DEF TaskInv, Idle, NoSession, Waiting, Holding

\* However the cloud serves a request, it is refused only with a dead token.
LEMMA Served ==
  ASSUME NEW p \in Tasks, CloudServes(p)
  PROVE  /\ req[p].pc = "sent" /\ UNCHANGED <<cloudVars, tokenset, queue, since, reply>>
         /\ \E ok \in BOOLEAN : /\ ~ok => ~Live(req[p].token)
                              /\ Set(p, [req[p] EXCEPT !.pc = "answered", !.ok = ok])
<1>1. CASE CloudChecks(p)
  <2>1. Live(req[p].token) \in BOOLEAN
    BY DEF Live
  <2> QED BY <1>1, <2>1 DEF CloudChecks
<1>2. CASE CloudLists(p)
  BY <1>2 DEF CloudLists
<1> QED BY <1>1, <1>2 DEF CloudServes

\* The steps that leave the lock and the sessions alone.
LEMMA PlainSteps ==
  ASSUME Base, NEW p \in Tasks,
         Begin(p) \/ UseToken(p) \/ CloudServes(p) \/ SendFails(p) \/ Finish(p)
  PROVE  Base'
<1>1. /\ TypeOK /\ QueueInv /\ SessionsOrdered /\ TaskInv(p)
      /\ req[p] \in Requests /\ req \in [Tasks -> Requests] /\ cloud \in Nat
      /\ tokenset.session \in Nat /\ tokenset.session <= cloud
      /\ tokenset # NoTokens => tokenset.session > 0
      /\ Idle(req[p].dc) \in Requests
  BY StepFacts
<1>2. UNCHANGED <<cloud, aged, ended, tokenset, queue, since, reply>>
  BY Served DEF Begin, UseToken, SendFails, Finish, cloudVars
<1>3. ~Queued(req[p])
  BY Served DEF Begin, UseToken, SendFails, Finish, Queued, Waiting, Holding
<1>4. SessionsOrdered'
  BY <1>1, <1>2 DEF SessionsOrdered
<1>5. ASSUME NEW r \in Requests, Set(p, r), ~Queued(r), TaskInv(p)'
      PROVE  Base'
  <2>1. req' = [req EXCEPT ![p] = r]
    BY <1>5 DEF Set
  <2>2. QueueInv' /\ queue' \in Seq(Tasks)
    BY <1>1, <1>2, <1>3, <1>5, <2>1, StayKeeps
  <2>3. /\ cloud' \in Nat /\ cloud' >= cloud /\ since' \in 0..Interval
        /\ tokenset' \in Tokensets \cup {NoTokens} /\ reply' \in Tokensets \cup {NoTokens}
    BY <1>1, <1>2 DEF TypeOK
  <2> QED BY <1>2, <1>4, <1>5, <2>1, <2>2, <2>3, TaskStep
<1>6. CASE Begin(p)
  <2>1. PICK last \in BOOLEAN :
          Set(p, [Idle(req[p].dc) EXCEPT !.pc = "token", !.last = last])
    BY <1>6 DEF Begin
  <2> DEFINE r == [Idle(req[p].dc) EXCEPT !.pc = "token", !.last = last]
  <2>2. r \in Requests /\ ~Queued(r)
    BY <1>1 DEF Requests, Idle, Steps, Queued, Waiting, Holding
  <2>3. req'[p] = r
    BY <2>1, <1>1 DEF Set
  <2>4. TaskInv(p)'
    BY <2>3, <1>1, <1>2 DEF TaskInv, Idle, NoSession, Waiting, Holding
  <2> HIDE DEF r
  <2> QED BY <2>1, <2>2, <2>4, <1>5 DEF r
<1>7. CASE UseToken(p)
  <2> DEFINE r == [req[p] EXCEPT !.pc = "sent", !.token = tokenset.session]
  <2>1. Set(p, r) /\ req[p].pc = "token" /\ tokenset # NoTokens
    BY <1>7 DEF UseToken, Usable
  <2>2. r \in Requests /\ ~Queued(r)
    BY <1>1 DEF Requests, Steps, Queued, Waiting, Holding
  <2>3. req'[p] = r
    BY <2>1, <1>1 DEF Set
  <2>4. TaskInv(p)'
    BY <2>1, <2>3, <1>1, <1>2 DEF TaskInv, NoSession, Waiting, Holding, Requests
  <2> HIDE DEF r
  <2> QED BY <2>1, <2>2, <2>4, <1>5
<1>8. CASE CloudServes(p)
  <2>4. PICK ok \in BOOLEAN : /\ ~ok => ~Live(req[p].token)
                             /\ Set(p, [req[p] EXCEPT !.pc = "answered", !.ok = ok])
    BY <1>8, Served
  <2> DEFINE r == [req[p] EXCEPT !.pc = "answered", !.ok = ok]
  <2>1. Set(p, r) /\ req[p].pc = "sent"
    BY <1>8, <2>4, Served
  <2>2. r \in Requests /\ ~Queued(r)
    BY <1>1 DEF Requests, Steps, Queued, Waiting, Holding
  <2>3. req'[p] = r
    BY <2>1, <1>1 DEF Set
  <2>5. ~r.ok => ~Live(req[p].token)
    BY <2>2, <2>4, <1>1 DEF Requests
  <2>6. ~r.ok => ~(req[p].token # NoSession /\ req[p].token = cloud' /\ req[p].token # ended')
    BY <2>5, <1>2 DEF Live
  <2>7. /\ r.pc = "answered" /\ r.token = req[p].token /\ r.rejected = req[p].rejected
    BY <1>1 DEF Requests
  <2>8. req[p].token > req[p].rejected /\ req[p].token <= tokenset.session
        /\ req[p].rejected <= tokenset.session
    BY <2>1, <1>1 DEF TaskInv
  <2> HIDE DEF r
  <2>9. TaskInv(p)'
    BY <2>3, <2>6, <2>7, <2>8, <1>2 DEF TaskInv, Live, Waiting, Holding
  <2> QED BY <2>1, <2>2, <2>9, <1>5
<1>9. CASE SendFails(p) \/ Finish(p)
  <2>1. Set(p, Idle(req[p].dc)) /\ ~Queued(Idle(req[p].dc))
    BY <1>9 DEF SendFails, Finish, Queued, Idle, Waiting, Holding
  <2>2. req'[p] = Idle(req[p].dc) /\ req[p].dc \in Datacenters
    BY <2>1, <1>1 DEF Set, Requests
  <2> QED BY <2>1, <2>2, <1>1, <1>2, <1>5, IdleIsFine
<1> QED BY <1>6, <1>7, <1>8, <1>9

\* The steps that join the lock's queue.
LEMMA EnqueueSteps ==
  ASSUME Base, NEW p \in Tasks, SignIn(p) \/ AskLogin(p) \/ Rejected(p)
  PROVE  Base'
<1>1. /\ TypeOK /\ QueueInv /\ SessionsOrdered /\ TaskInv(p)
      /\ req[p] \in Requests /\ req \in [Tasks -> Requests] /\ cloud \in Nat
      /\ tokenset.session \in Nat /\ tokenset.session <= cloud
      /\ Idle(req[p].dc) \in Requests
  BY StepFacts
<1>2. UNCHANGED <<cloud, aged, ended, tokenset, since, reply>> /\ queue' = Append(queue, p)
  BY DEF SignIn, AskLogin, Rejected, Enqueue, cloudVars
<1>3. ~Queued(req[p])
  BY DEF SignIn, AskLogin, Rejected, Queued, Waiting, Holding
<1>4. SessionsOrdered'
  BY <1>1, <1>2 DEF SessionsOrdered
<1>5. ASSUME NEW r \in Requests, Set(p, r), r.pc = "queued", TaskInv(p)'
      PROVE  Base'
  <2>1. req' = [req EXCEPT ![p] = r]
    BY <1>5 DEF Set
  <2>2. QueueInv' /\ queue' \in Seq(Tasks)
    BY <1>1, <1>2, <1>3, <1>5, <2>1, EnqueueKeeps
  <2>3. /\ cloud' \in Nat /\ cloud' >= cloud /\ since' \in 0..Interval
        /\ tokenset' \in Tokensets \cup {NoTokens} /\ reply' \in Tokensets \cup {NoTokens}
    BY <1>1, <1>2 DEF TypeOK
  <2> QED BY <1>2, <1>4, <1>5, <2>1, <2>2, <2>3, TaskStep
<1>6. CASE SignIn(p)
  <2> DEFINE r == [Idle(req[p].dc) EXCEPT !.pc = "queued", !.why = "signin"]
  <2>1. Set(p, r)
    BY <1>6 DEF SignIn, Enqueue
  <2>2. r \in Requests /\ r.pc = "queued" /\ r.why = "signin"
        /\ r.rejected = NoSession /\ r.token = NoSession
    BY <1>1 DEF Requests, Idle, Steps, Waiting, Holding
  <2>3. req'[p] = r
    BY <2>1, <1>1 DEF Set
  <2> HIDE DEF r
  <2>4. TaskInv(p)'
    BY <2>2, <2>3, <1>1, <1>2 DEF TaskInv, NoSession, Waiting, Holding
  <2> QED BY <2>1, <2>2, <2>4, <1>5
<1>7. CASE AskLogin(p)
  <2> DEFINE r == [req[p] EXCEPT !.pc = "queued", !.why = "expired"]
  <2>1. Set(p, r) /\ req[p].pc = "token"
    BY <1>7 DEF AskLogin, Enqueue
  <2>2. r \in Requests /\ r.pc = "queued" /\ r.why = "expired"
        /\ r.rejected = req[p].rejected /\ r.token = req[p].token
    BY <1>1 DEF Requests, Steps, Waiting, Holding
  <2>3. req'[p] = r
    BY <2>1, <1>1 DEF Set
  <2> HIDE DEF r
  <2>4. TaskInv(p)'
    BY <2>1, <2>2, <2>3, <1>1, <1>2 DEF TaskInv, NoSession, Waiting, Holding
  <2> QED BY <2>1, <2>2, <2>4, <1>5
<1>8. CASE Rejected(p)
  <2> DEFINE r == [req[p] EXCEPT !.pc = "queued", !.why = "rejected", !.last = TRUE,
                                 !.rejected = req[p].token]
  <2>1. Set(p, r) /\ req[p].pc = "answered" /\ ~req[p].ok
    BY <1>8 DEF Rejected, Enqueue
  <2>2. r \in Requests /\ r.pc = "queued" /\ r.why = "rejected"
        /\ r.rejected = req[p].token /\ r.token = req[p].token
    BY <1>1 DEF Requests, Steps, Waiting, Holding
  <2>3. req'[p] = r
    BY <2>1, <1>1 DEF Set
  <2>4. /\ ~Live(req[p].token) /\ req[p].token > req[p].rejected
        /\ req[p].token <= tokenset.session /\ req[p].token \in Nat /\ req[p].rejected \in Nat
    BY <2>1, <1>1 DEF TaskInv, Requests
  <2>5. ~(req[p].token # NoSession /\ req[p].token = cloud' /\ req[p].token # ended')
    BY <2>4, <1>2 DEF Live
  <2> HIDE DEF r
  <2>6. TaskInv(p)'
    BY <2>2, <2>3, <2>4, <2>5, <1>1, <1>2 DEF TaskInv, Live, NoSession, Waiting, Holding
  <2> QED BY <2>1, <2>2, <2>6, <1>5
<1> QED BY <1>6, <1>7, <1>8

\* The steps that let the lock go, whatever the reason.
LEMMA ReleaseSteps ==
  ASSUME Base, NEW p \in Tasks,
         UseRenewed(p) \/ RateLimited(p) \/ LoginFails(p) \/ Saved(p) \/ SaveFails(p)
  PROVE  Base'
<1>1. /\ TypeOK /\ QueueInv /\ SessionsOrdered /\ TaskInv(p)
      /\ req[p] \in Requests /\ req \in [Tasks -> Requests] /\ cloud \in Nat
      /\ tokenset.session \in Nat /\ tokenset.session <= cloud
      /\ tokenset # NoTokens => tokenset.session > 0
      /\ req[p].pc \in Holding => Holds(p)
      /\ Idle(req[p].dc) \in Requests /\ req[p].dc \in Datacenters
      /\ req[p].token \in Nat /\ req[p].rejected \in Nat
  BY StepFacts, RequestFields
<1>2. /\ UNCHANGED <<cloud, aged, ended, tokenset, since>> /\ queue' = Tail(queue)
      /\ reply' = reply \/ reply' = NoTokens
  BY DEF UseRenewed, RateLimited, LoginFails, Saved, SaveFails, Release, cloudVars
<1>3. Holds(p)
  BY <1>1 DEF UseRenewed, RateLimited, LoginFails, Saved, SaveFails, Granted, Holding
<1>4. SessionsOrdered'
  BY <1>1, <1>2 DEF SessionsOrdered
<1>5. ASSUME NEW r \in Requests, Set(p, r), ~Queued(r), TaskInv(p)'
      PROVE  Base'
  <2>1. req' = [req EXCEPT ![p] = r]
    BY <1>5 DEF Set
  <2>2. QueueInv' /\ queue' \in Seq(Tasks)
    BY <1>1, <1>2, <1>3, <1>5, <2>1, ReleaseKeeps
  <2>3. /\ cloud' \in Nat /\ cloud' >= cloud /\ since' \in 0..Interval
        /\ tokenset' \in Tokensets \cup {NoTokens} /\ reply' \in Tokensets \cup {NoTokens}
    BY <1>1, <1>2 DEF TypeOK
  <2> QED BY <1>2, <1>3, <1>4, <1>5, <2>1, <2>2, <2>3, TaskStep
<1>6. CASE Set(p, Idle(req[p].dc))
  <2>1. ~Queued(Idle(req[p].dc)) /\ req'[p] = Idle(req[p].dc)
    BY <1>6, <1>1 DEF Set, Queued, Idle, Waiting, Holding
  <2> QED BY <1>6, <2>1, <1>1, <1>2, <1>5, IdleIsFine
<1>7. ASSUME req[p].rejected < tokenset.session, tokenset # NoTokens,
             Set(p, [req[p] EXCEPT !.pc = "sent", !.token = tokenset.session])
      PROVE  Base'
  <2> DEFINE r == [req[p] EXCEPT !.pc = "sent", !.token = tokenset.session]
  <2>1. r \in Requests /\ ~Queued(r)
    BY <1>1 DEF Requests, Steps, Queued, Waiting, Holding
  <2>2. req'[p] = r
    BY <1>7, <1>1 DEF Set
  <2>3. TaskInv(p)'
    BY <2>2, <1>1, <1>2, <1>7 DEF TaskInv, NoSession, Waiting, Holding, Requests
  <2> HIDE DEF r
  <2> QED BY <1>7, <2>1, <2>3, <1>5 DEF r
<1>8. ASSUME req[p].rejected = NoSession \/ req[p].rejected < tokenset.session, Goto(p, "token")
      PROVE  Base'
  <2> DEFINE r == [req[p] EXCEPT !.pc = "token"]
  <2>1. r \in Requests /\ ~Queued(r)
    BY <1>1 DEF Requests, Steps, Queued, Waiting, Holding
  <2>2. Set(p, r) /\ req'[p] = r
    BY <1>8, <1>1 DEF Set, Goto
  <2>3. r.pc = "token" /\ r.rejected = req[p].rejected /\ r.token = req[p].token
    BY <1>1 DEF Requests
  <2>4. req[p].rejected <= tokenset.session /\ req[p].token <= tokenset.session
    BY <1>1 DEF TaskInv
  <2> HIDE DEF r
  <2>5. TaskInv(p)'
    BY <2>2, <2>3, <2>4, <1>1, <1>2, <1>8 DEF TaskInv, NoSession, Waiting, Holding
  <2> QED BY <2>1, <2>2, <2>5, <1>5
<1>9. CASE UseRenewed(p)
  <2>1. req[p].pc = "queued" /\ Renewed(p)
    BY <1>9 DEF UseRenewed, Granted
  <2>2. CASE req[p].why = "expired"
    <3>1. tokenset # NoTokens /\ req[p].rejected < tokenset.session
      BY <2>1, <2>2, <1>1 DEF Renewed, Usable, TaskInv, Waiting, NoSession
    <3> QED BY <3>1, <2>2, <1>9, <1>7 DEF UseRenewed
  <2>3. CASE req[p].why # "expired"
    <3>1. req[p].rejected < tokenset.session
      BY <2>1, <2>3, <1>1 DEF Renewed, Replaced, TaskInv
    <3> QED BY <3>1, <2>3, <1>9, <1>8 DEF UseRenewed
  <2> QED BY <2>2, <2>3
<1>10. CASE RateLimited(p) \/ LoginFails(p) \/ SaveFails(p)
  BY <1>10, <1>6 DEF RateLimited, LoginFails, SaveFails
<1>11. CASE Saved(p)
  <2>1. /\ req[p].pc = "saving" /\ tokenset # NoTokens
        /\ req[p].why \in {"signin", "expired", "rejected"}
        /\ req[p].rejected = NoSession \/ req[p].rejected < tokenset.session
    BY <1>11, <1>1, RequestFields DEF Saved, TaskInv, Holding
  <2>2. req[p].rejected < tokenset.session
    BY <2>1, <1>1 DEF NoSession
  <2>3. \/ Set(p, [req[p] EXCEPT !.pc = "sent", !.token = tokenset.session])
        \/ Set(p, Idle(req[p].dc))
        \/ Goto(p, "token")
    <3>1. CASE req[p].why = "expired"
      BY <3>1, <1>11 DEF Saved
    <3>2. CASE req[p].why # "expired"
      BY <3>2, <1>11 DEF Saved
    <3> QED BY <3>1, <3>2
  <2> QED BY <2>1, <2>2, <2>3, <1>6, <1>7, <1>8
<1> QED BY <1>9, <1>10, <1>11

\* The steps of a login in progress, made by the holder of the lock.
LEMMA LoginSteps ==
  ASSUME Base, NEW p \in Tasks, StartLogin(p) \/ CloudLogsIn(p) \/ LoginReply(p)
  PROVE  Base'
<1>1. /\ TypeOK /\ QueueInv /\ SessionsOrdered /\ TaskInv(p)
      /\ req[p] \in Requests /\ req \in [Tasks -> Requests] /\ cloud \in Nat
      /\ tokenset.session \in Nat /\ tokenset.session <= cloud
      /\ tokenset # NoTokens => tokenset.session > 0
      /\ req[p].pc \in Holding => Holds(p)
      /\ req[p].token \in Nat /\ req[p].rejected \in Nat
      /\ since \in 0..Interval /\ Interval \in Nat
  BY StepFacts, RequestFields
<1>2. Holds(p) /\ Queued(req[p]) /\ UNCHANGED <<aged, ended, queue>>
  BY <1>1 DEF StartLogin, CloudLogsIn, LoginReply, Granted, Queued, Waiting, Holding, cloudVars
<1>3. req[p].rejected <= tokenset.session /\ req[p].token <= tokenset.session
  BY <1>1 DEF TaskInv
<1>4. ASSUME NEW r \in Requests, req' = [req EXCEPT ![p] = r], r.pc \in Holding
      PROVE  QueueInv' /\ queue' \in Seq(Tasks)
  BY <1>1, <1>2, <1>4, StayKeeps DEF Queued
<1>5. CASE StartLogin(p)
  <2> DEFINE r == [req[p] EXCEPT !.pc = "login"]
  <2>1. /\ req[p].pc = "queued" /\ ~Renewed(p) /\ req' = [req EXCEPT ![p] = r] /\ since' = 0
        /\ UNCHANGED <<cloud, aged, ended, tokenset, queue, reply>>
    BY <1>5 DEF StartLogin, Granted, Goto, Set, cloudVars
  <2>2. /\ r \in Requests /\ r.pc = "login" /\ r.rejected = req[p].rejected
        /\ r.token = req[p].token /\ r.why = req[p].why
    BY <1>1 DEF Requests, Steps, Holding
  <2>3. req'[p] = r
    BY <2>1, <1>1
  <2>4. r.why = "rejected" =>
          r.rejected # NoSession /\ ~Live(r.rejected) /\ r.rejected = tokenset.session
    <3>1. req[p].why = "rejected" => req[p].rejected # NoSession /\ ~Live(req[p].rejected)
      BY <2>1, <1>1 DEF TaskInv
    <3>2. req[p].why = "rejected" => tokenset = NoTokens \/ tokenset.session = req[p].rejected
      BY <2>1 DEF Renewed, Replaced
    <3>3. tokenset = NoTokens => tokenset.session = NoSession
      BY DEF NoTokens
    <3> QED BY <2>2, <3>1, <3>2, <3>3, <1>1, <1>3 DEF NoSession
  <2>5. /\ r.why = "signin" => r.rejected = NoSession
        /\ r.why = "expired" => r.rejected = NoSession \/ r.rejected < tokenset.session
    BY <2>1, <2>2, <1>1 DEF TaskInv, Waiting
  <2> HIDE DEF r
  <2>6. TaskInv(p)'
    BY <2>1, <2>2, <2>3, <2>4, <2>5, <1>3 DEF TaskInv, Live, Waiting, Holding
  <2>7. SessionsOrdered'
    BY <2>1, <1>1 DEF SessionsOrdered
  <2>8. /\ cloud' \in Nat /\ cloud' >= cloud /\ since' \in 0..Interval
        /\ tokenset' \in Tokensets \cup {NoTokens} /\ reply' \in Tokensets \cup {NoTokens}
    BY <1>1, <2>1 DEF TypeOK
  <2>9. QueueInv' /\ queue' \in Seq(Tasks)
    BY <2>1, <2>2, <1>4 DEF Holding
  <2> QED BY <2>1, <2>2, <2>6, <2>7, <2>8, <2>9, TaskStep
<1>6. CASE CloudLogsIn(p)
  <2> DEFINE r == [req[p] EXCEPT !.pc = "issued"]
  <2>1. PICK dcs \in SUBSET Datacenters : reply' = [session |-> cloud + 1, dcs |-> dcs]
    BY <1>6 DEF CloudLogsIn
  <2>2. /\ req[p].pc = "login" /\ req' = [req EXCEPT ![p] = r] /\ cloud' = cloud + 1
        /\ UNCHANGED <<aged, ended, tokenset, queue, since>>
    BY <1>6 DEF CloudLogsIn, Goto, Set
  <2>3. /\ r \in Requests /\ r.pc = "issued" /\ r.rejected = req[p].rejected
        /\ r.token = req[p].token /\ r.why = req[p].why
    BY <1>1 DEF Requests, Steps, Holding
  <2>4. reply' \in Tokensets /\ reply'.session = cloud + 1 /\ reply' # NoTokens
    BY <2>1, <1>1 DEF Tokensets, NoTokens, NoSession
  <2>5. req'[p] = r
    BY <2>2, <1>1
  <2>6. /\ r.why = "signin" => r.rejected = NoSession
        /\ r.why = "expired" => r.rejected = NoSession \/ r.rejected < tokenset.session
    BY <2>2, <2>3, <1>1 DEF TaskInv, Holding
  <2> HIDE DEF r
  <2>7. TaskInv(p)'
    BY <2>2, <2>3, <2>4, <2>5, <2>6, <1>3 DEF TaskInv, Waiting, Holding
  <2>8. SessionsOrdered'
    BY <2>2, <2>4, <1>1 DEF SessionsOrdered
  <2>9. /\ cloud' \in Nat /\ cloud' >= cloud /\ since' \in 0..Interval
        /\ tokenset' \in Tokensets \cup {NoTokens} /\ reply' \in Tokensets \cup {NoTokens}
    BY <1>1, <2>2, <2>4 DEF TypeOK
  <2>10. QueueInv' /\ queue' \in Seq(Tasks)
    BY <2>2, <2>3, <1>4 DEF Holding
  <2> QED BY <1>2, <2>2, <2>3, <2>7, <2>8, <2>9, <2>10, TaskStep
<1>7. CASE LoginReply(p)
  <2> DEFINE r == [req[p] EXCEPT !.pc = "saving"]
  <2>1. /\ req[p].pc = "issued" /\ req' = [req EXCEPT ![p] = r]
        /\ tokenset' = reply /\ reply' = NoTokens
        /\ UNCHANGED <<cloud, aged, ended, queue, since>>
    BY <1>7 DEF LoginReply, Goto, Set, cloudVars
  <2>2. /\ r \in Requests /\ r.pc = "saving" /\ r.rejected = req[p].rejected
        /\ r.token = req[p].token /\ r.why = req[p].why
    BY <1>1 DEF Requests, Steps, Holding
  <2>3. /\ reply # NoTokens /\ reply \in Tokensets /\ reply.session \in Nat
        /\ reply.session > tokenset.session /\ reply.session <= cloud
    BY <2>1, <1>1 DEF TaskInv, SessionsOrdered, TypeOK, Tokensets
  <2>4. req'[p] = r
    BY <2>1, <1>1
  <2>5. r.why = "signin" => r.rejected = NoSession
    BY <2>1, <2>2, <1>1 DEF TaskInv, Holding
  <2> HIDE DEF r
  <2>6. TaskInv(p)'
    BY <2>1, <2>2, <2>3, <2>4, <2>5, <1>1, <1>3 DEF TaskInv, Waiting, Holding
  <2>7. SessionsOrdered'
    BY <2>1, <2>3 DEF SessionsOrdered
  <2>8. /\ cloud' \in Nat /\ cloud' >= cloud /\ since' \in 0..Interval
        /\ tokenset' \in Tokensets \cup {NoTokens} /\ reply' \in Tokensets \cup {NoTokens}
    BY <1>1, <2>1, <2>3
  <2>9. QueueInv' /\ queue' \in Seq(Tasks)
    BY <2>1, <2>2, <1>4 DEF Holding
  <2> QED BY <1>2, <2>1, <2>2, <2>3, <2>6, <2>7, <2>8, <2>9, TaskStep
<1> QED BY <1>5, <1>6, <1>7

\* The rest of the world: another client's login, ageing, time.
LEMMA WorldSteps ==
  ASSUME Base, ForeignLogin \/ Ages \/ Ends \/ Second \/ UNCHANGED vars
  PROVE  Base'
<1>1. TypeOK /\ QueueInv /\ SessionsOrdered /\ \A q \in Tasks : TaskInv(q)
  BY DEF Base
<1>2. /\ cloud \in Nat /\ tokenset.session \in Nat /\ since \in 0..Interval /\ Interval \in Nat
      /\ \A s : s \in {tokenset.session, cloud} => s \in Nat
  BY <1>1, SessionAssumption DEF TypeOK, Tokensets, NoTokens, NoSession
<1>3. /\ UNCHANGED <<tokenset, queue, reply, req>>
      /\ cloud' \in Nat /\ cloud' >= cloud
      /\ ended' = ended \/ (ended' = cloud /\ cloud' = cloud)
      /\ aged' \in Nat /\ ended' \in Nat /\ since' \in 0..Interval
  <2>1. aged \in Nat /\ ended \in Nat
    BY <1>1 DEF TypeOK
  <2>2. CASE ForeignLogin
    BY <2>1, <2>2, <1>2 DEF ForeignLogin
  <2>3. CASE Ages
    BY <2>1, <2>3, <1>2 DEF Ages
  <2>4. CASE Ends
    BY <2>1, <2>4, <1>2 DEF Ends
  <2>5. CASE Second
    BY <2>1, <2>5, <1>2 DEF Second, cloudVars
  <2>6. CASE UNCHANGED vars
    BY <2>1, <2>6, <1>2 DEF vars
  <2> QED BY <2>2, <2>3, <2>4, <2>5, <2>6
<1>4. TypeOK'
  BY <1>1, <1>3 DEF TypeOK
<1>5. QueueInv'
  BY <1>1, <1>3 DEF QueueInv, OneLoginAtATime, Holds
<1>6. SessionsOrdered'
  <2>1. reply # NoTokens => reply.session \in Nat
    BY <1>1 DEF TypeOK, Tokensets
  <2> QED BY <1>1, <1>2, <1>3, <2>1 DEF SessionsOrdered
<1>7. ASSUME NEW q \in Tasks PROVE TaskInv(q)'
  BY <1>1, <1>3, <1>4, OthersKeep
<1> QED BY <1>4, <1>5, <1>6, <1>7 DEF Base

LEMMA InitBase == Init => Base
<1> SUFFICES ASSUME Init PROVE Base
  OBVIOUS
<1>1. /\ cloud \in Nat /\ tokenset \in Tokensets \cup {NoTokens}
      /\ tokenset.session \in Nat /\ tokenset.session <= cloud
  BY DEF Init, Tokensets, NoTokens, NoSession
<1>2. \A p \in Tasks : \E dc \in Datacenters : req[p] = Idle(dc)
  BY SessionAssumption DEF Init
<1>3. \A dc \in Datacenters : Idle(dc) \in Requests /\ ~Queued(Idle(dc))
  BY DEF Idle, Requests, Steps, NoSession, Queued, Waiting, Holding
<1>4. req \in [Tasks -> Requests] /\ \A p \in Tasks : ~Queued(req[p])
  <2>1. req \in [Tasks -> Requests]
    BY <1>2, <1>3 DEF Init
  <2> QED BY <2>1, <1>2, <1>3
<1>5. TypeOK
  BY <1>1, <1>4, SessionAssumption DEF Init, TypeOK, NoSession
<1>6. QueueInv
  BY <1>4 DEF Init, QueueInv, OneLoginAtATime, Queued
<1>7. SessionsOrdered
  BY <1>1 DEF Init, SessionsOrdered
<1>8. ASSUME NEW p \in Tasks PROVE TaskInv(p)
  <2>0. PICK dc \in Datacenters : req[p] = Idle(dc)
    BY <1>8, <1>2
  <2>1. req[p].pc = "idle" /\ req[p].rejected = 0 /\ req[p].token = 0
    BY <2>0 DEF Idle, NoSession
  <2> QED BY <1>1, <2>1 DEF TaskInv, NoSession, Waiting, Holding
<1> QED BY <1>5, <1>6, <1>7, <1>8 DEF Base

LEMMA NextBase ==
  ASSUME Base, [Next]_vars
  PROVE  Base'
<1>1. ASSUME NEW p \in Tasks, Begin(p) \/ SignIn(p) \/ Proceed(p)
      PROVE  Base'
  BY <1>1, PlainSteps, EnqueueSteps, ReleaseSteps, LoginSteps DEF Proceed
<1>2. CASE ForeignLogin \/ Ages \/ Ends \/ Second \/ UNCHANGED vars
  BY <1>2, WorldSteps
<1> QED BY <1>1, <1>2 DEF Next

\* A session once dead stays dead.
LEMMA DeadStaysDead ==
  ASSUME TypeOK, TypeOK', NEW s \in Nat, s <= cloud, ~Live(s), cloud' >= cloud,
         ended' = ended \/ (ended' = cloud /\ cloud' = cloud)
  PROVE  ~Live(s)'
BY DEF TypeOK, Live

\* What a task's second attempt relies on outlasts the steps of others: only the
\* holder of the lock replaces the tokens.
LEMMA OthersOnceMore ==
  ASSUME TypeOK, TypeOK', SessionsOrdered, NEW q \in Tasks, TaskInv(q), OnceMore(q),
         req'[q] = req[q], cloud' >= cloud,
         ended' = ended \/ (ended' = cloud /\ cloud' = cloud),
         aged' \in {aged, tokenset.session},
         tokenset' = tokenset \/ req[q].pc # "login"
  PROVE  OnceMore(q)'
<1> DEFINE r == req[q]
<1>1. r.rejected \in Nat /\ r.rejected <= cloud
  <2>1. r \in Requests /\ tokenset.session \in Nat
    BY DEF TypeOK, Tokensets, NoTokens, NoSession
  <2> QED BY <2>1, RequestFields DEF TaskInv, SessionsOrdered, TypeOK
<1>2. ~Live(r.rejected) => ~Live(r.rejected)'
  BY <1>1, DeadStaysDead
<1>3. r.pc = "login" /\ ~Usable(r.dc) => ~Usable(r.dc)'
  BY DEF Usable
<1> QED BY <1>2, <1>3 DEF OnceMore

\* One request's own steps: it comes to hold a rejected session only once, and then the
\* attempt that follows is its last.
LEMMA OwnOnceMore ==
  ASSUME Base, Base', NEW p \in Tasks, OnceMore(p), Begin(p) \/ SignIn(p) \/ Proceed(p)
  PROVE  OnceMore(p)'
<1>1. /\ TypeOK /\ TypeOK' /\ SessionsOrdered /\ TaskInv(p)
      /\ req[p] \in Requests /\ req \in [Tasks -> Requests] /\ cloud \in Nat
      /\ tokenset.session \in Nat /\ tokenset.session <= cloud
      /\ Idle(req[p].dc) \in Requests
      /\ req[p].token \in Nat /\ req[p].rejected \in Nat
      /\ req[p].last \in BOOLEAN
  <2>1. TypeOK' /\ Base
    BY DEF Base
  <2> QED BY <2>1, StepFacts, RequestFields
<1>2. /\ req[p].rejected <= cloud /\ req[p].token <= cloud
      /\ cloud' \in Nat /\ cloud' >= cloud /\ ended' = ended
  <2>1. ended' = ended /\ (cloud' = cloud \/ cloud' = cloud + 1)
    BY Served DEF Begin, SignIn, Proceed, UseToken, AskLogin, UseRenewed, RateLimited,
                  StartLogin, CloudLogsIn, LoginFails, LoginReply, Saved, SaveFails,
                  SendFails, Finish, Rejected, cloudVars
  <2> QED BY <2>1, <1>1 DEF TaskInv
<1>3. ASSUME NEW s \in Nat, s <= cloud, ~Live(s) PROVE ~Live(s)'
  BY <1>1, <1>2, <1>3, DeadStaysDead
<1>4. ASSUME NEW r \in Requests, req' = [req EXCEPT ![p] = r],
             r.rejected = req[p].rejected, req[p].last => r.last,
             r.why = "rejected" => r.last,
             r.pc \notin {"sent", "answered"} => r.token = r.rejected,
             r.pc = "login" /\ r.why = "expired" => ~Usable(r.dc)'
      PROVE  OnceMore(p)'
  <2>1. req'[p] = r
    BY <1>1, <1>4
  <2>2. r.rejected # NoSession => ~Live(r.rejected)
    BY <1>4 DEF OnceMore
  <2>3. r.rejected # NoSession => ~Live(r.rejected)'
    BY <2>2, <1>1, <1>2, <1>3, <1>4
  <2>4. r.rejected # NoSession \/ r.why = "rejected" => r.last
    BY <1>4 DEF OnceMore
  <2> QED BY <2>1, <2>3, <2>4, <1>4 DEF OnceMore, Live, Usable
<1>5. CASE req' = [req EXCEPT ![p] = Idle(req[p].dc)]
  <2>1. req'[p] = Idle(req[p].dc)
    BY <1>1, <1>5
  <2> QED BY <2>1 DEF OnceMore, Idle
<1>6. CASE Begin(p)
  <2>1. PICK last \in BOOLEAN :
          req' = [req EXCEPT ![p] = [Idle(req[p].dc) EXCEPT !.pc = "token", !.last = last]]
    BY <1>6 DEF Begin, Set
  <2>2. req'[p] = [Idle(req[p].dc) EXCEPT !.pc = "token", !.last = last]
    BY <1>1, <2>1
  <2> QED BY <2>2 DEF OnceMore, Idle
<1>7. CASE SignIn(p)
  <2>1. req'[p] = [Idle(req[p].dc) EXCEPT !.pc = "queued", !.why = "signin"]
    BY <1>1, <1>7 DEF SignIn, Enqueue, Set
  <2> QED BY <2>1 DEF OnceMore, Idle
<1>8. CASE UseToken(p)
  <2>1. req' = [req EXCEPT ![p] = [req[p] EXCEPT !.pc = "sent", !.token = tokenset.session]]
    BY <1>8 DEF UseToken, Set
  <2>2. [req[p] EXCEPT !.pc = "sent", !.token = tokenset.session] \in Requests
    BY <1>1 DEF Requests, Steps
  <2> QED BY <2>1, <2>2, <1>1, <1>4 DEF OnceMore, Requests
<1>9. CASE AskLogin(p)
  <2>1. /\ req[p].pc = "token"
        /\ req' = [req EXCEPT ![p] = [req[p] EXCEPT !.pc = "queued", !.why = "expired"]]
    BY <1>9 DEF AskLogin, Enqueue, Set
  <2>2. [req[p] EXCEPT !.pc = "queued", !.why = "expired"] \in Requests
    BY <1>1 DEF Requests, Steps, Waiting
  <2> QED BY <2>1, <2>2, <1>1, <1>4 DEF OnceMore, Requests
<1>10. ASSUME req[p].pc \in Waiting \cup Holding,
              req' = [req EXCEPT ![p] = [req[p] EXCEPT !.pc = "sent", !.token = tokenset.session]]
       PROVE  OnceMore(p)'
  <2>1. [req[p] EXCEPT !.pc = "sent", !.token = tokenset.session] \in Requests
    BY <1>1 DEF Requests, Steps
  <2> QED BY <2>1, <1>1, <1>4, <1>10 DEF OnceMore, Requests
<1>11. ASSUME NEW pc \in {"token", "issued", "saving", "login"}, req[p].pc \notin {"sent", "answered"},
              req' = [req EXCEPT ![p] = [req[p] EXCEPT !.pc = pc]],
              pc = "login" /\ req[p].why = "expired" => ~Usable(req[p].dc)'
       PROVE  OnceMore(p)'
  <2>1. [req[p] EXCEPT !.pc = pc] \in Requests
    BY <1>1 DEF Requests, Steps, Holding
  <2> QED BY <2>1, <1>1, <1>4, <1>11 DEF OnceMore, Requests
<1>12. CASE UseRenewed(p)
  <2>1. req[p].pc = "queued"
    BY <1>12 DEF UseRenewed, Granted
  <2>2. CASE req[p].why = "expired"
    BY <2>1, <2>2, <1>10, <1>12 DEF UseRenewed, Set, Waiting
  <2>3. CASE req[p].why # "expired"
    BY <2>1, <2>3, <1>11, <1>12 DEF UseRenewed, Set, Goto
  <2> QED BY <2>2, <2>3
<1>13. CASE StartLogin(p)
  <2>1. /\ req[p].pc = "queued" /\ req' = [req EXCEPT ![p] = [req[p] EXCEPT !.pc = "login"]]
        /\ ~Renewed(p) /\ UNCHANGED <<tokenset, aged>>
    BY <1>13 DEF StartLogin, Granted, Set, Goto, cloudVars
  <2>2. req[p].why = "expired" => ~Usable(req[p].dc)'
    BY <2>1 DEF Renewed, Usable
  <2> QED BY <2>1, <2>2, <1>11
<1>14. CASE CloudLogsIn(p)
  BY <1>11, <1>14 DEF CloudLogsIn, Set, Goto
<1>15. CASE LoginReply(p)
  BY <1>11, <1>15 DEF LoginReply, Set, Goto
<1>16. CASE Saved(p)
  <2>1. /\ req[p].pc = "saving"
        /\ \/ Set(p, [req[p] EXCEPT !.pc = "sent", !.token = tokenset.session])
           \/ Set(p, Idle(req[p].dc))
           \/ Goto(p, "token")
    <3>1. CASE req[p].why = "expired"
      BY <3>1, <1>16 DEF Saved
    <3>2. CASE req[p].why # "expired"
      BY <3>2, <1>16 DEF Saved
    <3> QED BY <3>1, <3>2
  <2>2. CASE Set(p, [req[p] EXCEPT !.pc = "sent", !.token = tokenset.session])
    BY <2>1, <2>2, <1>10 DEF Set, Holding
  <2>3. CASE Goto(p, "token")
    BY <2>1, <2>3, <1>11 DEF Set, Goto
  <2> QED BY <2>1, <2>2, <2>3, <1>5 DEF Set
<1>17. CASE RateLimited(p) \/ LoginFails(p) \/ SaveFails(p) \/ SendFails(p) \/ Finish(p)
  BY <1>5, <1>17 DEF RateLimited, LoginFails, SaveFails, SendFails, Finish, Set
<1>18. CASE CloudServes(p)
  <2>1. PICK ok \in BOOLEAN : Set(p, [req[p] EXCEPT !.pc = "answered", !.ok = ok])
    BY <1>18, Served
  <2>2. [req[p] EXCEPT !.pc = "answered", !.ok = ok] \in Requests /\ req[p].pc = "sent"
    BY <1>18, <1>1, Served DEF Requests, Steps
  <2> QED BY <2>1, <2>2, <1>1, <1>4 DEF OnceMore, Requests, Set
<1>19. CASE Rejected(p)
  <2> DEFINE r == [req[p] EXCEPT !.pc = "queued", !.why = "rejected", !.last = TRUE,
                                 !.rejected = req[p].token]
  <2>1. req' = [req EXCEPT ![p] = r] /\ req[p].pc = "answered" /\ ~req[p].ok
    BY <1>19 DEF Rejected, Enqueue, Set
  <2>2. req'[p] = r /\ r.pc = "queued" /\ r.last = TRUE /\ r.token = r.rejected
        /\ r.rejected = req[p].token
    BY <2>1, <1>1 DEF Requests
  <2>3. ~Live(req[p].token)'
    BY <2>1, <1>1, <1>3 DEF TaskInv
  <2> HIDE DEF r
  <2> QED BY <2>2, <2>3 DEF OnceMore
<1> QED BY <1>6, <1>7, <1>8, <1>9, <1>12, <1>13, <1>14, <1>15, <1>16, <1>17, <1>18, <1>19
        DEF Proceed

LEMMA InitInvariant == Init => IInv
<1> SUFFICES ASSUME Init PROVE IInv
  OBVIOUS
<1>1. Base /\ ReplyAwaited
  BY InitBase DEF Init, ReplyAwaited
<1>2. ASSUME NEW p \in Tasks PROVE OnceMore(p)
  <2>1. req[p] = Idle(Asked[p])
    BY DEF Init
  <2> QED BY <2>1 DEF OnceMore, Idle
<1> QED BY <1>1, <1>2 DEF IInv, Base

LEMMA NextInvariant ==
  ASSUME IInv, [Next]_vars
  PROVE  IInv'
<1>1. Base /\ Base' /\ ReplyAwaited /\ \A q \in Tasks : TaskInv(q) /\ OnceMore(q)
  BY NextBase DEF IInv, Base
<1>2. TypeOK /\ TypeOK' /\ SessionsOrdered /\ OneLoginAtATime
  BY <1>1 DEF Base, QueueInv
<1>3. CASE \E p \in Tasks : Begin(p) \/ SignIn(p) \/ Proceed(p)
  <2>1. PICK p \in Tasks : Begin(p) \/ SignIn(p) \/ Proceed(p)
    BY <1>3
  <2>2. /\ \A q \in Tasks : q # p => req'[q] = req[q]
        /\ cloud' = cloud \/ cloud' = cloud + 1
        /\ ended' = ended /\ aged' = aged
        /\ tokenset' = tokenset \/ req[p].pc = "issued"
        /\ \/ reply' = NoTokens \/ req'[p].pc = "issued"
           \/ reply' = reply /\ req[p].pc # "issued"
    <3>1. req \in [Tasks -> Requests]
      BY <1>2 DEF TypeOK
    <3>2. CASE Begin(p) \/ SignIn(p) \/ UseToken(p) \/ AskLogin(p)
      BY <2>1, <3>1, <3>2 DEF Begin, SignIn, UseToken, AskLogin, Enqueue, Set, cloudVars
    <3>3. CASE UseRenewed(p) \/ RateLimited(p) \/ StartLogin(p)
      BY <2>1, <3>1, <3>3 DEF UseRenewed, RateLimited, StartLogin, Granted, Goto, Set, cloudVars
    <3>4. CASE CloudLogsIn(p) \/ LoginFails(p) \/ LoginReply(p)
      <4>1. CASE CloudLogsIn(p)
        BY <3>1, <4>1 DEF CloudLogsIn, Goto, Set
      <4>2. CASE LoginFails(p)
        BY <3>1, <4>2 DEF LoginFails, Set, cloudVars
      <4>3. CASE LoginReply(p)
        BY <3>1, <4>3 DEF LoginReply, Goto, Set, cloudVars
      <4> QED BY <3>4, <4>1, <4>2, <4>3
    <3>5. CASE Saved(p)
      BY <2>1, <3>1, <3>5 DEF Saved, Goto, Set, cloudVars
    <3>6. CASE SaveFails(p) \/ CloudServes(p) \/ SendFails(p) \/ Finish(p) \/ Rejected(p)
      BY <2>1, <3>1, <3>6, Served DEF SaveFails, SendFails, Finish, Rejected, Enqueue,
                                      Set, cloudVars
    <3> QED BY <2>1, <3>2, <3>3, <3>4, <3>5, <3>6 DEF Proceed
  <2>3. OnceMore(p)'
    BY <1>1, <2>1, OwnOnceMore
  <2>4. ASSUME NEW q \in Tasks, q # p PROVE OnceMore(q)'
    <3>1. req[p].pc = "issued" => req[q].pc # "login"
      BY <1>2, <2>4, HolderIsAlone DEF OneLoginAtATime, Holding
    <3>2. cloud' >= cloud
      BY <1>2, <2>2 DEF TypeOK
    <3> QED BY <1>1, <1>2, <2>2, <2>4, <3>1, <3>2, OthersOnceMore
  <2>5. ReplyAwaited'
    BY <1>1, <2>1, <2>2 DEF ReplyAwaited
  <2> QED BY <1>1, <2>3, <2>4, <2>5 DEF IInv, Base
<1>4. CASE ForeignLogin \/ Ages \/ Ends \/ Second \/ UNCHANGED vars
  <2>1. /\ UNCHANGED <<tokenset, reply, req>>
        /\ cloud' = cloud \/ cloud' = cloud + 1
        /\ ended' = ended \/ (ended' = cloud /\ cloud' = cloud)
        /\ aged' \in {aged, tokenset.session}
    BY <1>4 DEF ForeignLogin, Ages, Ends, Second, cloudVars, vars
  <2>2. cloud' >= cloud
    BY <1>2, <2>1 DEF TypeOK
  <2>3. \A q \in Tasks : OnceMore(q)'
    BY <1>1, <1>2, <2>1, <2>2, OthersOnceMore
  <2>4. ReplyAwaited'
    BY <1>1, <2>1 DEF ReplyAwaited
  <2> QED BY <1>1, <2>3, <2>4 DEF IInv, Base
<1> QED BY <1>3, <1>4 DEF Next

\* The session's bookkeeping is consistent in every reachable state.
THEOREM SessionInvariant == Spec => []IInv
<1> QED BY InitInvariant, NextInvariant, PTL DEF Spec

\* Types, for every value of the constants.
THEOREM SessionTypes == Spec => []TypeOK
<1>1. IInv => TypeOK
  BY DEF IInv
<1> QED BY <1>1, SessionInvariant, PTL

\* A re-login after a 444 never ends a session of ours that is still live,
\* whatever the interleaving of requests, logins and other clients
\* (session.py async_relogin).
THEOREM NeverDisplacesOurselves == Spec => []NoSelfDisplacement
<1>1. IInv => NoSelfDisplacement
  BY DEF IInv, TaskInv, NoSelfDisplacement
<1> QED BY <1>1, SessionInvariant, PTL

\* A retry always carries a token newer than the one rejected (transport.py
\* request).
THEOREM RetriesAreFresh == Spec => []RetryIsFresh
<1>1. IInv => RetryIsFresh
  BY DEF IInv, TaskInv, RetryIsFresh
<1> QED BY <1>1, SessionInvariant, PTL

\* At most one login is in progress, at the holder of the lock (session.py
\* _login_lock).
THEOREM LoginsAreSerialized == Spec => []OneLoginAtATime
<1>1. IInv => OneLoginAtATime
  BY DEF IInv, QueueInv
<1> QED BY <1>1, SessionInvariant, PTL

-----------------------------------------------------------------------------
\* The abstract account (SharedAccount), step by step.

\* What one task's step does to the mapped variables.
LEMMA MappedStep ==
  ASSUME TypeOK, NEW p \in Tasks, NEW r, req' = [req EXCEPT ![p] = r]
  PROVE  /\ Used' = [Used EXCEPT ![p] = SentWith(r)]
         /\ Asking' = IF SignsIn(r) THEN Asking \cup {p} ELSE Asking \ {p}
<1>1. req'[p] = r /\ \A q \in Tasks : q # p => req'[q] = req[q]
  BY DEF TypeOK
<1>2. Used' = [Used EXCEPT ![p] = SentWith(r)]
  <2>1. ASSUME NEW q \in Tasks
        PROVE  SentWith(req'[q]) = IF q = p THEN SentWith(r) ELSE SentWith(req[q])
    BY <1>1
  <2>2. Used' = [q \in Tasks |-> SentWith(req'[q])]
    BY DEF Used, SentWith
  <2>3. [Used EXCEPT ![p] = SentWith(r)]
          = [q \in Tasks |-> IF q = p THEN SentWith(r) ELSE SentWith(req[q])]
    BY DEF Used
  <2> QED BY <2>1, <2>2, <2>3
<1>3. Asking' = IF SignsIn(r) THEN Asking \cup {p} ELSE Asking \ {p}
  BY <1>1 DEF Asking
<1> QED BY <1>2, <1>3

\* A step the account does not see: the request has been sent with the same sessions,
\* and asks to sign in or not as before.
LEMMA UnseenStep ==
  ASSUME TypeOK, NEW p \in Tasks, NEW r, req' = [req EXCEPT ![p] = r],
         SentWith(r) = SentWith(req[p]), SignsIn(r) = SignsIn(req[p]),
         UNCHANGED <<cloudVars, tokenset, reply>>
  PROVE  UNCHANGED Account!vars
<1>1. Used' = Used
  BY MappedStep DEF Used
<1>2. Asking' = Asking
  BY MappedStep DEF Asking
<1> QED BY <1>1, <1>2 DEF Account!vars, cloudVars

\* What a task has been sent with, where it has no answer to wait for.
LEMMA SentOnce ==
  ASSUME IInv, NEW p \in Tasks
  PROVE  /\ TypeOK /\ req[p] \in Requests /\ TaskInv(p) /\ OnceMore(p)
         /\ Used[p] = SentWith(req[p])
         /\ req[p].pc \notin {"sent", "answered"} =>
              SentWith(req[p]) = {req[p].rejected} \ {NoSession}
         /\ req[p].pc = "idle" => SentWith(req[p]) = {}
BY DEF IInv, TypeOK, OnceMore, TaskInv, Used, SentWith

\* A request goes out.
LEMMA SendingSends ==
  ASSUME IInv, NEW p \in Tasks, req[p].pc \in {"token", "queued", "saving"},
         req[p].pc = "token" \/ req[p].why = "expired",
         tokenset # NoTokens,
         Set(p, [req[p] EXCEPT !.pc = "sent", !.token = tokenset.session]),
         UNCHANGED <<cloudVars, tokenset, reply>>
  PROVE  Account!Send(p)
<1> DEFINE r == [req[p] EXCEPT !.pc = "sent", !.token = tokenset.session]
<1>1. /\ TypeOK /\ req[p] \in Requests /\ TaskInv(p) /\ OnceMore(p)
      /\ Used[p] = {req[p].rejected} \ {NoSession}
  BY SentOnce
<1>2. tokenset.session \in Nat /\ tokenset.session # NoSession
  BY <1>1 DEF TypeOK, Tokensets, NoTokens, NoSession
<1>3. r.pc = "sent" /\ r.token = tokenset.session /\ r.rejected = req[p].rejected
  BY <1>1 DEF Requests
<1>4. req' = [req EXCEPT ![p] = r]
  BY DEF Set
<1> HIDE DEF r
<1>5. SentWith(r) = Used[p] \cup {tokenset.session}
  BY <1>1, <1>2, <1>3 DEF SentWith
<1>6. Asking' = Asking
  BY <1>1, <1>3, <1>4, MappedStep DEF SignsIn, Asking
<1>7. Used' = [Used EXCEPT ![p] = @ \cup {tokenset.session}]
  BY <1>1, <1>4, <1>5, MappedStep
<1>8. req[p].rejected # NoSession => req[p].rejected < tokenset.session /\ ~Live(req[p].rejected)
  BY <1>1 DEF TaskInv, OnceMore, Waiting, Holding
<1>9. tokenset # Account!NoTokens
  BY DEF NoTokens, Account!NoTokens, NoSession
<1>10. \A s \in Used[p] : Used[p] = {s} /\ ~Account!Live(s) /\ s < tokenset.session
  BY <1>1, <1>8 DEF Live, Account!Live, NoSession
<1> QED BY <1>6, <1>7, <1>9, <1>10 DEF Account!Send, cloudVars

\* A request is over.
LEMMA OverIsOver ==
  ASSUME IInv, NEW p \in Tasks, Set(p, Idle(req[p].dc)), UNCHANGED <<cloudVars, tokenset>>
  PROVE  /\ Used' = [Used EXCEPT ![p] = {}] /\ Asking' = Asking \ {p}
         /\ reply' = reply => Account!Over(p)
         /\ reply' = NoTokens => Account!Lost(p)
<1>1. TypeOK /\ req' = [req EXCEPT ![p] = Idle(req[p].dc)]
  BY DEF IInv, Set
<1>2. SentWith(Idle(req[p].dc)) = {} /\ ~SignsIn(Idle(req[p].dc))
  BY DEF SentWith, SignsIn, Idle
<1>3. Used' = [Used EXCEPT ![p] = {}] /\ Asking' = Asking \ {p}
  BY <1>1, <1>2, MappedStep
<1> QED BY <1>3 DEF Account!Over, Account!Lost, Account!NoTokens, NoTokens, NoSession, cloudVars

\* A login has a reason when the cloud makes it, and no other is on its way.
LEMMA LoginHasReason ==
  ASSUME IInv, NEW p \in Tasks, CloudLogsIn(p)
  PROVE  Account!Login(p)
<1> DEFINE r == [req[p] EXCEPT !.pc = "issued"]
<1>1. /\ TypeOK /\ req[p] \in Requests /\ TaskInv(p) /\ OnceMore(p) /\ req[p].pc = "login"
      /\ OneLoginAtATime /\ ReplyAwaited /\ SessionsOrdered
  BY SentOnce DEF CloudLogsIn, IInv, QueueInv
<1>2. /\ tokenset = NoTokens => tokenset.session = 0
      /\ req[p].dc \in Datacenters /\ req[p].why \in {"signin", "expired", "rejected"}
  BY <1>1, RequestFields DEF NoTokens, NoSession
<1>3. Account!Reason(p)
  <2>1. CASE req[p].why = "signin"
    BY <1>1, <2>1 DEF Account!Reason, Asking, SignsIn
  <2>2. CASE req[p].why = "expired"
    <3>1. ~Usable(req[p].dc)
      BY <1>1, <2>2 DEF OnceMore
    <3> QED BY <1>2, <3>1 DEF Usable, Account!Reason, Account!Live
  <2>3. CASE req[p].why = "rejected"
    <3>1. ~Live(tokenset.session)
      BY <1>1, <2>3 DEF TaskInv
    <3> QED BY <3>1 DEF Account!Reason, Account!Live, Live, NoSession
  <2> QED BY <1>2, <2>1, <2>2, <2>3
<1>4. reply = NoTokens
  <2> SUFFICES ASSUME reply # NoTokens PROVE FALSE
    OBVIOUS
  <2>1. PICK q \in Tasks : req[q].pc = "issued"
    BY <1>1 DEF ReplyAwaited
  <2> QED BY <1>1, <2>1, HolderIsAlone DEF OneLoginAtATime, Holding
<1>5. req' = [req EXCEPT ![p] = r] /\ r.pc = "issued" /\ SentWith(r) = SentWith(req[p])
  BY <1>1 DEF CloudLogsIn, Goto, Set, Requests, SentWith
<1> HIDE DEF r
<1>6. Asking' = Asking \ {p}
  BY <1>1, <1>5, MappedStep DEF SignsIn
<1>7. Used' = Used
  BY <1>1, <1>5, MappedStep DEF Used
<1>8. UNCHANGED <<ended, aged, tokenset>> /\ cloud' = cloud + 1
      /\ \E dcs \in SUBSET Datacenters : reply' = [session |-> cloud + 1, dcs |-> dcs]
  BY DEF CloudLogsIn
<1> QED BY <1>3, <1>4, <1>6, <1>7, <1>8 DEF Account!Login, Account!NoTokens, NoTokens, NoSession

\* The login's reply is adopted.
LEMMA ReplyIsAdopted ==
  ASSUME IInv, NEW p \in Tasks, LoginReply(p)
  PROVE  Account!Adopt
<1> DEFINE r == [req[p] EXCEPT !.pc = "saving"]
<1>1. /\ TypeOK /\ req[p] \in Requests /\ TaskInv(p) /\ SessionsOrdered /\ req[p].pc = "issued"
      /\ reply' = NoTokens /\ tokenset' = reply /\ UNCHANGED cloudVars
  BY SentOnce DEF LoginReply, IInv
<1>2. reply.session > tokenset.session
  BY <1>1 DEF TaskInv, SessionsOrdered
<1>3. /\ req' = [req EXCEPT ![p] = r] /\ r.pc = "saving" /\ SentWith(r) = SentWith(req[p])
  BY <1>1 DEF LoginReply, Goto, Set, Requests, SentWith
<1> HIDE DEF r
<1>4. Used' = Used
  BY <1>1, <1>3, MappedStep DEF Used
<1>5. Asking' = Asking
  BY <1>1, <1>3, MappedStep DEF Asking, SignsIn
<1> QED BY <1>1, <1>2, <1>4, <1>5 DEF Account!Adopt, Account!NoTokens, NoTokens, NoSession, cloudVars

\* The steps between its sends, logins and replies the account does not see.
LEMMA UnseenSteps ==
  ASSUME IInv, NEW p \in Tasks,
         \/ Begin(p) \/ AskLogin(p) \/ StartLogin(p) \/ CloudServes(p) \/ Rejected(p)
         \/ UseRenewed(p) /\ req[p].why # "expired"
         \/ Saved(p) /\ req[p].why # "expired"
  PROVE  UNCHANGED Account!vars
<1>1. /\ TypeOK /\ req[p] \in Requests /\ TaskInv(p) /\ OnceMore(p)
      /\ req[p].pc \notin {"sent", "answered"} => SentWith(req[p]) = {req[p].rejected} \ {NoSession}
      /\ req[p].pc = "idle" => SentWith(req[p]) = {}
  BY SentOnce
<1>2. CASE Begin(p)
  <2>1. PICK last \in BOOLEAN :
          req' = [req EXCEPT ![p] = [Idle(req[p].dc) EXCEPT !.pc = "token", !.last = last]]
    BY <1>2 DEF Begin, Set
  <2> DEFINE r == [Idle(req[p].dc) EXCEPT !.pc = "token", !.last = last]
  <2>2. SentWith(r) = {} /\ ~SignsIn(r)
    BY DEF SentWith, SignsIn, Idle
  <2>3. SentWith(req[p]) = {} /\ ~SignsIn(req[p])
    BY <1>1, <1>2 DEF Begin, SignsIn
  <2>4. SentWith(r) = SentWith(req[p]) /\ SignsIn(r) = SignsIn(req[p]) /\ req' = [req EXCEPT ![p] = r]
    BY <2>1, <2>2, <2>3 DEF SignsIn
  <2> HIDE DEF r
  <2> QED BY <2>4, <1>1, <1>2, UnseenStep DEF Begin
<1>3. ASSUME NEW pc, req' = [req EXCEPT ![p] = [req[p] EXCEPT !.pc = pc]],
             SignsIn([req[p] EXCEPT !.pc = pc]) = SignsIn(req[p]),
             UNCHANGED <<cloudVars, tokenset, reply>>
      PROVE  UNCHANGED Account!vars
  <2> DEFINE r == [req[p] EXCEPT !.pc = pc]
  <2>1. SentWith(r) = SentWith(req[p])
    BY <1>1 DEF Requests, SentWith
  <2> HIDE DEF r
  <2>2. req' = [req EXCEPT ![p] = r] /\ SignsIn(r) = SignsIn(req[p])
    BY <1>3 DEF r
  <2> QED BY <2>1, <2>2, <1>1, <1>3, UnseenStep
<1>4. CASE AskLogin(p)
  <2> DEFINE r == [req[p] EXCEPT !.pc = "queued", !.why = "expired"]
  <2>1. SentWith(r) = SentWith(req[p]) /\ ~SignsIn(r) /\ ~SignsIn(req[p])
    BY <1>1, <1>4 DEF AskLogin, Requests, SentWith, SignsIn
  <2>2. req' = [req EXCEPT ![p] = r] /\ UNCHANGED <<cloudVars, tokenset, reply>>
    BY <1>4 DEF AskLogin, Enqueue, Set
  <2>3. SignsIn(r) = SignsIn(req[p])
    BY <2>1 DEF SignsIn
  <2> HIDE DEF r
  <2> QED BY <2>1, <2>2, <2>3, <1>1, UnseenStep
<1>5. CASE StartLogin(p)
  <2>1. SignsIn([req[p] EXCEPT !.pc = "login"]) = SignsIn(req[p])
    BY <1>1, <1>5 DEF StartLogin, Granted, SignsIn, Requests
  <2> QED BY <2>1, <1>3, <1>5 DEF StartLogin, Goto, Set
<1>6. CASE CloudServes(p)
  <2>3. PICK ok \in BOOLEAN : Set(p, [req[p] EXCEPT !.pc = "answered", !.ok = ok])
    BY <1>6, Served
  <2> DEFINE r == [req[p] EXCEPT !.pc = "answered", !.ok = ok]
  <2>1. SentWith(r) = SentWith(req[p]) /\ SignsIn(r) = SignsIn(req[p])
    BY <1>1, <1>6, Served DEF Requests, SentWith, SignsIn
  <2>2. req' = [req EXCEPT ![p] = r] /\ UNCHANGED <<cloudVars, tokenset, reply>>
    BY <1>6, <2>3, Served DEF Set
  <2> HIDE DEF r
  <2> QED BY <2>1, <2>2, <1>1, UnseenStep
<1>7. CASE Rejected(p)
  <2> DEFINE r == [req[p] EXCEPT !.pc = "queued", !.why = "rejected", !.last = TRUE,
                                 !.rejected = req[p].token]
  <2>1. req[p].rejected = NoSession /\ req[p].pc = "answered"
    BY <1>1, <1>7 DEF Rejected, OnceMore
  <2>2. r.token = req[p].token /\ r.rejected = req[p].token /\ r.why = "rejected"
    BY <1>1 DEF Requests
  <2>3. req' = [req EXCEPT ![p] = r] /\ UNCHANGED <<cloudVars, tokenset, reply>>
    BY <1>7 DEF Rejected, Enqueue, Set
  <2> HIDE DEF r
  <2>4. SentWith(r) = SentWith(req[p]) /\ SignsIn(r) = SignsIn(req[p])
    BY <2>1, <2>2 DEF SentWith, SignsIn
  <2> QED BY <2>3, <2>4, <1>1, UnseenStep
<1>8. CASE UseRenewed(p) /\ req[p].why # "expired"
  <2>1. SignsIn([req[p] EXCEPT !.pc = "token"]) = SignsIn(req[p])
    BY <1>1, <1>8 DEF UseRenewed, Renewed, SignsIn, Requests
  <2> QED BY <2>1, <1>3, <1>8 DEF UseRenewed, Goto, Set
<1>9. CASE Saved(p) /\ req[p].why # "expired"
  <2>1. SignsIn([req[p] EXCEPT !.pc = "token"]) = SignsIn(req[p])
    BY <1>1, <1>9 DEF Saved, SignsIn, Requests
  <2> QED BY <2>1, <1>3, <1>9 DEF Saved, Goto, Set
<1> QED BY <1>2, <1>4, <1>5, <1>6, <1>7, <1>8, <1>9

LEMMA AccountInit == Init => Account!Init
<1> SUFFICES ASSUME Init PROVE Account!Init
  OBVIOUS
<1>1. \A p \in Tasks : req[p] = Idle(Asked[p])
  BY DEF Init
<1>2. Used = [p \in Tasks |-> {}]
  <2>1. ASSUME NEW p \in Tasks PROVE SentWith(req[p]) = {}
    <3>1. req[p] = Idle(Asked[p])
      BY <1>1
    <3>2. req[p].token = NoSession /\ req[p].rejected = NoSession
      BY <3>1 DEF Idle
    <3> QED BY <3>2 DEF SentWith
  <2> QED BY <2>1 DEF Used
<1>3. Asking = {}
  <2>1. ASSUME NEW p \in Tasks PROVE ~SignsIn(req[p])
    <3>1. req[p] = Idle(Asked[p])
      BY <1>1
    <3>2. req[p].pc = "idle"
      BY <3>1 DEF Idle
    <3> QED BY <3>2 DEF SignsIn
  <2> QED BY <2>1 DEF Asking
<1>4. cloud \in Nat /\ tokenset.session = cloud
  BY DEF Init, NoTokens, NoSession
<1> QED BY <1>2, <1>3, <1>4 DEF Init, Account!Init, Account!NoTokens, NoTokens, NoSession

\* Every step of the session is one of the account's, or one it does not see.
LEMMA AccountNext ==
  ASSUME IInv, [Next]_vars
  PROVE  [Account!Next]_(Account!vars)
<1>1. ASSUME NEW p \in Tasks, Begin(p) \/ SignIn(p) \/ Proceed(p)
      PROVE  [Account!Next]_(Account!vars)
  <2>1. /\ TypeOK /\ req[p] \in Requests /\ TaskInv(p) /\ OnceMore(p)
        /\ req[p].pc = "idle" => SentWith(req[p]) = {}
    BY SentOnce
  <2>2. CASE Begin(p) \/ AskLogin(p) \/ StartLogin(p) \/ CloudServes(p) \/ Rejected(p)
    BY <2>2, UnseenSteps
  <2>3. CASE SignIn(p)
    <3> DEFINE r == [Idle(req[p].dc) EXCEPT !.pc = "queued", !.why = "signin"]
    <3>1. req' = [req EXCEPT ![p] = r] /\ UNCHANGED <<cloudVars, tokenset, reply>>
          /\ tokenset = NoTokens /\ req[p].pc = "idle"
      BY <2>3 DEF SignIn, Enqueue, Set
    <3>2. SentWith(r) = {} /\ SignsIn(r)
      BY DEF SentWith, SignsIn, Idle
    <3> HIDE DEF r
    <3>3. Used' = Used
      BY <2>1, <3>1, <3>2, MappedStep DEF Used
    <3>4. Asking' = Asking \cup {p}
      BY <2>1, <3>1, <3>2, MappedStep
    <3>5. Account!Ask(p)
      BY <3>1, <3>3, <3>4 DEF Account!Ask, Account!NoTokens, NoTokens, NoSession, cloudVars
    <3> QED BY <3>5 DEF Account!Next
  <2>4. CASE UseToken(p)
    <3>1. Account!Send(p)
      BY <2>4, SendingSends DEF UseToken, Usable
    <3> QED BY <3>1 DEF Account!Next
  <2>5. CASE UseRenewed(p)
    <3>1. CASE req[p].why = "expired"
      <4>1. req[p].pc = "queued" /\ tokenset # NoTokens
        BY <2>5, <3>1 DEF UseRenewed, Granted, Renewed, Usable
      <4>2. Account!Send(p)
        BY <2>5, <3>1, <4>1, SendingSends DEF UseRenewed
      <4> QED BY <4>2 DEF Account!Next
    <3>2. CASE req[p].why # "expired"
      BY <2>5, <3>2, UnseenSteps
    <3> QED BY <3>1, <3>2
  <2>6. CASE CloudLogsIn(p)
    BY <2>6, LoginHasReason DEF Account!Next
  <2>7. CASE LoginFails(p)
    <3>1. Account!Lost(p)
      BY <2>7, OverIsOver DEF LoginFails
    <3> QED BY <3>1 DEF Account!Next
  <2>8. CASE LoginReply(p)
    BY <2>8, ReplyIsAdopted DEF Account!Next
  <2>9. CASE RateLimited(p) \/ SaveFails(p) \/ SendFails(p) \/ Finish(p)
    <3>1. Set(p, Idle(req[p].dc)) /\ UNCHANGED <<cloudVars, tokenset, reply>>
      BY <2>9 DEF RateLimited, SaveFails, SendFails, Finish
    <3>2. Account!Over(p)
      BY <3>1, OverIsOver
    <3> QED BY <3>2 DEF Account!Next
  <2>10. CASE Saved(p)
    <3>1. CASE req[p].why = "expired"
      <4>1. req[p].pc = "saving" /\ tokenset # NoTokens /\ UNCHANGED <<cloudVars, tokenset, reply>>
        BY <2>1, <2>10 DEF Saved, TaskInv
      <4>2. \/ Set(p, [req[p] EXCEPT !.pc = "sent", !.token = tokenset.session])
            \/ Set(p, Idle(req[p].dc))
        BY <2>10, <3>1 DEF Saved
      <4>3. Account!Send(p) \/ Account!Over(p)
        BY <3>1, <4>1, <4>2, SendingSends, OverIsOver
      <4> QED BY <4>3 DEF Account!Next
    <3>2. CASE req[p].why # "expired"
      BY <2>10, <3>2, UnseenSteps
    <3> QED BY <3>1, <3>2
  <2> QED BY <1>1, <2>2, <2>3, <2>4, <2>5, <2>6, <2>7, <2>8, <2>9, <2>10 DEF Proceed
<1>2. ASSUME req' = req PROVE Used' = Used /\ Asking' = Asking
  BY <1>2 DEF Used, Asking, SentWith, SignsIn
<1>3. CASE ForeignLogin
  <2>1. Account!Foreign
    BY <1>2, <1>3 DEF ForeignLogin, Account!Foreign
  <2> QED BY <2>1 DEF Account!Next
<1>4. CASE Ages
  <2>1. Account!Ages
    BY <1>2, <1>4 DEF Ages, Account!Ages
  <2> QED BY <2>1 DEF Account!Next
<1>5. CASE Ends
  <2>1. Account!Ends
    BY <1>2, <1>5 DEF Ends, Account!Ends
  <2> QED BY <2>1 DEF Account!Next
<1>6. CASE Second \/ UNCHANGED vars
  BY <1>2, <1>6 DEF Second, vars, cloudVars, Account!vars
<1> QED BY <1>1, <1>3, <1>4, <1>5, <1>6 DEF Next

\* The session, with its lock, rate limit and awaits, is the account its requests count
\* on: one login at a time, each for a reason that still holds, and a request sent at
\* most twice, the second time with a newer session than the one that died
\* (session.py, transport.py).
THEOREM SessionImplementsAccount == Spec => ImplementsAccount
<1>1. IInv /\ [Next]_vars => [Account!Next]_(Account!vars)
  BY AccountNext
<1> QED BY <1>1, AccountInit, SessionInvariant, PTL DEF Spec, ImplementsAccount, Account!Spec

-----------------------------------------------------------------------------
\* A request only moves on.

\* The stages of a request, without the case split.
LEMMA Stages ==
  ASSUME NEW r \in Requests, r.why = "rejected" => r.last
  PROVE  Stage(r) = IF Queued(r) /\ r.why = "signin" THEN 3
                    ELSE IF ~r.last THEN 2
                    ELSE IF Queued(r) /\ r.why = "rejected" THEN 1 ELSE 0
<1>1. r.last \in BOOLEAN /\ r.why \in {"signin", "expired", "rejected"}
  BY RequestFields
<1> QED BY <1>1 DEF Stage, Queued

\* In a lower stage, or further along in the same one, a request ranks lower.
LEMMA MovesOn ==
  ASSUME NEW r \in Requests, NEW s \in Requests, r.pc # "idle",
         r.why = "rejected" => r.last, s.why = "rejected" => s.last,
         \/ s.pc = "idle"
         \/ Stage(s) < Stage(r)
         \/ Stage(s) = Stage(r) /\ Place[s.pc] < Place[r.pc]
  PROVE  Rank(s) < Rank(r)
<1>1. Stage(r) \in 0..3 /\ Stage(s) \in 0..3
  BY Stages
<1>2. \A pc \in Steps : Place[pc] \in 0..7 /\ (pc # "idle" => Place[pc] > 0)
  BY DEF Place, Steps, Waiting, Holding
<1>3. Place[r.pc] \in 1..7 /\ Place[s.pc] \in 0..7
  BY <1>2, RequestFields
<1> QED BY <1>1, <1>3 DEF Rank

\* One request's own step.
LEMMA OwnStepMovesOn ==
  ASSUME IInv, IInv', NEW p \in Tasks, Proceed(p)
  PROVE  Rank(req'[p]) < Rank(req[p])
<1> DEFINE r == req[p]
           s == req'[p]
<1>1. /\ r \in Requests /\ s \in Requests /\ req \in [Tasks -> Requests]
      /\ r.why = "rejected" => r.last
      /\ s.why = "rejected" => s.last
      /\ r.why \in {"signin", "expired", "rejected"} /\ r.last \in BOOLEAN
  <2>1. r \in Requests /\ s \in Requests /\ req \in [Tasks -> Requests]
    BY DEF IInv, TypeOK
  <2>2. (r.why = "rejected" => r.last) /\ (s.why = "rejected" => s.last)
    BY DEF IInv, OnceMore
  <2> QED BY <2>1, <2>2, RequestFields
<1>2. ASSUME s.pc = "idle", r.pc # "idle" PROVE Rank(s) < Rank(r)
  BY <1>1, <1>2, MovesOn
<1>3. ASSUME r.pc # "idle", Stage(s) < Stage(r) \/ (Stage(s) = Stage(r) /\ Place[s.pc] < Place[r.pc])
      PROVE  Rank(s) < Rank(r)
  BY <1>1, <1>3, MovesOn
<1>4. /\ Stage(r) = IF Queued(r) /\ r.why = "signin" THEN 3
                    ELSE IF ~r.last THEN 2
                    ELSE IF Queued(r) /\ r.why = "rejected" THEN 1 ELSE 0
      /\ Stage(s) = IF Queued(s) /\ s.why = "signin" THEN 3
                    ELSE IF ~s.last THEN 2
                    ELSE IF Queued(s) /\ s.why = "rejected" THEN 1 ELSE 0
  BY <1>1, Stages
<1>5. CASE RateLimited(p) \/ LoginFails(p) \/ SaveFails(p) \/ SendFails(p) \/ Finish(p)
  <2>1. s = Idle(r.dc) /\ r.pc # "idle"
    BY <1>1, <1>5 DEF RateLimited, LoginFails, SaveFails, SendFails, Finish, Granted, Set
  <2> QED BY <2>1, <1>2 DEF Idle
<1>6. CASE UseToken(p) \/ AskLogin(p) \/ CloudServes(p)
  <2>1. CASE UseToken(p)
    <3>1. r.pc = "token" /\ s.pc = "sent" /\ s.last = r.last
      BY <1>1, <2>1 DEF UseToken, Set, Requests
    <3> QED BY <3>1, <1>3, <1>4 DEF Queued, Waiting, Holding, Place
  <2>2. CASE AskLogin(p)
    <3>1. r.pc = "token" /\ s.pc = "queued" /\ s.last = r.last /\ s.why = "expired"
      BY <1>1, <2>2 DEF AskLogin, Enqueue, Set, Requests
    <3> QED BY <3>1, <1>3, <1>4 DEF Queued, Waiting, Holding, Place
  <2>3. CASE CloudServes(p)
    <3>1. PICK ok \in BOOLEAN : Set(p, [r EXCEPT !.pc = "answered", !.ok = ok])
      BY <2>3, Served
    <3>2. s = [r EXCEPT !.pc = "answered", !.ok = ok] /\ r.pc = "sent"
      BY <1>1, <2>3, <3>1, Served DEF Set
    <3>3. r.pc = "sent" /\ s.pc = "answered" /\ s.last = r.last
      BY <1>1, <3>2 DEF Requests
    <3> QED BY <3>3, <1>3, <1>4 DEF Queued, Waiting, Holding, Place
  <2> QED BY <1>6, <2>1, <2>2, <2>3
<1>7. CASE Rejected(p)
  <2>1. r.pc = "answered" /\ ~r.last /\ s.pc = "queued" /\ s.last /\ s.why = "rejected"
    BY <1>1, <1>7 DEF Rejected, Enqueue, Set, Requests
  <2> QED BY <2>1, <1>3, <1>4 DEF Queued, Waiting, Holding
<1>8. CASE StartLogin(p) \/ CloudLogsIn(p) \/ LoginReply(p)
  <2>1. /\ \/ r.pc = "queued" /\ s.pc = "login"
           \/ r.pc = "login" /\ s.pc = "issued"
           \/ r.pc = "issued" /\ s.pc = "saving"
        /\ s.last = r.last /\ s.why = r.why
    BY <1>1, <1>8 DEF StartLogin, CloudLogsIn, LoginReply, Granted, Goto, Set, Requests
  <2> QED BY <2>1, <1>3, <1>4 DEF Queued, Waiting, Holding, Place
<1>9. CASE UseRenewed(p) \/ Saved(p)
  <2>1. /\ r.pc \in {"queued", "saving"}
        /\ s.pc \in {"idle", "sent", "token"}
        /\ s.pc = "sent" => r.why = "expired" /\ s.last = r.last
        /\ s.pc = "token" => r.why # "expired" /\ s.last = r.last /\ s.why = r.why
    <3>1. r.pc = IF UseRenewed(p) THEN "queued" ELSE "saving"
      BY <1>9 DEF UseRenewed, Saved, Granted
    <3>2. CASE r.why = "expired"
      <4>1. s = [r EXCEPT !.pc = "sent", !.token = tokenset.session] \/ s = Idle(r.dc)
        <5>1. CASE UseRenewed(p)
          BY <1>1, <3>2, <5>1 DEF UseRenewed, Set
        <5>2. CASE Saved(p)
          BY <1>1, <3>2, <5>2 DEF Saved, Set
        <5> QED BY <1>9, <5>1, <5>2
      <4>2. Idle(r.dc).pc = "idle"
        BY DEF Idle
      <4>3. /\ [r EXCEPT !.pc = "sent", !.token = tokenset.session].pc = "sent"
            /\ [r EXCEPT !.pc = "sent", !.token = tokenset.session].last = r.last
        BY <1>1 DEF Requests
      <4> QED BY <3>1, <3>2, <4>1, <4>2, <4>3
    <3>3. CASE r.why # "expired"
      <4>1. s = [r EXCEPT !.pc = "token"]
        <5>1. CASE UseRenewed(p)
          BY <1>1, <3>3, <5>1 DEF UseRenewed, Goto, Set
        <5>2. CASE Saved(p)
          BY <1>1, <3>3, <5>2 DEF Saved, Goto, Set
        <5> QED BY <1>9, <5>1, <5>2
      <4>2. s.pc = "token" /\ s.last = r.last /\ s.why = r.why
        BY <1>1, <4>1 DEF Requests
      <4> QED BY <3>1, <3>3, <4>2
    <3> QED BY <3>2, <3>3
  <2>2. CASE s.pc = "sent"
    BY <2>1, <2>2, <1>1, <1>3, <1>4 DEF Queued, Waiting, Holding, Place
  <2>3. CASE s.pc = "token"
    BY <2>1, <2>3, <1>1, <1>3, <1>4 DEF Queued, Waiting, Holding, Place
  <2> QED BY <2>1, <2>2, <2>3, <1>2
<1> HIDE DEF r, s
<1> QED BY <1>5, <1>6, <1>7, <1>8, <1>9 DEF Proceed, r, s

LEMMA StepMovesOn ==
  ASSUME IInv, IInv', [Next]_vars, NEW p \in Tasks, req[p].pc # "idle", req'[p] # req[p]
  PROVE  Rank(req'[p]) < Rank(req[p])
<1>1. CASE \E q \in Tasks : Begin(q) \/ SignIn(q) \/ Proceed(q)
  <2>1. PICK q \in Tasks : Begin(q) \/ SignIn(q) \/ Proceed(q)
    BY <1>1
  <2>2. \E r : req' = [req EXCEPT ![q] = r]
    <3>1. CASE Begin(q) \/ SignIn(q) \/ UseToken(q) \/ AskLogin(q)
      BY <3>1 DEF Begin, SignIn, UseToken, AskLogin, Enqueue, Set
    <3>2. CASE UseRenewed(q) \/ RateLimited(q) \/ StartLogin(q)
      BY <3>2 DEF UseRenewed, RateLimited, StartLogin, Goto, Set
    <3>3. CASE CloudLogsIn(q) \/ LoginFails(q) \/ LoginReply(q)
      <4>1. CASE CloudLogsIn(q)
        BY <4>1 DEF CloudLogsIn, Goto, Set
      <4>2. CASE LoginFails(q) \/ LoginReply(q)
        BY <4>2 DEF LoginFails, LoginReply, Goto, Set
      <4> QED BY <3>3, <4>1, <4>2
    <3>4. CASE Saved(q)
      <4>1. CASE req[q].why = "expired"
        BY <3>4, <4>1 DEF Saved, Set
      <4>2. CASE req[q].why # "expired"
        BY <3>4, <4>2 DEF Saved, Goto, Set
      <4> QED BY <4>1, <4>2
    <3>5. CASE SaveFails(q) \/ CloudServes(q) \/ SendFails(q) \/ Finish(q) \/ Rejected(q)
      BY <3>5, Served DEF SaveFails, SendFails, Finish, Rejected, Enqueue, Set
    <3> QED BY <2>1, <3>1, <3>2, <3>3, <3>4, <3>5 DEF Proceed
  <2>3. q = p
    BY <2>2
  <2>4. Proceed(p)
    BY <2>1, <2>3 DEF Begin, SignIn
  <2> QED BY <2>4, OwnStepMovesOn
<1>2. CASE ForeignLogin \/ Ages \/ Ends \/ Second \/ UNCHANGED vars
  BY <1>2 DEF ForeignLogin, Ages, Ends, Second, vars
<1> QED BY <1>1, <1>2 DEF Next

\* Every step of a request takes it further, so it ends after a bounded number of its
\* own steps: no mix of expired, missing and rejected tokens, of other tasks' logins and
\* other clients' sends it round again (transport.py request, "retry once").
THEOREM RequestsOnlyAdvance == Spec => NoRetryLoop
<1>1. IInv /\ IInv' /\ [Next]_vars =>
        [\A p \in Tasks : req[p].pc # "idle" /\ req'[p] # req[p] => Rank(req'[p]) < Rank(req[p])]_vars
  BY StepMovesOn
<1> QED BY <1>1, SessionInvariant, PTL DEF Spec, NoRetryLoop
=============================================================================
