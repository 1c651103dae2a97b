---------------------------- MODULE CommandProofs ----------------------------
(***************************************************************************)
(* Proofs about Command: whatever the entity shows as in flight is in      *)
(* flight or has a timer armed that will give up on it, and a command is   *)
(* refused only when the lock's own host says so or every route has        *)
(* failed.                                                                 *)
(***************************************************************************)
EXTENDS Command, LockTrackerProofs, SequenceTheorems, TLAPS

-----------------------------------------------------------------------------
\* The tracker, as a command sees it.

\* u shows no command as in flight that t does not.
Calms(t, u) == u.pending # None => u.pending = t.pending /\ u.since = t.since

\* Clearing on a condition marks nothing.
LEMMA ClearIfCalms ==
  ASSUME NEW t \in Trackers, NEW c \in BOOLEAN
  PROVE  Calms(t, ClearIf(c, t))
<1>1. CASE c
  BY <1>1, ClearIfType DEF Calms
<1>2. CASE ~c
  BY <1>2 DEF ClearIf, Calms
<1> QED BY <1>1, <1>2

\* Giving up clears exactly what has been pending for too long.
LEMMA ExpireCalms ==
  ASSUME NEW t \in Trackers, NEW now \in Nat
  PROVE  LET u == ExpirePending(t, now)
         IN  /\ u \in Trackers /\ Calms(t, u)
             /\ u.pending # None => now < t.since + PendingTimeout
<1> DEFINE late == t.pending # None /\ now - t.since >= PendingTimeout
           u == ClearIf(late, t)
<1>1. ExpirePending(t, now) = u /\ late \in BOOLEAN
  BY DEF ExpirePending
<1>2. u \in Trackers /\ Calms(t, u) /\ u.pending = IF late THEN None ELSE t.pending
  <2> HIDE DEF late
  <2> QED BY <1>1, ClearIfType, ClearIfCalms
<1>3. u.pending # None => now < t.since + PendingTimeout
  <2>1. t.since \in Nat /\ PendingTimeout \in Nat
    BY TrackerAssumption DEF Trackers
  <2>2. u.pending # None => ~late /\ t.pending # None
    BY <1>2
  <2> HIDE DEF u
  <2> QED BY <2>1, <2>2
<1> QED BY <1>1, <1>2, <1>3

\* A poll marks nothing.
LEMMA ApplyPollCalms ==
  ASSUME NEW t \in Trackers, NEW report \in PollReports, NEW now \in Nat
  PROVE  Calms(t, ApplyPoll(t, report, now))
<1> DEFINE told == [t EXCEPT
                 !.bolt = IF report.bolt # None THEN report.bolt ELSE @,
                 !.door = IF report.door # None THEN report.door ELSE @,
                 !.battery = IF report.battery # NoBattery THEN report.battery ELSE @,
                 !.online = report.online]
           settled == ClearIf(Reached(told), told)
           u == ExpirePending(settled, now)
<1>1. told \in Trackers /\ Calms(t, told)
  BY DEF Trackers, PollReports, Calms
<1>2. settled \in Trackers /\ Calms(told, settled)
  <2>1. Reached(told) \in BOOLEAN
    BY DEF Reached
  <2> HIDE DEF told
  <2> QED BY <1>1, <2>1, ClearIfType, ClearIfCalms
<1>3. Calms(settled, u)
  <2> HIDE DEF settled
  <2> QED BY <1>2, ExpireCalms
<1>4. ApplyPoll(t, report, now) = u
  BY DEF ApplyPoll
<1> HIDE DEF told, settled, u
<1> QED BY <1>1, <1>2, <1>3, <1>4 DEF Calms

\* Giving up takes off only what has been pending for too long.
LEMMA ExpireClears ==
  ASSUME NEW t \in Trackers, NEW now \in Nat
  PROVE  LET u == ExpirePending(t, now)
         IN  /\ u = t \/ (u.pending = None /\ u.bolt = t.bolt)
             /\ u # t => now >= t.since + PendingTimeout
<1> DEFINE late == t.pending # None /\ now - t.since >= PendingTimeout
<1>1. t.since \in Nat /\ PendingTimeout \in Nat
  BY TrackerAssumption DEF Trackers
<1>2. late \in BOOLEAN /\ ExpirePending(t, now) = ClearIf(late, t)
  BY DEF ExpirePending
<1>3. late => now >= t.since + PendingTimeout
  BY <1>1
<1> HIDE DEF late
<1>4. CASE late
  BY <1>2, <1>3, <1>4, ClearIfType DEF SameButPending, Face
<1>5. CASE ~late
  BY <1>2, <1>5 DEF ClearIf
<1> QED BY <1>4, <1>5

\* A poll takes off only what the bolt has reached or has been pending for too long.
LEMMA PollClears ==
  ASSUME NEW t \in Trackers, t.pending # None, NEW report \in PollReports, NEW now \in Nat
  PROVE  LET u == ApplyPoll(t, report, now)
         IN  \/ u.pending = t.pending /\ u.since = t.since
             \/ u.bolt = Target(t.pending)
             \/ now >= t.since + PendingTimeout
<1> DEFINE told == [t EXCEPT
                 !.bolt = IF report.bolt # None THEN report.bolt ELSE @,
                 !.door = IF report.door # None THEN report.door ELSE @,
                 !.battery = IF report.battery # NoBattery THEN report.battery ELSE @,
                 !.online = report.online]
           settled == ClearIf(Reached(told), told)
           u == ExpirePending(settled, now)
<1>1. told \in Trackers /\ told.pending = t.pending /\ told.since = t.since
  BY DEF Trackers, PollReports
<1>2. ApplyPoll(t, report, now) = u
  BY DEF ApplyPoll
<1>3. Reached(told) \in BOOLEAN /\ (Reached(told) => told.bolt = Target(t.pending))
  <2> HIDE DEF told
  <2> QED BY <1>1 DEF Reached
<1> HIDE DEF told
<1>4. settled \in Trackers /\ settled.bolt = told.bolt
  BY <1>1, <1>3, ClearIfType DEF SameButPending, Face
<1>5. ~Reached(told) => settled = told
  BY DEF ClearIf
<1> HIDE DEF settled
<1>6. /\ u = settled \/ (u.pending = None /\ u.bolt = settled.bolt)
      /\ u # settled => now >= settled.since + PendingTimeout
  BY <1>4, ExpireClears
<1> HIDE DEF u
<1>7. CASE Reached(told)
  BY <1>2, <1>3, <1>4, <1>6, <1>7
<1>8. CASE ~Reached(told)
  BY <1>1, <1>2, <1>5, <1>6, <1>8
<1> QED BY <1>7, <1>8

\* A frame that is no setLock marks nothing.
LEMMA ApplyCalms ==
  ASSUME NEW t \in Trackers, NEW ev \in Events, ev.kind # "setLock", NEW now \in Nat
  PROVE  Calms(t, Apply(t, ev, now))
<1>1. CASE IsRedelivery(t, ev)
  BY <1>1 DEF Apply, Calms
<1>2. CASE ~IsRedelivery(t, ev)
  <2> DEFINE taken == TakeFacets(t, ev)
             c == ev.kind = "lock" /\ Takes(t, ev, "bolt")
             confirmed == ClearIf(c, taken)
             u == ClearIf(Reached(confirmed), confirmed)
  <2>1. taken \in Trackers
    BY TakeFacetsType
  <2>2. Calms(t, taken)
    BY DEF TakeFacets, Calms, Trackers
  <2>3. c \in BOOLEAN /\ Reached(confirmed) \in BOOLEAN
    BY DEF Reached
  <2>4. Apply(t, ev, now) = u
    BY <1>2 DEF Apply, SettlePending
  <2> HIDE DEF taken, c
  <2>5. confirmed \in Trackers /\ Calms(taken, confirmed)
    BY <2>1, <2>3, ClearIfType, ClearIfCalms
  <2> HIDE DEF confirmed
  <2>6. Calms(confirmed, u)
    BY <2>3, <2>5, ClearIfCalms
  <2> HIDE DEF u
  <2> QED BY <2>2, <2>4, <2>5, <2>6 DEF Calms
<1> QED BY <1>1, <1>2

\* What a frame does is settled by its body and its key.
LEMMA SameBody ==
  ASSUME NEW t, NEW a, NEW b, NEW now,
         a.kind = b.kind, a.state = b.state, a.battery = b.battery,
         a.ts = b.ts, a.mid = b.mid
  PROVE  Apply(t, a, now) = Apply(t, b, now)
<1>1. Identity(a) = Identity(b) /\ Key(a) = Key(b)
  BY DEF Identity, Key
<1>2. ASSUME NEW f PROVE Takes(t, a, f) = Takes(t, b, f)
  BY <1>1 DEF Takes, Offers
<1>3. IsRedelivery(t, a) = IsRedelivery(t, b)
  BY <1>1 DEF IsRedelivery
<1>4. TakeFacets(t, a) = TakeFacets(t, b)
  BY <1>1, <1>2 DEF TakeFacets
<1>5. SettlePending(t, TakeFacets(t, a), a, now) = SettlePending(t, TakeFacets(t, b), b, now)
  BY <1>2, <1>4 DEF SettlePending
<1> QED BY <1>3, <1>5 DEF Apply

-----------------------------------------------------------------------------
\* The routes of a call.

\* s tries every route, each once.
TriesAll(s) == s \in Seq(Routes) /\ IsInjective(s) /\ Range(s) = Routes

LEMMA AllRoutes ==
  LET all == << Home >> \o Fallbacks
  IN  /\ TriesAll(all)
      /\ \A i \in DOMAIN all \ {1} : all[i] \in Range(Fallbacks)
<1> DEFINE all == << Home >> \o Fallbacks
<1>1. Fallbacks \in Seq(Routes) /\ << Home >> \in Seq(Routes)
  BY CommandAssumption DEF Routes
<1>2. /\ all \in Seq(Routes) /\ Len(all) = Len(Fallbacks) + 1
      /\ all[1] = Home /\ \A i \in 1..Len(Fallbacks) : all[i + 1] = Fallbacks[i]
  BY <1>1
<1>3. \A i \in 1..Len(Fallbacks) : Fallbacks[i] \in Range(Fallbacks)
  BY <1>1 DEF Range
<1>4. \A i \in 2..Len(all) : i - 1 \in 1..Len(Fallbacks) /\ all[i] = Fallbacks[i - 1]
  BY <1>1, <1>2
<1> HIDE DEF all
<1>5. IsInjective(all)
  <2>1. DOMAIN all = 1..Len(all) /\ DOMAIN Fallbacks = 1..Len(Fallbacks)
    BY <1>1, <1>2
  <2>2. \A i, j \in 1..Len(Fallbacks) : Fallbacks[i] = Fallbacks[j] => i = j
    BY <2>1, CommandAssumption DEF IsInjective
  <2>3. \A i \in 1..Len(Fallbacks) : Fallbacks[i] # Home
    BY <1>3, CommandAssumption
  <2>4. ASSUME NEW i \in 1..Len(all), NEW j \in 1..Len(all), all[i] = all[j]
        PROVE  i = j
    <3>1. CASE i = 1 /\ j = 1
      BY <3>1
    <3>2. CASE i # 1 /\ j # 1
      <4>1. i \in 2..Len(all) /\ j \in 2..Len(all)
        BY <1>1, <1>2, <3>2
      <4>2. i - 1 = j - 1
        BY <1>4, <2>2, <2>4, <4>1
      <4> QED BY <4>1, <4>2
    <3>3. CASE i = 1 /\ j # 1
      <4>1. j \in 2..Len(all)
        BY <1>1, <1>2, <3>3
      <4> QED BY <1>2, <1>4, <2>3, <2>4, <3>3, <4>1
    <3>4. CASE i # 1 /\ j = 1
      <4>1. i \in 2..Len(all)
        BY <1>1, <1>2, <3>4
      <4> QED BY <1>2, <1>4, <2>3, <2>4, <3>4, <4>1
    <3> QED BY <3>1, <3>2, <3>3, <3>4
  <2> QED BY <2>1, <2>4 DEF IsInjective
<1>6. Routes \subseteq Range(all)
  <2>1. ASSUME NEW i \in 1..Len(Fallbacks) PROVE Fallbacks[i] \in Range(all)
    <3>1. i + 1 \in DOMAIN all /\ all[i + 1] = Fallbacks[i]
      BY <1>1, <1>2
    <3> QED BY <3>1 DEF Range
  <2>2. Home \in Range(all)
    <3>1. 1 \in DOMAIN all
      BY <1>1, <1>2
    <3> QED BY <1>2, <3>1 DEF Range
  <2> QED BY <1>1, <2>1, <2>2 DEF Routes, Range
<1>7. Range(all) \subseteq Routes
  BY <1>2 DEF Range
<1>8. ASSUME NEW i \in DOMAIN all \ {1}
      PROVE  all[i] \in Range(Fallbacks)
  <2>1. i \in 2..Len(all)
    BY <1>1, <1>2
  <2> QED BY <1>3, <1>4, <2>1
<1> QED BY <1>2, <1>5, <1>6, <1>7, <1>8 DEF TriesAll, all

\* Taking one route to the front leaves them all, each once.
LEMMA ToTheFront ==
  ASSUME NEW s, TriesAll(s), NEW i \in DOMAIN s
  PROVE  TriesAll(<< s[i] >> \o RemoveAt(s, i))
<1> DEFINE n == Len(s)
           a == SubSeq(s, 1, i - 1)
           b == SubSeq(s, i + 1, n)
           rest == RemoveAt(s, i)
           u == << s[i] >> \o rest
<1>1. s \in Seq(Routes) /\ n \in Nat /\ i \in 1..n /\ s[i] \in Routes
  BY DEF TriesAll
<1>2. /\ a \in Seq(Routes) /\ Len(a) = i - 1
      /\ \A j \in 1..(i - 1) : a[j] = s[j]
  BY <1>1
<1>3. /\ b \in Seq(Routes) /\ Len(b) = n - i
      /\ \A j \in 1..(n - i) : b[j] = s[i + j]
  BY <1>1
<1>4. /\ rest \in Seq(Routes) /\ Len(rest) = n - 1
      /\ \A j \in 1..(n - 1) : rest[j] = IF j < i THEN s[j] ELSE s[j + 1]
  <2>1. rest = a \o b
    BY DEF RemoveAt
  <2> HIDE DEF a, b, rest
  <2> QED BY <1>1, <1>2, <1>3, <2>1
<1> HIDE DEF rest, a, b
<1>5. /\ u \in Seq(Routes) /\ Len(u) = n
      /\ u[1] = s[i] /\ \A j \in 1..(n - 1) : u[j + 1] = rest[j]
  BY <1>1, <1>4
<1>6. \A j \in 2..n : u[j] = IF j <= i THEN s[j - 1] ELSE s[j]
  <2>1. ASSUME NEW j \in 2..n PROVE u[j] = IF j <= i THEN s[j - 1] ELSE s[j]
    <3>1. j - 1 \in 1..(n - 1) /\ (j - 1) + 1 = j /\ (j - 1 < i <=> j <= i)
      BY <1>1
    <3> QED BY <1>4, <1>5, <3>1
  <2> QED BY <2>1
<1> HIDE DEF u
<1>7. IsInjective(u)
  <2>1. DOMAIN u = 1..n /\ DOMAIN s = 1..n
    BY <1>1, <1>5
  <2>2. \A j, k \in 1..n : s[j] = s[k] => j = k
    BY <2>1 DEF TriesAll, IsInjective
  <2> DEFINE from(j) == IF j = 1 THEN i ELSE IF j <= i THEN j - 1 ELSE j
  <2>3. \A j \in 1..n : from(j) \in 1..n /\ u[j] = s[from(j)]
    BY <1>1, <1>5, <1>6
  <2>4. \A j, k \in 1..n : from(j) = from(k) => j = k
    BY <1>1
  <2> HIDE DEF from
  <2> QED BY <2>1, <2>2, <2>3, <2>4 DEF IsInjective
<1>8. Range(u) = Routes
  <2>1. DOMAIN u = 1..n /\ DOMAIN s = 1..n
    BY <1>1, <1>5
  <2>2. ASSUME NEW j \in 1..n PROVE \E k \in 1..n : u[k] = s[j]
    <3>1. CASE j = i BY <1>1, <1>5, <3>1
    <3>2. CASE j < i
      <4>1. j + 1 \in 2..n /\ j + 1 <= i
        BY <1>1, <3>2
      <4> QED BY <1>6, <4>1
    <3>3. CASE j > i
      <4>1. j \in 2..n /\ ~(j <= i)
        BY <1>1, <3>3
      <4> QED BY <1>6, <4>1
    <3> QED BY <1>1, <3>1, <3>2, <3>3
  <2>3. Range(u) \subseteq Routes
    BY <1>5 DEF Range
  <2>4. Range(s) \subseteq Range(u)
    BY <2>1, <2>2 DEF Range
  <2> QED BY <2>3, <2>4 DEF TriesAll
<1>9. TriesAll(u)
  BY <1>5, <1>7, <1>8 DEF TriesAll
<1> QED BY <1>9 DEF u, rest

LEMMA SomeRoute ==
  ASSUME NEW s, TriesAll(s)
  PROVE  s # << >>
<1>1. Home \in Range(s)
  BY DEF TriesAll, Routes
<1>2. \E i \in DOMAIN s : TRUE
  BY <1>1 DEF Range
<1> QED BY <1>2 DEF TriesAll

\* A call begins with every route before it.
LEMMA RoutesNowTriesAll ==
  ASSUME learned \in Routes \cup {NoRoute}
  PROVE  TriesAll(RoutesNow) /\ RoutesNow # << >>
<1> DEFINE all == << Home >> \o Fallbacks
           i == CHOOSE j \in DOMAIN all : all[j] = learned
<1>1. TriesAll(all)
  BY AllRoutes
<1>2. CASE learned = NoRoute
  <2>1. RoutesNow = all
    BY <1>2 DEF RoutesNow
  <2> QED BY <1>1, <2>1, SomeRoute
<1>3. CASE learned # NoRoute
  <2>1. \E j \in DOMAIN all : all[j] = learned
    BY <1>1, <1>3 DEF TriesAll, Range
  <2>2. i \in DOMAIN all /\ all[i] = learned
    BY <2>1
  <2>3. RoutesNow = << all[i] >> \o RemoveAt(all, i)
    BY <1>3, <2>2 DEF RoutesNow
  <2> HIDE DEF all, i
  <2>4. TriesAll(RoutesNow)
    BY <1>1, <2>2, <2>3, ToTheFront
  <2> QED BY <2>4, SomeRoute
<1> QED BY <1>2, <1>3

LEMMA SecondPart ==
  ASSUME NEW S, NEW s \in Seq(S), NEW t \in Seq(S), NEW j \in 1..Len(t)
  PROVE  (s \o t)[Len(s) + j] = t[j]
OBVIOUS

\* Going on to the next route keeps the ones tried and the ones left together.
LEMMA OneMoreTried ==
  ASSUME NEW tried \in Seq(Routes), NEW todo \in Seq(Routes), todo # << >>,
         TriesAll(tried \o todo)
  PROVE  LET after == Append(tried, Head(todo))
         IN  /\ after \in Seq(Routes) /\ Tail(todo) \in Seq(Routes)
             /\ TriesAll(after \o Tail(todo))
             /\ Len(todo) = 1 => Tail(todo) = << >>
             /\ Len(todo) > 1 => Tail(todo) # << >>
<1> DEFINE after == Append(tried, Head(todo))
<1>1. after \in Seq(Routes) /\ Tail(todo) \in Seq(Routes)
  OBVIOUS
<1>2. after \o Tail(todo) = tried \o todo
  <2> DEFINE n == Len(tried)
             m == Len(todo)
             a == after \o Tail(todo)
             b == tried \o todo
  <2>1. /\ n \in Nat /\ m \in Nat \ {0}
        /\ Len(after) = n + 1 /\ after[n + 1] = todo[1]
        /\ \A i \in 1..n : after[i] = tried[i]
        /\ Len(Tail(todo)) = m - 1
        /\ \A i \in 1..(m - 1) : Tail(todo)[i] = todo[i + 1]
    OBVIOUS
  <2>2. b \in Seq(Routes) /\ Len(b) = n + m /\ DOMAIN b = 1..(n + m)
    BY <2>1
  <2>3. a \in Seq(Routes) /\ Len(a) = n + m /\ DOMAIN a = 1..(n + m)
    <3> HIDE DEF after
    <3> QED BY <1>1, <2>1
  <2>4. ASSUME NEW i \in 1..(n + m) PROVE a[i] = b[i]
    <3>1. CASE i <= n
      <4> HIDE DEF after
      <4>1. i \in 1..n /\ i \in 1..(n + 1)
        BY <2>1, <3>1
      <4>2. a[i] = after[i]
        BY <1>1, <2>1, <4>1
      <4>3. b[i] = tried[i]
        BY <2>1, <4>1
      <4> QED BY <2>1, <4>1, <4>2, <4>3
    <3>2. CASE i = n + 1
      <4> HIDE DEF after
      <4>1. a[i] = after[n + 1]
        BY <1>1, <2>1, <3>2
      <4>2. b[i] = todo[1]
        BY <2>1, <3>2
      <4> QED BY <2>1, <4>1, <4>2
    <3>3. CASE i > n + 1
      <4> HIDE DEF after
      <4>1. i - (n + 1) \in 1..(m - 1) /\ (i - (n + 1)) + 1 = i - n
        BY <2>1, <3>3
      <4>2. a[i] = Tail(todo)[i - (n + 1)]
        <5>1. i = Len(after) + (i - (n + 1)) /\ i - (n + 1) \in 1..Len(Tail(todo))
          BY <1>1, <2>1, <4>1
        <5> QED BY <1>1, <5>1, SecondPart
      <4>3. b[i] = todo[i - n]
        BY <2>1, <3>3
      <4> QED BY <2>1, <4>1, <4>2, <4>3
    <3> QED BY <2>1, <3>1, <3>2, <3>3
  <2> HIDE DEF a, b
  <2>5. a = b
    BY <2>2, <2>3, <2>4
  <2> QED BY <2>5 DEF a, b
<1>3. Len(todo) = 1 => Tail(todo) = << >>
  <2>1. Len(todo) = 1 => Len(Tail(todo)) = 0
    OBVIOUS
  <2> QED BY <1>1, <2>1, EmptySeq
<1>4. TriesAll(after \o Tail(todo))
  BY <1>2
<1>5. Len(todo) > 1 => Tail(todo) # << >>
  <2>1. Len(Tail(todo)) = Len(todo) - 1 /\ Len(todo) \in Nat
    OBVIOUS
  <2>2. Len(todo) > 1 => Len(Tail(todo)) # 0
    BY <2>1
  <2> QED BY <2>2, EmptySeq
<1> QED BY <1>1, <1>3, <1>4, <1>5

-----------------------------------------------------------------------------
\* The inductive invariant.

\* A call's routes, tried and left, are all routes, each once.
RoutesOK(s) ==
  /\ s.pc # "idle" => TriesAll(s.tried \o s.todo)
  /\ s.pc = "idle" => s.tried = << >> /\ s.todo = << >>
  /\ s.pc = "send" => s.todo # << >>
  /\ s.pc = "refused" => s.final \/ s.todo = << >>

CallOK(s) == s \in Calls /\ RoutesOK(s)

Sane == tr.pending # None => tr.since <= clock

World == bolt \in BoltStates /\ asked \subseteq BoltStates /\ covered \in BOOLEAN
         /\ clock \in Nat /\ frames \in Nat /\ tr \in Trackers
         /\ learned \in Routes \cup {NoRoute} /\ timers \subseteq Timers

IInv ==
  /\ World /\ Sane /\ PendingIsWatched
  /\ cmd \in [Commands -> Calls] /\ \A c \in Commands : CallOK(cmd[c])

\* A call that goes on, or ends, on its present route.
LEMMA CallEnds ==
  ASSUME IInv, NEW c \in Commands, cmd[c].pc = "send",
         NEW pc \in {"send", "sent", "refused", "unreachable", "crashed"},
         NEW final \in BOOLEAN,
         pc = "send" => Len(cmd[c].todo) > 1,
         pc = "refused" => final \/ Len(cmd[c].todo) = 1
  PROVE  /\ CallOK([Ends(c, pc) EXCEPT !.final = final])
         /\ Head(cmd[c].todo) \in Routes
         /\ Ends(c, pc) = [Ends(c, pc) EXCEPT !.final = cmd[c].final]
         /\ [Ends(c, pc) EXCEPT !.final = final].pc = pc
         /\ cmd[c].target \in BoltStates /\ cmd[c].final \in BOOLEAN
<1> DEFINE s == cmd[c]
           tried == Append(s.tried, Head(s.todo))
           u == [Ends(c, pc) EXCEPT !.final = final]
<1>1. /\ s \in Calls /\ TriesAll(s.tried \o s.todo) /\ s.todo # << >>
      /\ s.tried \in Seq(Routes) /\ s.todo \in Seq(Routes)
      /\ s.target \in BoltStates /\ s.final \in BOOLEAN
  BY DEF IInv, CallOK, RoutesOK, Calls
<1>2. /\ tried \in Seq(Routes) /\ Tail(s.todo) \in Seq(Routes)
      /\ TriesAll(tried \o Tail(s.todo))
      /\ Len(s.todo) = 1 => Tail(s.todo) = << >>
  BY <1>1, OneMoreTried
<1>3. Head(s.todo) \in Routes
  BY <1>1
<1>4. pc = "send" => Tail(s.todo) # << >>
  BY <1>1, OneMoreTried
<1>5. Ends(c, pc) = [s EXCEPT !.pc = pc, !.todo = Tail(s.todo), !.tried = tried]
  BY DEF Ends
<1>6. Ends(c, pc) \in Calls /\ Ends(c, pc).final = s.final
  <2> HIDE DEF s, tried
  <2> QED BY <1>1, <1>2, <1>5 DEF Calls
<1>7. /\ u \in Calls /\ u.pc = pc /\ u.tried = tried /\ u.todo = Tail(s.todo)
      /\ u.final = final
  <2> HIDE DEF s, tried
  <2> QED BY <1>1, <1>2, <1>5 DEF Calls
<1>8. Ends(c, pc) = [Ends(c, pc) EXCEPT !.final = s.final]
  <2> HIDE DEF s
  <2> QED BY <1>6 DEF Calls
<1>9. RoutesOK(u)
  <2> HIDE DEF u, s, tried
  <2>1. Len(s.todo) = 1 => u.todo = << >>
    BY <1>2, <1>7
  <2>2. pc = "refused" => u.final \/ u.todo = << >>
    BY <1>7, <2>1 DEF s
  <2> QED BY <1>2, <1>4, <1>7, <2>2 DEF RoutesOK
<1> HIDE DEF u
<1>10. CallOK(u)
  BY <1>7, <1>9 DEF CallOK
<1> QED BY <1>1, <1>3, <1>7, <1>8, <1>10 DEF u

LEMMA InvariantInit == Init => IInv
<1> SUFFICES ASSUME Init PROVE IInv
  OBVIOUS
<1>1. Idle \in Calls /\ RoutesOK(Idle)
  BY DEF Idle, Calls, RoutesOK, BoltStates
<1>2. tr \in Trackers /\ tr.pending = None
  <2>1. << >> \in Seq(Identities)
    OBVIOUS
  <2>2. [f \in Facets |-> NoKey] \in [Facets -> Keys]
    BY DEF Keys
  <2> QED BY <2>1, <2>2 DEF Init, NewTracker, Trackers, Levels
<1>3. World
  BY <1>2, CommandAssumption DEF Init, World
<1> QED BY <1>1, <1>2, <1>3 DEF Init, IInv, Sane, PendingIsWatched, CallOK

\* A step that marks nothing, keeps the calls in flight and the timers that give up.
LEMMA WatchedKept ==
  ASSUME IInv, Calms(tr, tr'), clock' \in Nat, clock' >= clock,
         \A c \in Commands : cmd[c].pc \in {"send", "crashed"}
                               => cmd'[c].pc \in {"send", "crashed"},
         \A t \in timers : t.what = "expire" => t \in timers'
  PROVE  Sane' /\ PendingIsWatched'
<1>1. Sane'
  <2>1. tr.since \in Nat /\ clock \in Nat
    BY DEF IInv, World, Trackers
  <2> QED BY <2>1 DEF IInv, Sane, Calms
<1>2. PendingIsWatched'
  <2> SUFFICES ASSUME tr'.pending # None PROVE PendingIsWatched'
    BY DEF PendingIsWatched
  <2>1. tr.pending # None /\ tr'.since = tr.since
    BY DEF Calms
  <2>2. CASE \E c \in Commands : cmd[c].pc \in {"send", "crashed"}
    BY <2>2 DEF PendingIsWatched, InFlight
  <2>3. CASE \E t \in timers : t.what = "expire" /\ t.at >= tr.since + PendingTimeout
    BY <2>1, <2>3 DEF PendingIsWatched
  <2> QED BY <2>1, <2>2, <2>3 DEF IInv, PendingIsWatched, InFlight
<1> QED BY <1>1, <1>2

\* One step of one call.
LEMMA CallStep ==
  ASSUME IInv, NEW c \in Commands,
         Call(c) \/ Accepted(c) \/ NextRoute(c) \/ Refused(c) \/ Unreachable(c)
           \/ Crashes(c)
  PROVE  IInv'
<1>1. /\ World /\ cmd[c] \in Calls /\ cmd \in [Commands -> Calls]
      /\ tr \in Trackers /\ clock \in Nat /\ tr.since \in Nat
      /\ PendingTimeout \in Nat
  BY TrackerAssumption DEF IInv, World, Trackers
<1>2. ASSUME NEW s, CallOK(s), cmd' = [cmd EXCEPT ![c] = s]
      PROVE  cmd' \in [Commands -> Calls] /\ \A d \in Commands : CallOK(cmd'[d])
  <2>1. cmd' \in [Commands -> Calls]
    BY <1>1, <1>2 DEF CallOK
  <2>2. ASSUME NEW d \in Commands PROVE CallOK(cmd'[d])
    <3>1. CASE d = c BY <1>1, <1>2, <3>1
    <3>2. CASE d # c
      <4>1. cmd'[d] = cmd[d] BY <1>1, <1>2, <3>2
      <4> QED BY <4>1 DEF IInv
    <3> QED BY <3>1, <3>2
  <2> QED BY <2>1, <2>2
<1>3. CASE Call(c)
  <2> PICK target \in BoltStates :
        /\ tr' = SetPending(tr, Request(target), clock)
        /\ cmd' = [cmd EXCEPT ![c] = [Idle EXCEPT !.pc = "send", !.target = target,
                                                  !.todo = RoutesNow]]
    BY <1>3 DEF Call
  <2> DEFINE s == [Idle EXCEPT !.pc = "send", !.target = target, !.todo = RoutesNow]
  <2>1. TriesAll(RoutesNow) /\ RoutesNow # << >> /\ RoutesNow \in Seq(Routes)
    BY <1>1, RoutesNowTriesAll DEF World, TriesAll
  <2>2. s \in Calls /\ s.pc = "send" /\ s.todo = RoutesNow /\ s.tried = << >>
    <3>1. Idle \in Calls
      BY DEF Idle, Calls, BoltStates
    <3>2. Idle.tried = << >>
      BY DEF Idle
    <3> HIDE DEF s
    <3>3. s = [Idle EXCEPT !.pc = "send", !.target = target, !.todo = RoutesNow]
      BY DEF s
    <3> QED BY <2>1, <3>1, <3>2, <3>3 DEF Calls
  <2>3. << >> \o RoutesNow = RoutesNow /\ << >> \in Seq(Routes)
    BY <2>1, ConcatEmptySeq
  <2>4. CallOK(s)
    <3> HIDE DEF s
    <3>1. RoutesOK(s)
      BY <2>1, <2>2, <2>3 DEF RoutesOK
    <3> QED BY <2>2, <3>1 DEF CallOK
  <2>5. cmd' \in [Commands -> Calls] /\ \A d \in Commands : CallOK(cmd'[d])
    <3> HIDE DEF s
    <3>1. cmd' = [cmd EXCEPT ![c] = s]
      BY DEF s
    <3> QED BY <1>2, <2>4, <3>1
  <2>6. InFlight'
    <3>1. cmd'[c].pc = "send"
      BY <1>1, <2>2
    <3> QED BY <3>1 DEF InFlight
  <2>7. Request(target) \in Pendings /\ Request(target) # None
    BY DEF Request, Pendings, None
  <2>8. tr' \in Trackers
    BY <1>1, <2>7, SetPendingType
  <2>9. Sane'
    <3>1. clock' = clock /\ (tr' = tr \/ tr'.since = clock)
      BY <1>1, <1>3, <2>7 DEF Call, SetPending, Trackers
    <3> QED BY <1>1, <3>1 DEF IInv, Sane
  <2>10. World'
    BY <1>1, <1>3, <2>8 DEF Call, World
  <2> QED BY <2>5, <2>6, <2>9, <2>10 DEF IInv, PendingIsWatched
<1>4. CASE Accepted(c)
  <2>1. /\ CallOK([Ends(c, "sent") EXCEPT !.final = cmd[c].final])
        /\ Ends(c, "sent") = [Ends(c, "sent") EXCEPT !.final = cmd[c].final]
        /\ Head(cmd[c].todo) \in Routes /\ cmd[c].target \in BoltStates
    BY <1>1, <1>4, CallEnds DEF Accepted, Calls
  <2>2. cmd' = [cmd EXCEPT ![c] = Ends(c, "sent")] /\ CallOK(Ends(c, "sent"))
    BY <1>4, <2>1 DEF Accepted
  <2>3. cmd' \in [Commands -> Calls] /\ \A d \in Commands : CallOK(cmd'[d])
    BY <1>2, <2>2
  <2> DEFINE give == [at |-> clock + PendingTimeout + 1, what |-> "expire"]
  <2>4. timers' \subseteq Timers /\ give \in timers'
    <3>1. give \in Timers
      BY <1>1 DEF Timers
    <3>2. ASSUME NEW delay \in FollowUps
          PROVE  [at |-> clock + delay, what |-> "poll"] \in Timers
      BY <1>1, CommandAssumption DEF Timers
    <3> QED BY <1>1, <1>4, <3>1, <3>2 DEF Accepted, World
  <2>5. World'
    BY <1>1, <1>4, <2>1, <2>4 DEF Accepted, World
  <2>6. Sane'
    BY <1>1, <1>4 DEF Accepted, IInv, Sane
  <2>7. PendingIsWatched'
    <3>1. tr' = tr /\ clock' = clock
      BY <1>4 DEF Accepted
    <3>2. tr.pending # None => give.at >= tr.since + PendingTimeout
      BY <1>1 DEF IInv, Sane
    <3> QED BY <2>4, <3>1, <3>2 DEF PendingIsWatched
  <2> QED BY <2>3, <2>5, <2>6, <2>7 DEF IInv
<1>5. CASE NextRoute(c)
  <2>1. /\ CallOK([Ends(c, "send") EXCEPT !.final = cmd[c].final])
        /\ Ends(c, "send") = [Ends(c, "send") EXCEPT !.final = cmd[c].final]
    BY <1>1, <1>5, CallEnds DEF NextRoute, Calls
  <2>2. cmd' = [cmd EXCEPT ![c] = Ends(c, "send")] /\ CallOK(Ends(c, "send"))
    BY <1>5, <2>1 DEF NextRoute
  <2>3. cmd' \in [Commands -> Calls] /\ \A d \in Commands : CallOK(cmd'[d])
    BY <1>2, <2>2
  <2>4. World' /\ Calms(tr, tr') /\ clock' = clock /\ timers' = timers
    BY <1>1, <1>5 DEF NextRoute, World, Calms
  <2>5. \A d \in Commands : d # c => cmd'[d] = cmd[d]
    BY <1>1, <2>2
  <2>6. cmd'[c].pc = "send"
    BY <1>1, <2>2 DEF Ends, Calls
  <2>7. Sane' /\ PendingIsWatched'
    BY <1>1, <2>4, <2>5, <2>6, WatchedKept
  <2> QED BY <2>3, <2>4, <2>7 DEF IInv
<1>6. CASE Refused(c)
  <2> PICK json \in BOOLEAN :
        /\ json \/ Len(cmd[c].todo) = 1
        /\ cmd' = [cmd EXCEPT ![c] =
                     [Ends(c, "refused") EXCEPT !.final = Head(cmd[c].todo) = Home /\ json]]
    BY <1>6 DEF Refused
  <2> DEFINE final == Head(cmd[c].todo) = Home /\ json
  <2>1. CallOK([Ends(c, "refused") EXCEPT !.final = final])
    <3>1. final \in BOOLEAN /\ (final \/ Len(cmd[c].todo) = 1)
      BY <1>6 DEF Refused
    <3> HIDE DEF final
    <3> QED BY <1>6, <3>1, CallEnds DEF Refused
  <2>2. cmd' \in [Commands -> Calls] /\ \A d \in Commands : CallOK(cmd'[d])
    BY <1>2, <2>1
  <2>3. tr' \in Trackers /\ tr'.pending = None
    BY <1>1, <1>6, SetPendingType DEF Refused, Pendings
  <2>4. World' /\ Sane' /\ PendingIsWatched'
    BY <1>1, <1>6, <2>3 DEF Refused, World, Sane, PendingIsWatched
  <2> QED BY <2>2, <2>4 DEF IInv
<1>7. CASE Unreachable(c)
  <2>1. /\ CallOK([Ends(c, "unreachable") EXCEPT !.final = cmd[c].final])
        /\ Ends(c, "unreachable") = [Ends(c, "unreachable") EXCEPT !.final = cmd[c].final]
        /\ cmd[c].target \in BoltStates
    BY <1>1, <1>7, CallEnds DEF Unreachable, Calls
  <2>2. cmd' = [cmd EXCEPT ![c] = Ends(c, "unreachable")] /\ CallOK(Ends(c, "unreachable"))
    BY <1>7, <2>1 DEF Unreachable
  <2>3. cmd' \in [Commands -> Calls] /\ \A d \in Commands : CallOK(cmd'[d])
    BY <1>2, <2>2
  <2>4. tr' \in Trackers /\ tr'.pending = None
    BY <1>1, <1>7, SetPendingType DEF Unreachable, Pendings
  <2>5. asked' \subseteq BoltStates
    BY <1>1, <1>7, <2>1 DEF Unreachable, World
  <2>6. World' /\ Sane' /\ PendingIsWatched'
    BY <1>1, <1>7, <2>4, <2>5 DEF Unreachable, World, Sane, PendingIsWatched
  <2> QED BY <2>3, <2>6 DEF IInv
<1>8. CASE Crashes(c)
  <2>1. /\ CallOK([Ends(c, "crashed") EXCEPT !.final = cmd[c].final])
        /\ Ends(c, "crashed") = [Ends(c, "crashed") EXCEPT !.final = cmd[c].final]
    BY <1>1, <1>8, CallEnds DEF Crashes, Calls
  <2>2. cmd' = [cmd EXCEPT ![c] = Ends(c, "crashed")] /\ CallOK(Ends(c, "crashed"))
    BY <1>8, <2>1 DEF Crashes
  <2>3. cmd' \in [Commands -> Calls] /\ \A d \in Commands : CallOK(cmd'[d])
    BY <1>2, <2>2
  <2>4. World' /\ Calms(tr, tr') /\ clock' = clock /\ timers' = timers
    BY <1>1, <1>8 DEF Crashes, World, Calms
  <2>5. \A d \in Commands : d # c => cmd'[d] = cmd[d]
    BY <1>1, <2>2
  <2>6. cmd'[c].pc = "crashed"
    BY <1>1, <2>2 DEF Ends, Calls
  <2>7. Sane' /\ PendingIsWatched'
    BY <1>1, <2>4, <2>5, <2>6, WatchedKept
  <2> QED BY <2>3, <2>4, <2>7 DEF IInv
<1> QED BY <1>3, <1>4, <1>5, <1>6, <1>7, <1>8

\* One step of a timer, a poll, the lock, its WebSocket or the clock.
LEMMA WorldStep ==
  ASSUME IInv,
         Expires \/ FollowUpFires \/ Poll \/ Actuates \/ SocketFlips \/ Tick
           \/ UNCHANGED vars
  PROVE  IInv'
<1>1. /\ World /\ bolt \in BoltStates /\ tr \in Trackers /\ clock \in Nat /\ frames \in Nat
      /\ tr.since \in Nat /\ timers \subseteq Timers
  BY DEF IInv, World, Trackers
<1>2. cmd' = cmd
  BY DEF Expires, FollowUpFires, Poll, Actuates, SocketFlips, Tick, vars
<1>3. cmd' \in [Commands -> Calls] /\ \A c \in Commands : CallOK(cmd'[c])
  BY <1>2 DEF IInv
<1>4. ASSUME Calms(tr, tr'), clock' \in Nat, clock' >= clock,
             \A t \in timers : t.what = "expire" => t \in timers',
             World'
      PROVE  IInv'
  <2>1. Sane' /\ PendingIsWatched'
    BY <1>2, <1>4, WatchedKept
  <2> QED BY <1>3, <1>4, <2>1 DEF IInv
<1>5. Answer \in PollReports
  BY <1>1 DEF Answer, PollReports, Levels
<1>6. ApplyPoll(tr, Answer, clock) \in Trackers /\ Calms(tr, ApplyPoll(tr, Answer, clock))
  BY <1>1, <1>5, ApplyPollType, ApplyPollCalms
<1>7. CASE Expires
  <2> PICK t \in Due("expire") :
        /\ tr' = ExpirePending(tr, clock) /\ timers' = timers \ {t}
        /\ UNCHANGED <<bolt, asked, covered, clock, frames, learned, cmd>>
    BY <1>7 DEF Expires
  <2>1. /\ tr' \in Trackers /\ Calms(tr, tr')
        /\ tr'.pending # None => clock < tr'.since + PendingTimeout
    <3>1. tr'.pending # None => clock < tr.since + PendingTimeout
      BY <1>1, ExpireCalms
    <3>2. tr' \in Trackers /\ Calms(tr, tr')
      BY <1>1, ExpireCalms
    <3> QED BY <3>1, <3>2 DEF Calms
  <2>2. t.at = clock /\ PendingTimeout \in Nat
    BY TrackerAssumption DEF Due
  <2>3. World'
    BY <1>1, <2>1 DEF World
  <2>4. Sane'
    BY <2>1 DEF IInv, Sane, Calms
  <2>5. PendingIsWatched'
    <3> SUFFICES ASSUME tr'.pending # None PROVE PendingIsWatched'
      BY DEF PendingIsWatched
    <3>1. tr.pending # None /\ tr'.since = tr.since /\ tr'.since \in Nat
      BY <1>1, <2>1 DEF Calms
    <3>2. CASE \E c \in Commands : cmd[c].pc \in {"send", "crashed"}
      BY <1>2, <3>2 DEF PendingIsWatched, InFlight
    <3>3. CASE \E x \in timers : x.what = "expire" /\ x.at >= tr.since + PendingTimeout
      <4> PICK x \in timers : x.what = "expire" /\ x.at >= tr.since + PendingTimeout
        BY <3>3
      <4>1. x # t
        BY <1>1, <2>1, <2>2, <3>1
      <4> QED BY <3>1, <4>1 DEF PendingIsWatched
    <3> QED BY <3>1, <3>2, <3>3 DEF IInv, PendingIsWatched, InFlight
  <2> QED BY <1>3, <2>3, <2>4, <2>5 DEF IInv
<1>8. CASE FollowUpFires
  <2>1. World' /\ Calms(tr, tr') /\ clock' = clock
    BY <1>1, <1>6, <1>8 DEF FollowUpFires, World
  <2>2. \A t \in timers : t.what = "expire" => t \in timers'
    BY <1>8 DEF FollowUpFires, Due
  <2> QED BY <1>1, <1>4, <2>1, <2>2
<1>9. CASE Poll
  <2>1. World' /\ Calms(tr, tr') /\ clock' = clock /\ timers' = timers
    BY <1>1, <1>6, <1>9 DEF Poll, World
  <2> QED BY <1>1, <1>4, <2>1
<1>10. CASE Actuates
  <2> PICK target \in asked :
        /\ asked' = asked \ {target} /\ bolt' = target
        /\ IF target = bolt THEN UNCHANGED <<frames, tr>> ELSE Hear("lock", target)
        /\ UNCHANGED <<covered, clock, learned, cmd, timers>>
    BY <1>10 DEF Actuates
  <2>1. target \in BoltStates
    BY <1>1 DEF World
  <2> DEFINE heard == [kind |-> "lock", state |-> target, battery |-> NoBattery,
                       ts |-> clock, mid |-> frames + 1]
             full == [kind |-> "lock", state |-> target, battery |-> NoBattery,
                      ts |-> clock, mid |-> frames + 1, boot |-> 0, seq |-> 0]
  <2>2. full \in Events
    BY <1>1, <2>1 DEF Events, Kinds, States, Levels
  <2>3. Apply(tr, heard, clock) = Apply(tr, full, clock)
    BY SameBody
  <2>4. Apply(tr, full, clock) \in Trackers /\ Calms(tr, Apply(tr, full, clock))
    <3>1. full.kind # "setLock"
      OBVIOUS
    <3> HIDE DEF full
    <3> QED BY <1>1, <2>2, <3>1, ApplyType, ApplyCalms
  <2>5. \/ tr' = tr /\ frames' = frames
        \/ tr' = Apply(tr, heard, clock) /\ frames' = frames + 1
    BY DEF Hear
  <2> HIDE DEF heard, full
  <2>6. tr' \in Trackers /\ frames' \in Nat /\ Calms(tr, tr')
    BY <1>1, <2>3, <2>4, <2>5 DEF Calms
  <2>7. World'
    BY <2>1, <2>6 DEF IInv, World
  <2> QED BY <1>1, <1>4, <2>6, <2>7
<1>11. CASE SocketFlips
  <2>1. World' /\ Calms(tr, tr') /\ clock' = clock /\ timers' = timers
    BY <1>1, <1>11, CommandAssumption DEF SocketFlips, World, Calms
  <2> QED BY <1>1, <1>4, <2>1
<1>12. CASE Tick
  <2>1. World' /\ Calms(tr, tr') /\ clock' = clock + 1 /\ timers' = timers
    BY <1>1, <1>12 DEF Tick, World, Calms
  <2> QED BY <1>1, <1>4, <2>1
<1>13. CASE UNCHANGED vars
  <2>1. World' /\ Calms(tr, tr') /\ clock' = clock /\ timers' = timers
    BY <1>1, <1>13 DEF vars, World, Calms
  <2> QED BY <1>1, <1>4, <2>1
<1> QED BY <1>7, <1>8, <1>9, <1>10, <1>11, <1>12, <1>13

LEMMA CommandInvariant == Spec => []IInv
<1>1. ASSUME IInv, [Next]_vars PROVE IInv'
  BY <1>1, CallStep, WorldStep DEF Next
<1> QED BY <1>1, InvariantInit, PTL DEF Spec

\* Command.TypeOK holds in every reachable state.
THEOREM CommandTypes == Spec => []TypeOK
<1>1. IInv => TypeOK
  BY DEF IInv, World, TypeOK
<1> QED BY <1>1, CommandInvariant, PTL

\* Whatever the entity shows as in flight is in flight or has a timer armed that
\* will give up on it (lock.py _command).
THEOREM PendingWatched == Spec => []PendingIsWatched
<1>1. IInv => PendingIsWatched
  BY DEF IInv
<1> QED BY <1>1, CommandInvariant, PTL

\* A command is refused only by the lock's own host or after every route, each
\* tried once (api.py _command).
THEOREM RoutesAllTried == Spec => []EveryRouteTried
<1>1. ASSUME IInv PROVE EveryRouteTried
  <2> SUFFICES ASSUME NEW c \in Commands
               PROVE  /\ IsInjective(cmd[c].tried)
                      /\ cmd[c].pc = "refused"
                           => cmd[c].final \/ Range(cmd[c].tried) = Routes
    BY DEF EveryRouteTried
  <2> DEFINE tried == cmd[c].tried
             todo == cmd[c].todo
  <2>1. /\ tried \in Seq(Routes) /\ todo \in Seq(Routes) /\ RoutesOK(cmd[c])
    BY <1>1 DEF IInv, CallOK, Calls
  <2>2. IsInjective(tried)
    <3>1. CASE cmd[c].pc = "idle"
      BY <2>1, <3>1 DEF RoutesOK, IsInjective
    <3>2. CASE cmd[c].pc # "idle"
      <4> DEFINE all == tried \o todo
      <4>1. IsInjective(all)
        BY <2>1, <3>2 DEF RoutesOK, TriesAll
      <4> HIDE DEF tried, todo
      <4>2. \A i \in DOMAIN tried : i \in DOMAIN all /\ all[i] = tried[i]
        BY <2>1
      <4> HIDE DEF all
      <4> QED BY <4>1, <4>2 DEF IsInjective
    <3> QED BY <3>1, <3>2
  <2>3. ASSUME cmd[c].pc = "refused", ~cmd[c].final
        PROVE  Range(tried) = Routes
    <3>1. TriesAll(tried \o todo) /\ todo = << >>
      BY <2>1, <2>3 DEF RoutesOK
    <3>2. tried \o << >> = tried
      <4> HIDE DEF tried
      <4> QED BY <2>1, ConcatEmptySeq
    <3> QED BY <3>1, <3>2 DEF TriesAll
  <2> QED BY <2>2, <2>3
<1> QED BY <1>1, CommandInvariant, PTL
\* What is shown as in flight stays shown until the bolt gets there, a lock record is
\* heard, PENDING_TIMEOUT has passed, the opposite is asked for or a call fails.
THEOREM ShownTillSettled == Spec => ShownUntilSettled
<1>1. ASSUME IInv, [Next]_vars
      PROVE  [tr.pending # None /\ (tr'.pending # tr.pending \/ tr'.since # tr.since)
                => \/ tr'.bolt = Target(tr.pending)
                   \/ frames' # frames
                   \/ clock >= tr.since + PendingTimeout
                   \/ \E c \in Commands : Supersedes(c) \/ Fails(c)]_vars
  <2> SUFFICES ASSUME tr.pending # None,
                      tr'.pending # tr.pending \/ tr'.since # tr.since
               PROVE  \/ tr'.bolt = Target(tr.pending)
                      \/ frames' # frames
                      \/ clock >= tr.since + PendingTimeout
                      \/ \E c \in Commands : Supersedes(c) \/ Fails(c)
    OBVIOUS
  <2>1. /\ tr \in Trackers /\ clock \in Nat /\ tr' # tr
        /\ cmd \in [Commands -> Calls]
    BY <1>1 DEF IInv, World
  <2>2. ASSUME NEW c \in Commands, Call(c)
        PROVE  Supersedes(c)
    <3>1. PICK target \in BoltStates :
            /\ tr' = SetPending(tr, Request(target), clock)
            /\ cmd' = [cmd EXCEPT ![c] = [Idle EXCEPT !.pc = "send", !.target = target,
                                                      !.todo = RoutesNow]]
      BY <2>2 DEF Call
    <3>2. Request(target) # tr.pending
      BY <2>1, <3>1 DEF SetPending
    <3>3. cmd'[c].pc = "send" /\ cmd'[c].target = target
      BY <2>1, <3>1 DEF Idle
    <3> QED BY <2>2, <3>2, <3>3 DEF Supersedes, Call
  <2>3. ASSUME NEW c \in Commands, Refused(c) \/ Unreachable(c)
        PROVE  Fails(c)
    <3>1. cmd[c] \in Calls
      BY <2>1
    <3>2. \A pc, final : /\ Ends(c, pc).pc = pc
                         /\ [Ends(c, pc) EXCEPT !.final = final].pc = pc
      BY <3>1 DEF Ends, Calls
    <3>3. cmd[c].pc = "send"
      BY <2>3 DEF Refused, Unreachable
    <3>4. cmd'[c].pc \in {"refused", "unreachable"}
      <4>1. CASE Refused(c)
        <5>1. PICK final : cmd' = [cmd EXCEPT ![c] = [Ends(c, "refused") EXCEPT !.final = final]]
          BY <4>1 DEF Refused
        <5> QED BY <2>1, <3>2, <5>1
      <4>2. CASE Unreachable(c)
        BY <2>1, <3>2, <4>2 DEF Unreachable
      <4> QED BY <2>3, <4>1, <4>2
    <3> QED BY <3>3, <3>4 DEF Fails
  <2>4. ASSUME NEW c \in Commands, Accepted(c) \/ NextRoute(c) \/ Crashes(c)
        PROVE  FALSE
    BY <2>1, <2>4 DEF Accepted, NextRoute, Crashes
  <2>5. CASE Expires
    BY <2>1, <2>5, ExpireClears DEF Expires
  <2>6. CASE FollowUpFires \/ Poll
    <3>1. Answer \in PollReports
      BY <1>1 DEF Answer, PollReports, Levels, IInv, World
    <3>2. tr' = ApplyPoll(tr, Answer, clock)
      BY <2>6 DEF FollowUpFires, Poll
    <3> QED BY <2>1, <3>1, <3>2, PollClears
  <2>7. CASE Actuates
    <3>1. frames' = frames + 1 \/ tr' = tr
      BY <2>7 DEF Actuates, Hear
    <3> QED BY <1>1, <2>1, <3>1 DEF IInv, World
  <2>8. CASE SocketFlips \/ Tick \/ UNCHANGED vars
    BY <2>1, <2>8 DEF SocketFlips, Tick, vars
  <2> QED BY <1>1, <2>2, <2>3, <2>4, <2>5, <2>6, <2>7, <2>8 DEF Next
<1> QED BY <1>1, CommandInvariant, PTL DEF Spec, ShownUntilSettled
=============================================================================
