------------------------- MODULE LockDisplayProofs -------------------------
(***************************************************************************)
(* The tracker behind its stream and its poll implements LockDisplay, for  *)
(* every value of the constants under the conditions of NewestAlwaysWins.  *)
(* The inductive invariant IInv is what makes a step of the stream one of  *)
(* the display: it ties the tracker's keys to the frames heard.            *)
(***************************************************************************)
EXTENDS LockStreamProofs

\* The types the steps below need.
LEMMA StreamFacts ==
  ASSUME IInv
  PROVE  /\ lock \in Reports /\ tr \in Trackers /\ clock \in Nat /\ sent \subseteq Frames
         /\ heard \subseteq sent /\ IsFiniteSet(sent) /\ LastSeq = Cardinality(sent)
         /\ LastSeq \in Nat /\ report \in Reports \cup {NoReport}
         /\ newest \in [Facets -> Frames \cup {NoFrame}]
<1>1. TypeOK
  BY DEF IInv
<1> QED BY <1>1, FS_CardinalityType DEF TypeOK, LastSeq

LEMMA DisplayInit == Init => Display!Init
<1> SUFFICES ASSUME Init PROVE Display!Init
  OBVIOUS
<1>1. LastSeq = 0
  BY FS_EmptySet DEF Init, LastSeq
<1>2. \A f \in Facets : Face(tr)[f] = Truth[f]
  BY DEF Init, NewTracker, Face, Truth, Facets
<1>3. Face(tr) = [f \in Facets |-> Truth[f]]
  BY <1>2 DEF Face, Facets
<1>4. [f \in Facets |-> Said(f)] = [f \in Facets |-> {}]
  BY DEF Init, Said
<1>5. [f \in Facets |-> newest[f].seq] = [f \in Facets |-> 0]
  BY DEF Init, NoFrame
<1>6. [f \in Told |-> Face(report)[f]] = [f \in {} |-> 0]
  BY DEF Init, Told
<1> QED BY <1>1, <1>3, <1>4, <1>5, <1>6 DEF Display!Init, Display!NoAnswer

\* A frame sent is an event said, whatever its kind: what it claims is the truth
\* after it, and nothing it does not claim has changed.
LEMMA SendIsSaid ==
  ASSUME IInv,
         NEW kind \in Kinds, NEW state \in States, NEW battery \in Levels,
         NEW ts \in Nat, NEW mid \in Nat,
         Send(kind, state, battery, ts, mid),
         \A f \in Facets : \A fr :
           fr.kind = kind /\ fr.state = state /\ fr.battery = battery =>
             IF Offers(fr, f) THEN Claim(fr, f) = Truth'[f] ELSE Truth'[f] = Truth[f]
  PROVE  Display!Say
<1> DEFINE fr == [kind |-> kind, state |-> state, battery |-> battery, ts |-> ts,
                  mid |-> mid, boot |-> boot, seq |-> LastSeq + 1]
<1>1. /\ Fresh(fr) /\ sent' = sent \cup {fr} /\ UNCHANGED <<tr, report, newest>>
  BY DEF Send, ghostVars
<1>2. fr.seq = LastSeq + 1 /\ fr.kind = kind /\ fr.state = state /\ fr.battery = battery
  OBVIOUS
<1> HIDE DEF fr
<1>3. \A f \in Facets : IF Offers(fr, f) THEN Claim(fr, f) = Truth'[f] ELSE Truth'[f] = Truth[f]
  BY <1>2
<1>4. LastSeq' = LastSeq + 1
  <2>1. fr \notin sent
    BY <1>1 DEF Fresh
  <2> QED BY <2>1, <1>1, StreamFacts, FS_AddElement DEF LastSeq
<1>5. ASSUME NEW f \in Facets
      PROVE  /\ Said(f)' \in {Said(f), Said(f) \cup {[at |-> LastSeq + 1, value |-> Truth'[f]]}}
             /\ Truth'[f] # Truth[f] => Said(f)' # Said(f)
  <2>1. CASE Offers(fr, f)
    <3>1. Said(f)' = Said(f) \cup {[at |-> LastSeq + 1, value |-> Truth'[f]]}
      BY <2>1, <1>1, <1>2, <1>3 DEF Said
    <3>2. \A s \in Said(f) : s.at # LastSeq + 1
      <4>1. \A g \in sent : g.seq <= LastSeq /\ g.seq \in Nat
        BY StreamFacts DEF IInv, SentOrdered, Frames
      <4> QED BY <4>1, StreamFacts DEF Said
    <3>3. [at |-> LastSeq + 1, value |-> Truth'[f]] \notin Said(f)
      BY <3>2
    <3> QED BY <3>1, <3>3, Zenon
  <2>2. CASE ~Offers(fr, f)
    <3>1. Said(f)' = Said(f)
      BY <2>2, <1>1 DEF Said
    <3> QED BY <3>1, <2>2, <1>3
  <2> QED BY <2>1, <2>2
<1>6. UNCHANGED <<Face(tr), [f \in Facets |-> newest[f].seq], [f \in Told |-> Face(report)[f]]>>
  BY <1>1 DEF Face, Told
<1> QED BY <1>4, <1>5, <1>6 DEF Display!Say

\* A frame delivered is an event heard.
LEMMA DeliverIsHeard ==
  ASSUME IInv, Deliver
  PROVE  Display!Hear
<1>1. PICK fr \in sent \ heard :
        /\ tr' = Apply(tr, fr, clock)
        /\ newest' = [f \in Facets |-> IF Offers(fr, f) /\ fr.seq > newest[f].seq
                                       THEN fr ELSE newest[f]]
        /\ UNCHANGED <<lock, sent, report>>
  BY Zenon DEF Deliver, worldVars
<1>2. /\ fr \in Events /\ fr.seq \in 1..LastSeq /\ tr \in Trackers /\ clock \in Nat
  BY StreamFacts, FramesAreEvents DEF IInv, SentOrdered, Frames
<1>3. ~IsRedelivery(tr, fr)
  BY NewIsNew
<1>4. \A f \in Facets : Face(tr')[f] = IF Takes(tr, fr, f) THEN Claim(fr, f) ELSE Face(tr)[f]
  <2>1. /\ tr'.order = [f \in Facets |-> IF Takes(tr, fr, f) THEN Key(fr) ELSE tr.order[f]]
        /\ tr'.bolt = IF Takes(tr, fr, "bolt") THEN fr.state ELSE tr.bolt
        /\ tr'.door = IF Takes(tr, fr, "door") THEN DoorShown(fr.state) ELSE tr.door
        /\ tr'.battery = IF Takes(tr, fr, "battery") THEN fr.battery ELSE tr.battery
    BY <1>1, <1>2, <1>3, AppliedFacets
  <2>2. /\ Face(tr')["bolt"] = tr'.bolt /\ Face(tr')["door"] = tr'.door
        /\ Face(tr')["battery"] = tr'.battery /\ Face(tr)["bolt"] = tr.bolt
        /\ Face(tr)["door"] = tr.door /\ Face(tr)["battery"] = tr.battery
    BY DEF Face
  <2>3. /\ Claim(fr, "bolt") = fr.state /\ Claim(fr, "door") = DoorShown(fr.state)
        /\ Claim(fr, "battery") = fr.battery
    BY DEF Claim
  <2> QED BY <2>1, <2>2, <2>3 DEF Facets
<1>5. ASSUME NEW f \in Facets
      PROVE  IF Display!News(fr.seq, f)
             THEN /\ newest'[f].seq = fr.seq
                  /\ \E s \in Said(f) : s.at = fr.seq /\ Face(tr')[f] = s.value
             ELSE newest'[f].seq = newest[f].seq /\ Face(tr')[f] = Face(tr)[f]
  <2>1. (\E s \in Said(f) : s.at = fr.seq) <=> Offers(fr, f)
    <3>1. ASSUME NEW s \in Said(f), s.at = fr.seq PROVE Offers(fr, f)
      <4>1. PICK g \in sent : Offers(g, f) /\ s = [at |-> g.seq, value |-> Claim(g, f)]
        BY DEF Said
      <4>2. g = fr
        BY <3>1, <4>1 DEF IInv, SentOrdered
      <4> QED BY <4>1, <4>2
    <3>2. ASSUME Offers(fr, f) PROVE \E s \in Said(f) : s.at = fr.seq
      <4>1. [at |-> fr.seq, value |-> Claim(fr, f)] \in Said(f)
        BY <3>2 DEF Said
      <4> QED BY <4>1
    <3> QED BY <3>1, <3>2
  <2>2. Display!News(fr.seq, f) <=> Takes(tr, fr, f)
    BY <2>1, TakesNews DEF Display!News
  <2>3. Takes(tr, fr, f) <=> Offers(fr, f) /\ fr.seq > newest[f].seq
    BY TakesNews
  <2>4. CASE Takes(tr, fr, f)
    <3>1. newest'[f] = fr
      BY <2>3, <2>4, <1>1
    <3>2. [at |-> fr.seq, value |-> Claim(fr, f)] \in Said(f)
      BY <2>3, <2>4 DEF Said
    <3> QED BY <3>1, <3>2, <2>2, <2>4, <1>4
  <2>5. CASE ~Takes(tr, fr, f)
    BY <2>2, <2>3, <2>5, <1>1, <1>4
  <2> QED BY <2>4, <2>5
<1>6. UNCHANGED <<Truth, LastSeq, [f \in Facets |-> Said(f)], [f \in Told |-> Face(report)[f]]>>
  BY <1>1 DEF Truth, LastSeq, Said, Told
<1> QED BY <1>2, <1>5, <1>6 DEF Display!Hear

\* What stays when neither the lock's frames nor the tracker's do.
LEMMA StreamStays ==
  ASSUME UNCHANGED <<lock, sent, newest>>
  PROVE  UNCHANGED <<Truth, LastSeq, [f \in Facets |-> Said(f)],
                     [f \in Facets |-> newest[f].seq]>>
  BY DEF Truth, LastSeq, Said

\* The cloud answers a poll: the display asks.
LEMMA AnswerIsAsked ==
  ASSUME IInv, PollAnswered
  PROVE  Display!Ask
<1>1. PICK door \in {lock.door, None} : report' = [lock EXCEPT !.door = door]
  BY DEF PollAnswered
<1>2. report = NoReport /\ UNCHANGED <<lock, sent, newest, tr>>
  BY DEF PollAnswered, worldVars, ghostVars
<1>3. lock \in Reports /\ lock.door # None
  BY DEF IInv, TypeOK
<1>4. /\ report' # NoReport /\ report'.bolt = lock.bolt /\ report'.battery = lock.battery
      /\ report'.door = door
  BY <1>1, <1>3 DEF Reports, NoReport, BoltStates, None
<1>5. \A f \in Told' : Face(report')[f] = Truth[f]
  BY <1>1, <1>3, <1>4 DEF Told, Face, Truth, Facets
<1>6. [f \in Told' |-> Face(report')[f]] = [f \in Told' |-> Truth[f]]
  BY <1>5
<1>7. Told' \in SUBSET Facets
  BY DEF Told
<1>8. [f \in Told |-> Face(report)[f]] = [f \in {} |-> 0]
  BY <1>2 DEF Told
<1> QED BY <1>2, <1>6, <1>7, <1>8, StreamStays DEF Display!Ask, Display!NoAnswer, Face

\* The answer applied is the display's correction.
LEMMA ReplyCorrects ==
  ASSUME IInv, PollReply
  PROVE  Display!Correct
<1>1. /\ report # NoReport /\ report' = NoReport
      /\ tr' = ApplyPoll(tr, report, clock)
      /\ UNCHANGED <<lock, sent, newest>>
  BY DEF PollReply, worldVars
<1>2. report \in PollReports /\ report.bolt # None /\ report.battery # NoBattery
  BY <1>1, StreamFacts, TrackerAssumption
     DEF Reports, PollReports, Levels, BoltStates, None, NoBattery
<1>3. /\ tr'.bolt = report.bolt /\ tr'.battery = report.battery
      /\ tr'.door = IF report.door # None THEN report.door ELSE tr.door
  BY <1>1, <1>2, StreamFacts, ApplyPollType
<1>4. \A f \in Facets : Face(tr')[f] = IF f \in Told THEN Face(report)[f] ELSE Face(tr)[f]
  BY <1>1, <1>3 DEF Told, Face, Facets
<1>5. Face(tr') = [f \in Facets |-> IF f \in DOMAIN [g \in Told |-> Face(report)[g]]
                                    THEN [g \in Told |-> Face(report)[g]][f] ELSE Face(tr)[f]]
  BY <1>4 DEF Face, Facets
<1>6. [f \in Told' |-> Face(report')[f]] = [f \in {} |-> 0]
  BY <1>1 DEF Told
<1> QED BY <1>1, <1>5, <1>6, StreamStays DEF Display!Correct, Display!NoAnswer

\* Every step of the system is a step of the display, or leaves it alone.
LEMMA DisplayNext ==
  ASSUME FirstMid >= 1 \/ SteadyStart, ~BlindRedelivery, IInv, [Next]_vars
  PROVE  [Display!Next]_(Display!vars)
<1>1. /\ lock \in Reports /\ lock.door # None /\ clock \in Nat /\ Jitter \in Nat
      /\ clock >= Jitter /\ nextMid \in Nat /\ BatteryLevels \subseteq Nat
  BY StreamAssumption, TrackerAssumption DEF IInv, TypeOK
<1>2. \A late \in 0..Jitter : clock - late \in Nat
  BY <1>1
<1>3. CASE MoveBolt
  <2> DEFINE now == IF lock.bolt = "locked" THEN "unlocked" ELSE "locked"
  <2>1. PICK late \in 0..Jitter :
          /\ Send("lock", now, NoBattery, clock - late, nextMid)
          /\ lock' = [lock EXCEPT !.bolt = now]
    BY <1>3 DEF MoveBolt, Emit
  <2>2. /\ now \in BoltStates /\ lock'.bolt = now /\ lock'.door = lock.door
        /\ lock'.battery = lock.battery
    BY <2>1, <1>1 DEF Reports, BoltStates
  <2> HIDE DEF now
  <2>3. "lock" \in Kinds /\ now \in States /\ NoBattery \in Levels
    BY <2>2 DEF Kinds, States, Levels
  <2>4. ASSUME NEW f \in Facets, NEW fr, fr.kind = "lock", fr.state = now, fr.battery = NoBattery
        PROVE  IF Offers(fr, f) THEN Claim(fr, f) = Truth'[f] ELSE Truth'[f] = Truth[f]
    BY <2>2, <2>4 DEF Offers, Claim, Truth, Facets
  <2>5. Display!Say
    <3>1. clock - late \in Nat
      BY <2>1, <1>2
    <3>2. Send("lock", now, NoBattery, clock - late, nextMid)
      BY <2>1
    <3> QED BY <3>1, <3>2, <2>3, <2>4, <1>1, SendIsSaid
  <2> QED BY <2>5 DEF Display!Next
<1>4. CASE Snapshot
  <2>1. PICK level \in BatteryLevels, late \in 0..Jitter :
          /\ Send("action", lock.bolt, level, clock - late, nextMid)
          /\ lock' = [lock EXCEPT !.battery = level]
    BY <1>4 DEF Snapshot, Emit
  <2>2. /\ lock'.bolt = lock.bolt /\ lock'.door = lock.door /\ lock'.battery = level
        /\ level # NoBattery /\ lock.bolt \in BoltStates
    BY <2>1, <1>1 DEF Reports, NoBattery
  <2>3. "action" \in Kinds /\ lock.bolt \in States /\ level \in Levels
    BY <2>2 DEF Kinds, States, Levels
  <2>4. ASSUME NEW f \in Facets, NEW fr, fr.kind = "action", fr.state = lock.bolt,
               fr.battery = level
        PROVE  IF Offers(fr, f) THEN Claim(fr, f) = Truth'[f] ELSE Truth'[f] = Truth[f]
    BY <2>2, <2>4 DEF Offers, Claim, Truth, Facets
  <2>5. Display!Say
    <3>1. clock - late \in Nat
      BY <2>1, <1>2
    <3>2. Send("action", lock.bolt, level, clock - late, nextMid)
      BY <2>1
    <3> QED BY <3>1, <3>2, <2>3, <2>4, <1>1, SendIsSaid
  <2> QED BY <2>5 DEF Display!Next
<1>5. CASE MoveDoor
  <2> DEFINE word == IF lock.door = "closed" THEN "opened" ELSE "closed"
  <2>1. PICK late \in 0..Jitter :
          /\ Send("door", word, NoBattery, clock - late, nextMid)
          /\ lock' = [lock EXCEPT !.door = IF lock.door = "closed" THEN "open" ELSE "closed"]
    BY <1>5 DEF MoveDoor, Emit
  <2>2. /\ word \in DoorRecords /\ lock'.bolt = lock.bolt /\ lock'.battery = lock.battery
        /\ lock'.door = DoorShown(word)
    BY <2>1, <1>1 DEF Reports, DoorRecords, DoorShown
  <2> HIDE DEF word
  <2>3. "door" \in Kinds /\ word \in States /\ NoBattery \in Levels
    BY <2>2 DEF Kinds, States, Levels
  <2>4. ASSUME NEW f \in Facets, NEW fr, fr.kind = "door", fr.state = word,
               fr.battery = NoBattery
        PROVE  IF Offers(fr, f) THEN Claim(fr, f) = Truth'[f] ELSE Truth'[f] = Truth[f]
    BY <2>2, <2>4 DEF Offers, Claim, Truth, Facets
  <2>5. Display!Say
    <3>1. clock - late \in Nat
      BY <2>1, <1>2
    <3>2. Send("door", word, NoBattery, clock - late, nextMid)
      BY <2>1
    <3> QED BY <3>1, <3>2, <2>3, <2>4, <1>1, SendIsSaid
  <2> QED BY <2>5 DEF Display!Next
<1>6. ASSUME NEW kind \in {"setLock", "wifiState"}, NEW state \in States,
             Send(kind, state, NoBattery, clock, 0), UNCHANGED Truth
      PROVE  [Display!Next]_(Display!vars)
  <2>1. kind \in Kinds /\ NoBattery \in Levels /\ 0 \in Nat
    BY DEF Kinds, Levels
  <2>2. ASSUME NEW f \in Facets, NEW fr, fr.kind = kind, fr.battery = NoBattery
        PROVE  IF Offers(fr, f) THEN Claim(fr, f) = Truth'[f] ELSE Truth'[f] = Truth[f]
    BY <1>6, <2>2 DEF Offers
  <2>3. Display!Say
    BY <2>1, <2>2, <1>1, <1>6, SendIsSaid
  <2> QED BY <2>3 DEF Display!Next
<1>7. CASE CommandSeen
  <2>1. PICK state \in BoltStates : Send("setLock", state, NoBattery, clock, 0) /\ UNCHANGED lock
    BY <1>7 DEF CommandSeen
  <2> QED BY <2>1, <1>6 DEF States, Truth
<1>8. CASE LinkFlips
  <2>1. /\ Send("wifiState", IF lock.online THEN "0" ELSE "1", NoBattery, clock, 0)
        /\ lock' = [lock EXCEPT !.online = ~@]
    BY <1>8 DEF LinkFlips
  <2>2. UNCHANGED Truth
    BY <2>1, <1>1 DEF Reports, Truth
  <2>3. (IF lock.online THEN "0" ELSE "1") \in States
    BY DEF States
  <2> QED BY <2>1, <2>2, <2>3, <1>6
<1>9. CASE UNCHANGED <<lock, sent, tr, report, newest>>
  <2>1. UNCHANGED <<Truth, LastSeq, [f \in Facets |-> Said(f)], Face(tr),
                    [f \in Facets |-> newest[f].seq], [f \in Told |-> Face(report)[f]]>>
    BY <1>9, StreamStays DEF Face, Told
  <2> QED BY <2>1 DEF Display!vars
<1>10. CASE PowerCycle \/ Tick
  BY <1>9, <1>10 DEF PowerCycle, Tick, ghostVars
<1>11. CASE Deliver
  BY <1>11, DeliverIsHeard DEF Display!Next
<1>12. CASE Redeliver
  BY <1>9, <1>12, RedeliverStep DEF Redeliver, ghostVars
<1>13. CASE PollAnswered
  BY <1>13, AnswerIsAsked DEF Display!Next
<1>14. CASE PollReply
  BY <1>14, ReplyCorrects DEF Display!Next
<1>15. CASE PollFails
  <2>1. report' = NoReport /\ UNCHANGED <<lock, sent, tr, newest>>
    BY <1>15 DEF PollFails, worldVars, ghostVars
  <2>2. [f \in Told' |-> Face(report')[f]] = [f \in {} |-> 0]
    BY <2>1 DEF Told
  <2>3. Display!Lose
    BY <2>1, <2>2, StreamStays DEF Display!Lose, Display!NoAnswer, Face
  <2> QED BY <2>3 DEF Display!Next
<1>16. CASE UNCHANGED vars
  BY <1>9, <1>16 DEF vars
<1> QED BY <1>3, <1>4, <1>5, <1>7, <1>8, <1>10, <1>11, <1>12, <1>13, <1>14, <1>15, <1>16
        DEF Next

\* The tracker fed by its stream and its poll implements the abstract display,
\* for any window, jitter, number of frames and power cycles (tracker.py apply,
\* apply_poll): nothing shown ever goes back to an older saying, and nothing but
\* the newest event or a poll's answer is ever shown.
THEOREM StreamImplementsDisplay ==
  ASSUME FirstMid >= 1 \/ SteadyStart, ~BlindRedelivery
  PROVE  Spec => ImplementsDisplay
<1>1. Init => Display!Init
  BY DisplayInit
<1>2. IInv /\ [Next]_vars => [Display!Next]_(Display!vars)
  BY DisplayNext
<1> QED BY <1>1, <1>2, StreamInvariant, PTL DEF Spec, ImplementsDisplay, Display!Spec
=============================================================================
