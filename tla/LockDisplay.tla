---------------------------- MODULE LockDisplay ----------------------------
(***************************************************************************)
(* What the entities of a lock promise: a display of the lock, facet by    *)
(* facet, behind a stream of events and a poll.                            *)
(*                                                                         *)
(* The lock tells what is true of it in numbered events, every change      *)
(* included.  An event that is heard moves each facet it is news for to    *)
(* what it said, and no facet back to an older saying.  A poll asks for    *)
(* the truth and, later, puts right what is shown without being news.      *)
(***************************************************************************)
EXTENDS Integers

CONSTANT Facets

VARIABLES
  truth,    \* what each facet of the lock is
  count,    \* how many events there have been
  said,     \* per facet, what events have said of it: [at, value]
  shown,    \* what the display shows of each facet
  at,       \* per facet, the newest event heard that told it, or 0
  answer    \* a poll's answer on its way, for the facets it can tell

vars == <<truth, count, said, shown, at, answer>>

NoAnswer == [f \in {} |-> 0]

Init ==
  /\ shown = [f \in Facets |-> truth[f]]
  /\ count = 0 /\ said = [f \in Facets |-> {}] /\ at = [f \in Facets |-> 0]
  /\ answer = NoAnswer

\* The next event; what changes is said.
Say ==
  /\ count' = count + 1
  /\ \A f \in Facets :
       /\ said'[f] \in {said[f], said[f] \cup {[at |-> count + 1, value |-> truth'[f]]}}
       /\ truth'[f] # truth[f] => said'[f] # said[f]
  /\ UNCHANGED <<shown, at, answer>>

\* Event n tells f something, and nothing newer has been heard of f.
News(n, f) == n > at[f] /\ \E s \in said[f] : s.at = n

Hear ==
  /\ \E n \in 1..count : \A f \in Facets :
       IF News(n, f)
       THEN at'[f] = n /\ \E s \in said[f] : s.at = n /\ shown'[f] = s.value
       ELSE at'[f] = at[f] /\ shown'[f] = shown[f]
  /\ UNCHANGED <<truth, count, said, answer>>

Ask ==
  /\ answer = NoAnswer
  /\ \E told \in SUBSET Facets : answer' = [f \in told |-> truth[f]]
  /\ UNCHANGED <<truth, count, said, shown, at>>

Correct ==
  /\ shown' = [f \in Facets |-> IF f \in DOMAIN answer THEN answer[f] ELSE shown[f]]
  /\ answer' = NoAnswer
  /\ UNCHANGED <<truth, count, said, at>>

Lose ==
  /\ answer' = NoAnswer
  /\ UNCHANGED <<truth, count, said, shown, at>>

Next == Say \/ Hear \/ Ask \/ Correct \/ Lose

Spec == Init /\ [][Next]_vars
=============================================================================
