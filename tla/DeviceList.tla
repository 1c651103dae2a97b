----------------------------- MODULE DeviceList -----------------------------
(***************************************************************************)
(* What device discovery promises those who read its list, however the     *)
(* datacenters are asked and whoever else discovers meanwhile              *)
(* (homeaccess/api.py, async_discover).                                    *)
(*                                                                         *)
(* A listing collects sightings: this datacenter lists that lock, with a   *)
(* live copy if it was its home when it did.  It is published whole, or    *)
(* not at all: each lock with the best copy sighted, in whatever order     *)
(* the sightings came.  The datacenters that own a lock, or else those     *)
(* that echo one, are asked next time; a listing without sightings is      *)
(* published only if everyone was asked, or will be.                       *)
(***************************************************************************)

CONSTANTS Locks, Codes,
          Readers       \* those who make listings

VARIABLES
  home,      \* the datacenter every lock is homed in
  devices,   \* the list published: per lock, the copy shown
  pinned,    \* the datacenters the next listing asks; {} for all
  asked,     \* per reader, the datacenters its listing asks; {} if it makes none
  saw        \* per reader, the sightings of its listing

vars == <<home, devices, pinned, asked, saw>>

Best(sights, l) == IF \E s \in sights : s.lock = l /\ s.copy = "live" THEN "live"
                   ELSE IF \E s \in sights : s.lock = l THEN "mirror" ELSE "none"

Echoing(sights) == {s.code : s \in sights}
Owning(sights) == {s.code : s \in {t \in sights : t.copy = "live"}}
Worth(sights) == IF Owning(sights) # {} THEN Owning(sights) ELSE Echoing(sights)

Init ==
  /\ home \in [Locks -> Codes]
  /\ devices = [l \in Locks |-> "none"] /\ pinned = {}
  /\ asked = [r \in Readers |-> {}] /\ saw = [r \in Readers |-> {}]

Start(r) ==
  /\ asked[r] = {}
  /\ asked' = [asked EXCEPT ![r] = IF pinned = {} THEN Codes ELSE pinned]
  /\ UNCHANGED <<home, devices, pinned, saw>>

Copy(code, l) == IF home[l] = code THEN "live" ELSE "mirror"

\* A datacenter not heard yet lists some locks.
See(r) ==
  \E code \in asked[r] \ Echoing(saw[r]), listed \in SUBSET Locks :
    /\ saw' = [saw EXCEPT ![r] = @ \cup
                 {[code |-> code, lock |-> l, copy |-> Copy(code, l)] : l \in listed}]
    /\ UNCHANGED <<home, devices, pinned, asked>>

\* Nothing seen at the pinned datacenters: the listing goes on with all.
Widen(r) ==
  /\ asked[r] # {} /\ saw[r] = {} /\ pinned # {}
  /\ pinned' = {} /\ asked' = [asked EXCEPT ![r] = Codes]
  /\ UNCHANGED <<home, devices, saw>>

Publish(r) ==
  /\ asked[r] # {}
  /\ saw[r] = {} => asked[r] = Codes \/ pinned = {}
  /\ devices' = [l \in Locks |-> Best(saw[r], l)]
  /\ pinned' = IF saw[r] = {} THEN pinned ELSE Worth(saw[r])
  /\ asked' = [asked EXCEPT ![r] = {}] /\ saw' = [saw EXCEPT ![r] = {}]
  /\ UNCHANGED home

\* A listing fails, and leaves the list as it was.
Drop(r) ==
  /\ asked' = [asked EXCEPT ![r] = {}] /\ saw' = [saw EXCEPT ![r] = {}]
  /\ UNCHANGED <<home, devices, pinned>>

Move ==
  /\ \E l \in Locks, code \in Codes : home' = [home EXCEPT ![l] = code]
  /\ UNCHANGED <<devices, pinned, asked, saw>>

Next ==
  \/ \E r \in Readers : Start(r) \/ See(r) \/ Widen(r) \/ Publish(r) \/ Drop(r)
  \/ Move

Spec == Init /\ [][Next]_vars
=============================================================================
