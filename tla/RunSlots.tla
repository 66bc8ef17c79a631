------------------------------ MODULE RunSlots ------------------------------
(***************************************************************************)
(* What the demo server promises about admission: a request to /run is     *)
(* either admitted into one of MaxRuns slots or refused, it is refused     *)
(* only when every slot is taken, and a run that is in no way held up      *)
(* gives its slot back.                                                    *)
(* DemoServer implements this with a semaphore, a worker thread and a      *)
(* channel; none of them appears here.                                     *)
(***************************************************************************)
EXTENDS Integers, FiniteSets

CONSTANTS
  Requests,   \* the POSTs to /run that may arrive
  MaxRuns     \* how many runs may be in progress at once

VARIABLES
  fresh,      \* requests that have not arrived yet
  active,     \* requests that hold a slot
  refused     \* requests that were answered 429

vars == <<fresh, active, refused>>

Init ==
  /\ fresh = Requests
  /\ active = {}
  /\ refused = {}

Admit(r) ==
  /\ r \in fresh
  /\ Cardinality(active) < MaxRuns
  /\ fresh' = fresh \ {r}
  /\ active' = active \cup {r}
  /\ UNCHANGED refused

Refuse(r) ==
  /\ r \in fresh
  /\ Cardinality(active) = MaxRuns
  /\ fresh' = fresh \ {r}
  /\ refused' = refused \cup {r}
  /\ UNCHANGED active

Leave(r) ==
  /\ r \in active
  /\ active' = active \ {r}
  /\ UNCHANGED <<fresh, refused>>

Next == \E r \in Requests : Admit(r) \/ Refuse(r) \/ Leave(r)

Spec == Init /\ [][Next]_vars

(* An admitted run leaves its slot again.  No part of Spec: who implements it *)
(* says of which runs, and on what conditions, this is promised.              *)
Returns(r) == r \in active ~> r \notin active

=============================================================================
