------------------------ MODULE AtLeastOnceDelivery ------------------------
(***************************************************************************)
(* What the delivery of artifacts promises: an item is delivered while it   *)
(* is not recorded as delivered, it is recorded only if it was delivered,   *)
(* and it is delivered again only if a record was missed or forgotten.      *)
(***************************************************************************)
EXTENDS Naturals

CONSTANT Item

VARIABLES
    delivered,   \* how often each item was delivered
    recorded,    \* items recorded as delivered
    missed       \* how often an item was left unrecorded, or its record lost

vars == <<delivered, recorded, missed>>

Init ==
    /\ delivered = [i \in Item |-> 0]
    /\ recorded = {}
    /\ missed = [i \in Item |-> 0]

(* Recording may catch up on items delivered earlier.                        *)
Deliver(i) ==
    /\ i \notin recorded
    /\ delivered' = [delivered EXCEPT ![i] = @ + 1]
    /\ \/ /\ i \in recorded' /\ UNCHANGED missed
          /\ recorded \subseteq recorded'
          /\ \A j \in recorded' : delivered'[j] > 0
       \/ /\ UNCHANGED recorded
          /\ missed' = [missed EXCEPT ![i] = @ + 1]

Forget(S) ==
    /\ S # {} /\ S \subseteq recorded
    /\ recorded' = recorded \ S
    /\ missed' = [i \in Item |-> IF i \in S THEN missed[i] + 1 ELSE missed[i]]
    /\ UNCHANGED delivered

Next == (\E i \in Item : Deliver(i)) \/ (\E S \in SUBSET Item : Forget(S))

Spec == Init /\ [][Next]_vars

(* Nothing is recorded that was not delivered, and an item is delivered once *)
(* more than its record was missed, at most.                                 *)
OncePerMiss ==
    \A i \in Item :
        /\ i \in recorded => delivered[i] > 0
        /\ delivered[i] <= missed[i] + (IF i \in recorded THEN 1 ELSE 0)
=============================================================================
