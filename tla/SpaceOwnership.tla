--------------------------- MODULE SpaceOwnership ---------------------------
(***************************************************************************)
(* What the subscription commands promise, without their KV calls: every    *)
(* Meet space belongs to at most one channel, a channel takes a free space  *)
(* in one step and gives up its own in one step.  Nothing is promised for a *)
(* space once it has been disturbed (SubscriptionRegistry says by what).    *)
(***************************************************************************)
CONSTANTS Space, Channel, NoChannel

VARIABLES
    channel,     \* the channel each space belongs to
    disturbed    \* spaces for which the promise is void

vars == <<channel, disturbed>>

Init == channel = [s \in Space |-> NoChannel] /\ disturbed = {}

Subscribe(s, c) ==
    /\ channel[s] = NoChannel
    /\ channel' = [channel EXCEPT ![s] = c]
    /\ UNCHANGED disturbed

Unsubscribe(s) ==
    /\ channel[s] # NoChannel
    /\ channel' = [channel EXCEPT ![s] = NoChannel]
    /\ UNCHANGED disturbed

(* The promise for s is given up, or was: its channel may become any.        *)
Disturb(s) ==
    /\ disturbed' = disturbed \cup {s}
    /\ \E c \in Channel \cup {NoChannel} : channel' = [channel EXCEPT ![s] = c]

Next == \E s \in Space : Unsubscribe(s) \/ Disturb(s) \/ \E c \in Channel : Subscribe(s, c)

Spec == Init /\ [][Next]_vars
=============================================================================
