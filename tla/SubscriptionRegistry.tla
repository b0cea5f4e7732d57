------------------------ MODULE SubscriptionRegistry ------------------------
(***************************************************************************)
(* The registry of channel subscriptions (server/subscription.go and the    *)
(* KV calls of server/store/kvstore/subscription.go): one record per Meet   *)
(* space, the index of all subscribed spaces and one index per user.        *)
(*                                                                          *)
(* AddSubscription and RemoveSubscription run without a lock, on behalf of  *)
(* any number of users at once, and next to the poll cycle, which lists the *)
(* index, loads each record, and writes its copy back twice.  Each KV call  *)
(* is one action; it may fail, and the node may stop between two of them.   *)
(***************************************************************************)
EXTENDS Integers, FiniteSets

CONSTANTS
    Space, Channel, User,
    Caller,          \* command executions that may be under way at once
    NoChannel,       \* "no channel"
    NoSubscription,  \* "no record"
    MaxCommands,     \* bound: commands issued in a behaviour
    MaxFaults        \* bound: failed KV calls and stopped nodes

ASSUME BoundsAssumption == MaxCommands \in Nat /\ MaxFaults \in Nat
ASSUME NoneAssumption ==
    NoChannel \notin Channel /\ NoSubscription \notin [channel : Channel, owner : User]

VARIABLES
    records,     \* subscription_<space>
    index,       \* subscription_index
    userIndex,   \* subscription_user_<user>
    pc,          \* where each command execution is
    cmd,         \* what it was asked for
    match,       \* the record RemoveSubscription found
    polling,     \* a poll cycle is under way
    toVisit,     \* spaces of the cycle's listing not visited yet
    copy,        \* the record the cycle has loaded and may still write back
    writes,      \* write-backs of that copy still to come
    issued,      \* commands issued so far
    disturbed,   \* history: spaces whose bookkeeping was disturbed
    faults       \* history: failures so far

storeVars == <<records, index, userIndex>>
commandVars == <<pc, cmd, match, issued>>
pollVars == <<polling, toVisit, copy, writes>>
vars == <<records, index, userIndex, pc, cmd, match, polling, toVisit, copy, writes,
          issued, disturbed, faults>>

-----------------------------------------------------------------------------
Subscription == [channel : Channel, owner : User]

AddSteps == {"getExisting", "store", "index", "userIndex"}
RemoveSteps == {"list", "find", "delete", "unindex", "userUnindex"}

Indexing == {"index", "userIndex", "unindex", "userUnindex"}
Acting == {"store", "delete"} \cup Indexing

Asked(p) == cmd[p].space

GoTo(p, step) == pc' = [pc EXCEPT ![p] = step]

Return(p) == GoTo(p, "idle")

Fault == faults < MaxFaults /\ faults' = faults + 1

(* Something else has looked at the space p changes and will act on what it  *)
(* saw: another command past its reads, or a cycle holding the record.       *)
Overlapped(p) ==
    \/ \E q \in Caller \ {p} : pc[q] \in Acting /\ Asked(q) = Asked(p)
    \/ copy[Asked(p)] # NoSubscription

Disturb(s) == disturbed' = disturbed \cup {s}

NoteOverlap(p) == IF Overlapped(p) THEN Disturb(Asked(p)) ELSE UNCHANGED disturbed

-----------------------------------------------------------------------------
(* Commands.  The checks before the first KV call (permissions, connection,  *)
(* the kind of channel, resolving the meeting code at Google) change nothing *)
(* of the registry; a command that fails them is one not issued.             *)

Issue(p, u, c, s) ==
    /\ pc[p] = "idle" /\ issued < MaxCommands
    /\ cmd' = [cmd EXCEPT ![p] = [user |-> u, channel |-> c, space |-> s]]
    /\ issued' = issued + 1
    /\ GoTo(p, "getExisting") \/ GoTo(p, "list")
    /\ UNCHANGED <<storeVars, match, pollVars, disturbed, faults>>

(* A slip: only this channel's own subscription is looked for.               *)
GetExistingOfChannel(p) ==
    /\ pc[p] = "getExisting"
    /\ \/ /\ records[Asked(p)] # NoSubscription => records[Asked(p)].channel # cmd[p].channel
          /\ GoTo(p, "store") /\ UNCHANGED faults
       \/ records[Asked(p)] # NoSubscription /\ Return(p) /\ UNCHANGED faults
       \/ Return(p) /\ Fault
    /\ UNCHANGED <<storeVars, cmd, match, issued, pollVars, disturbed>>

(* AddSubscription: GetSubscription.  A space already subscribed is left     *)
(* alone, whether by this channel (answered as success) or by another one.   *)
GetExisting(p) ==
    /\ pc[p] = "getExisting"
    /\ \/ records[Asked(p)] = NoSubscription /\ GoTo(p, "store") /\ UNCHANGED faults
       \/ records[Asked(p)] # NoSubscription /\ Return(p) /\ UNCHANGED faults
       \/ Return(p) /\ Fault
    /\ UNCHANGED <<storeVars, cmd, match, issued, pollVars, disturbed>>

NewSubscription(p) == [channel |-> cmd[p].channel, owner |-> cmd[p].user]

StoreSubscription(p) ==
    /\ pc[p] = "store"
    /\ \/ /\ records' = [records EXCEPT ![Asked(p)] = NewSubscription(p)]
          /\ GoTo(p, "index") /\ NoteOverlap(p)
          /\ UNCHANGED faults
       \/ Return(p) /\ Fault /\ UNCHANGED <<records, disturbed>>
    /\ UNCHANGED <<index, userIndex, cmd, match, issued, pollVars>>

(* AddToUserSubscriptionIndex, its two keys one after the other.  A failure  *)
(* is logged; the command answers that the channel is subscribed.            *)
AddToIndex(p) ==
    /\ pc[p] = "index"
    /\ \/ index' = index \cup {Asked(p)} /\ GoTo(p, "userIndex") /\ UNCHANGED <<faults, disturbed>>
       \/ Return(p) /\ Fault /\ Disturb(Asked(p)) /\ UNCHANGED index
    /\ UNCHANGED <<records, userIndex, cmd, match, issued, pollVars>>

AddToUserIndex(p) ==
    /\ pc[p] = "userIndex" /\ Return(p)
    /\ \/ /\ userIndex' = [userIndex EXCEPT ![cmd[p].user] = @ \cup {Asked(p)}]
          /\ UNCHANGED <<faults, disturbed>>
       \/ Fault /\ Disturb(Asked(p)) /\ UNCHANGED userIndex
    /\ UNCHANGED <<records, index, cmd, match, issued, pollVars>>

Add(p) ==
    GetExisting(p) \/ StoreSubscription(p) \/ AddToIndex(p) \/ AddToUserIndex(p)

(* RemoveSubscription: only an indexed space is looked at.                   *)
ListAll(p) ==
    /\ pc[p] = "list"
    /\ \/ Asked(p) \in index /\ GoTo(p, "find") /\ UNCHANGED faults
       \/ Asked(p) \notin index /\ Return(p) /\ UNCHANGED faults
       \/ Return(p) /\ Fault
    /\ UNCHANGED <<storeVars, cmd, match, issued, pollVars, disturbed>>

(* The record must belong to the command's channel; one that is missing or   *)
(* cannot be read is passed over.                                            *)
FindMatch(p) ==
    LET sub == records[Asked(p)]
        own == sub # NoSubscription /\ sub.channel = cmd[p].channel
    IN  /\ pc[p] = "find"
        /\ \/ own /\ match' = [match EXCEPT ![p] = sub] /\ GoTo(p, "delete") /\ UNCHANGED faults
           \/ ~own /\ Return(p) /\ UNCHANGED <<match, faults>>
           \/ Return(p) /\ Fault /\ UNCHANGED match
        /\ UNCHANGED <<storeVars, cmd, issued, pollVars, disturbed>>

DeleteSubscription(p) ==
    /\ pc[p] = "delete"
    /\ \/ /\ records' = [records EXCEPT ![Asked(p)] = NoSubscription]
          /\ GoTo(p, "unindex") /\ NoteOverlap(p)
          /\ UNCHANGED faults
       \/ Return(p) /\ Fault /\ UNCHANGED <<records, disturbed>>
    /\ UNCHANGED <<index, userIndex, cmd, match, issued, pollVars>>

(* RemoveFromUserSubscriptionIndex, for the user who created the record.     *)
RemoveFromIndex(p) ==
    /\ pc[p] = "unindex"
    /\ \/ index' = index \ {Asked(p)} /\ GoTo(p, "userUnindex") /\ UNCHANGED <<faults, disturbed>>
       \/ Return(p) /\ Fault /\ Disturb(Asked(p)) /\ UNCHANGED index
    /\ UNCHANGED <<records, userIndex, cmd, match, issued, pollVars>>

(* A slip: the index of whoever runs the command.                            *)
RemoveFromCallersIndex(p) ==
    /\ pc[p] = "userUnindex" /\ Return(p)
    /\ \/ /\ userIndex' = [userIndex EXCEPT ![cmd[p].user] = @ \ {Asked(p)}]
          /\ UNCHANGED <<faults, disturbed>>
       \/ Fault /\ Disturb(Asked(p)) /\ UNCHANGED userIndex
    /\ UNCHANGED <<records, index, cmd, match, issued, pollVars>>

RemoveFromUserIndex(p) ==
    /\ pc[p] = "userUnindex" /\ Return(p)
    /\ \/ /\ userIndex' = [userIndex EXCEPT ![match[p].owner] = @ \ {Asked(p)}]
          /\ UNCHANGED <<faults, disturbed>>
       \/ Fault /\ Disturb(Asked(p)) /\ UNCHANGED userIndex
    /\ UNCHANGED <<records, index, cmd, match, issued, pollVars>>

Remove(p) ==
    \/ ListAll(p) \/ FindMatch(p) \/ DeleteSubscription(p)
    \/ RemoveFromIndex(p) \/ RemoveFromUserIndex(p)

(* The node that runs a command stops.                                       *)
CommandLost(p) ==
    /\ pc[p] # "idle" /\ Return(p) /\ Fault
    /\ IF pc[p] \in Indexing THEN Disturb(Asked(p)) ELSE UNCHANGED disturbed
    /\ UNCHANGED <<storeVars, cmd, match, issued, pollVars>>

(* What `/meet subscription list` shows a user.                              *)
ListSubscriptions(u) == {s \in userIndex[u] : records[s] # NoSubscription}

-----------------------------------------------------------------------------
(* The poll cycle, as far as it touches the registry.                        *)

(* The slip that works on a listing made before: what was added since is not *)
(* visited.                                                                  *)
BeginCycleWithoutListing ==
    /\ ~polling
    /\ polling' = TRUE /\ UNCHANGED toVisit
    /\ UNCHANGED <<storeVars, commandVars, copy, writes, disturbed, faults>>

(* ListAllSubscriptionSpaceIDs; a failure is a cycle not taken.              *)
BeginCycle ==
    /\ ~polling
    /\ polling' = TRUE /\ toVisit' = index
    /\ UNCHANGED <<storeVars, commandVars, copy, writes, disturbed, faults>>

(* GetSubscription of the next space; a record that is missing or cannot be  *)
(* read is passed over, and nothing mends its index entry.                   *)
LoadSubscription(s) ==
    /\ polling /\ s \in toVisit
    /\ copy = [t \in Space |-> NoSubscription]
    /\ toVisit' = toVisit \ {s}
    /\ \/ copy' = [copy EXCEPT ![s] = records[s]] /\ writes' = 2 /\ UNCHANGED faults
       \/ Fault /\ UNCHANGED <<copy, writes>>
    /\ UNCHANGED <<storeVars, commandVars, polling, disturbed>>

(* The slip that stores after every change and never stops counting.         *)
WriteBackUncounted(s) ==
    /\ copy[s] # NoSubscription
    /\ writes' = writes - 1
    /\ records' = [records EXCEPT ![s] = copy[s]] \/ UNCHANGED records
    /\ UNCHANGED <<index, userIndex, commandVars, polling, toVisit, copy, disturbed, faults>>

(* pollSubscription stores its copy after the batch and after pruning, each  *)
(* time only if it changed something; a store that fails is one not made.    *)
WriteBack(s) ==
    /\ copy[s] # NoSubscription /\ writes > 0
    /\ writes' = writes - 1
    /\ records' = [records EXCEPT ![s] = copy[s]] \/ UNCHANGED records
    /\ UNCHANGED <<index, userIndex, commandVars, polling, toVisit, copy, disturbed, faults>>

FinishSubscription(s) ==
    /\ copy[s] # NoSubscription /\ writes = 0
    /\ copy' = [copy EXCEPT ![s] = NoSubscription]
    /\ UNCHANGED <<storeVars, commandVars, polling, toVisit, writes, disturbed, faults>>

EndCycle ==
    /\ polling /\ toVisit = {} /\ copy = [t \in Space |-> NoSubscription]
    /\ polling' = FALSE
    /\ UNCHANGED <<storeVars, commandVars, toVisit, copy, writes, disturbed, faults>>

(* The node that polls stops; the mutex lets another node begin a cycle.     *)
CycleLost ==
    /\ polling /\ Fault
    /\ polling' = FALSE /\ toVisit' = {} /\ copy' = [t \in Space |-> NoSubscription] /\ writes' = 0
    /\ UNCHANGED <<storeVars, commandVars, disturbed>>

Poll ==
    \/ BeginCycle \/ EndCycle
    \/ \E s \in Space : LoadSubscription(s) \/ WriteBack(s) \/ FinishSubscription(s)

-----------------------------------------------------------------------------
Init ==
    /\ records = [s \in Space |-> NoSubscription]
    /\ index = {} /\ userIndex = [u \in User |-> {}]
    /\ pc = [p \in Caller |-> "idle"]
    /\ cmd \in [Caller -> [user : User, channel : Channel, space : Space]]
    /\ \A p, q \in Caller : cmd[p] = cmd[q]
    /\ match = [p \in Caller |-> NoSubscription]
    /\ polling = FALSE /\ toVisit = {} /\ copy = [s \in Space |-> NoSubscription] /\ writes = 0
    /\ issued = 0 /\ disturbed = {} /\ faults = 0

Next ==
    \/ \E p \in Caller : \/ \E u \in User, c \in Channel, s \in Space : Issue(p, u, c, s)
                         \/ Add(p) \/ Remove(p) \/ CommandLost(p)
    \/ Poll \/ CycleLost

Spec == Init /\ [][Next]_vars

(* The ticker fires for ever and a cycle never waits; a command that runs    *)
(* reaches its end.  Nobody has to issue a command.                          *)
Fairness ==
    /\ WF_vars(Poll)
    /\ \A p \in Caller : WF_vars(Add(p) \/ Remove(p))

FairSpec == Spec /\ Fairness

-----------------------------------------------------------------------------
(* Properties *)

(* The variables keep their types (records and indexes of the KV store).     *)
TypeOK ==
    /\ records \in [Space -> Subscription \cup {NoSubscription}]
    /\ index \subseteq Space /\ userIndex \in [User -> SUBSET Space]
    /\ pc \in [Caller -> {"idle"} \cup AddSteps \cup RemoveSteps]
    /\ cmd \in [Caller -> [user : User, channel : Channel, space : Space]]
    /\ match \in [Caller -> Subscription \cup {NoSubscription}]
    /\ polling \in BOOLEAN /\ toVisit \subseteq Space
    /\ copy \in [Space -> Subscription \cup {NoSubscription}] /\ writes \in 0..2
    /\ issued \in 0..MaxCommands /\ disturbed \subseteq Space /\ faults \in 0..MaxFaults

(* No command is between its change of the record of s and its last change   *)
(* of an index.                                                              *)
Settled(s) ==
    \A p \in Caller : pc[p] \in Indexing => Asked(p) # s

(* The three keys of a space agree (kvstore/subscription.go, the sequential  *)
(* updates): between commands, and unless an index update failed, a node     *)
(* stopped between two of them, or a record was replaced or deleted while    *)
(* something else dealt with its space, a space is listed for the poller if  *)
(* and only if it has a record, and shown to exactly the user who created it.*)
KeysAgree ==
    \A s \in Space : s \notin disturbed /\ Settled(s) =>
        /\ s \in index <=> records[s] # NoSubscription
        /\ \A u \in User : s \in userIndex[u] <=> records[s] # NoSubscription /\ records[s].owner = u
        /\ \A u \in User : s \in ListSubscriptions(u) <=> s \in userIndex[u]

Ownership == INSTANCE SpaceOwnership WITH
    channel <- [s \in Space |-> IF records[s] = NoSubscription THEN NoChannel
                                ELSE records[s].channel]

(* The commands implement the atomic map from spaces to channels: taking an  *)
(* owned space is refused, a removed space is free and stays so until it is  *)
(* taken again (AddSubscription, RemoveSubscription, and the poller's        *)
(* write-backs, which must not change a channel).                            *)
ImplementsOwnership == Ownership!Spec

(* A subscription that is neither removed nor disturbed is polled: the       *)
(* poller finds through the index what AddSubscription stored.               *)
EverySubscriptionPolled ==
    \A s \in Space :
        records[s] # NoSubscription
            ~> copy[s] # NoSubscription \/ records[s] = NoSubscription \/ s \in disturbed
=============================================================================
