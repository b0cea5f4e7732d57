--------------------------- MODULE PollerLifecycle ---------------------------
(***************************************************************************)
(* When poll cycles run: the plugin's hooks (OnActivate, OnDeactivate,      *)
(* OnConfigurationChange), the polling goroutine they stop and start on     *)
(* each node of the cluster, the admin's poll-now request, and the cluster  *)
(* mutex a cycle holds (server/plugin.go, server/configuration.go, the      *)
(* first part of server/poll.go).                                           *)
(*                                                                          *)
(* The hooks of one node run one at a time, as the server calls them; the   *)
(* goroutines run between any two of their steps.  A cycle's work itself is *)
(* the subject of ConferencePoll, SubscriptionRegistry and AdHocMeetings.   *)
(***************************************************************************)
EXTENDS Integers, FiniteSets

CONSTANTS
    Node,
    Config,         \* configurations an administrator may save
    FirstConfig,
    MaxPollers,     \* bound: polling goroutines of a node not ended yet
    MaxChanges,     \* bound: configurations saved
    MaxPollNow,     \* bound: poll-now requests
    MaxFaults,      \* bound: nodes that stop, calls that fail
    NoHolder,       \* "nobody holds the mutex"
    Orphaned        \* "a process that has ended holds it"

ASSUME ConfigAssumption ==
    /\ \A c \in Config : DOMAIN c = {"enabled", "valid", "seconds"}
    /\ \A c \in Config : c.enabled \in BOOLEAN /\ c.valid \in BOOLEAN /\ c.seconds \in Int
    /\ FirstConfig \in Config
ASSUME BoundsAssumption ==
    /\ MaxPollers \in Nat \ {0} /\ MaxChanges \in Nat
    /\ MaxPollNow \in Nat /\ MaxFaults \in Nat
ASSUME NoHolderAssumption ==
    NoHolder # Orphaned /\ {NoHolder, Orphaned} \cap (Node \X (0..MaxPollers)) = {}

VARIABLES
    saved,      \* the configuration as saved on the server
    unseen,     \* nodes that have not been told of the last change yet
    hook,       \* the step of the hook a node is running
    config,     \* p.configuration
    hasStore,   \* p.kvstore is not nil
    stop,       \* p.pollerStop: the goroutine whose channel it is, or 0 (nil)
    closed,     \* the goroutines whose stop channel is closed
    at,         \* where each goroutine is; goroutine 0 serves poll-now
    interval,   \* the interval a goroutine's ticker was made with
    holder,     \* the cluster mutex
    changes,    \* configurations saved so far
    pollNows,   \* poll-now requests so far
    faults      \* faults so far

boundVars == <<changes, pollNows, faults>>
adminVars == <<saved, unseen>>
goroutineVars == <<closed, at, interval>>
vars == <<saved, unseen, hook, config, hasStore, stop, closed, at, interval, holder,
          changes, pollNows, faults>>

-----------------------------------------------------------------------------
PollerId == 1..MaxPollers
Goroutine == 0..MaxPollers

HookSteps == {"down", "setKVStore", "stopPoller", "startPoller", "ensureBot", "idle",
              "resetKVStore", "restop", "restart", "leaving"}
GoroutineSteps == {"none", "select", "enter", "lock", "locked", "work"}

defaultPollIntervalSeconds == 60
minPollIntervalSeconds == 30

(* pollInterval: unset gets the default, too small the floor.                *)
PollInterval(c) ==
    CASE c.seconds <= 0 -> defaultPollIntervalSeconds
      [] c.seconds \in 1..(minPollIntervalSeconds - 1) -> minPollIntervalSeconds
      [] OTHER -> c.seconds

Fault == faults < MaxFaults /\ faults' = faults + 1

Step(n, s) == hook' = [hook EXCEPT ![n] = s]

Goes(n, g, s) == at' = [at EXCEPT ![n][g] = s]

Running(n) == {g \in PollerId : at[n][g] # "none"}

(* Goroutines that nobody has told to stop.                                  *)
Open(n) == Running(n) \ closed[n]

-----------------------------------------------------------------------------
(* Hooks.                                                                    *)

(* The administrator saves a configuration; the server tells every node.     *)
Save(c) ==
    /\ changes < MaxChanges /\ changes' = changes + 1
    /\ saved' = c /\ unseen' = Node
    /\ UNCHANGED <<hook, config, hasStore, stop, goroutineVars, holder, pollNows, faults>>

(* OnActivate, down to setConfiguration in its OnConfigurationChange.        *)
OnActivate(n) ==
    /\ hook[n] = "down"
    /\ config' = [config EXCEPT ![n] = saved] /\ unseen' = unseen \ {n}
    /\ Step(n, "setKVStore")
    /\ UNCHANGED <<saved, hasStore, stop, goroutineVars, holder, boundVars>>

(* A slip: the poller is left as it is.                                      *)
OnConfigurationChangeOnly(n) ==
    /\ hook[n] = "idle" /\ n \in unseen
    /\ config' = [config EXCEPT ![n] = saved] /\ unseen' = unseen \ {n}
    /\ hasStore' = [hasStore EXCEPT ![n] = saved.valid]
    /\ UNCHANGED <<saved, hook, stop, goroutineVars, holder, boundVars>>

(* OnConfigurationChange, down to setConfiguration.                          *)
OnConfigurationChange(n) ==
    /\ hook[n] = "idle" /\ n \in unseen
    /\ config' = [config EXCEPT ![n] = saved] /\ unseen' = unseen \ {n}
    /\ Step(n, "resetKVStore")
    /\ UNCHANGED <<saved, hasStore, stop, goroutineVars, holder, boundVars>>

(* A store is there only while the configuration is valid.                   *)
SetKVStore(n) ==
    /\ \/ hook[n] = "setKVStore" /\ Step(n, "stopPoller")
       \/ hook[n] = "resetKVStore" /\ Step(n, "restop")
    /\ hasStore' = [hasStore EXCEPT ![n] = config[n].valid]
    /\ UNCHANGED <<adminVars, config, stop, goroutineVars, holder, boundVars>>

(* A slip: the channel is forgotten without being closed.                    *)
ForgetChannel(n) ==
    /\ stop' = [stop EXCEPT ![n] = 0] /\ UNCHANGED closed

ClosedWithOwn(n) == [closed EXCEPT ![n] = @ \cup ({stop[n]} \cap PollerId)]

(* stopPoller: the channel is closed and forgotten.                          *)
CloseChannel(n) ==
    /\ closed' = ClosedWithOwn(n)
    /\ stop' = [stop EXCEPT ![n] = 0]

StopPoller(n) ==
    /\ \/ hook[n] = "stopPoller" /\ Step(n, "startPoller")
       \/ hook[n] = "restop" /\ Step(n, "restart")
    /\ CloseChannel(n)
    /\ UNCHANGED <<adminVars, config, hasStore, at, interval, holder, boundVars>>

AfterStart(n) ==
    \/ hook[n] = "startPoller" /\ Step(n, "ensureBot")
    \/ hook[n] = "restart" /\ Step(n, "idle")

(* A slip: the configured seconds are taken as they are.                     *)
StartPollerUnclamped(n) ==
    /\ AfterStart(n)
    /\ IF config[n].enabled
       THEN \E g \in PollerId :
               /\ g \notin Running(n) /\ \A f \in 1..(g - 1) : f \in Running(n)
               /\ stop' = [stop EXCEPT ![n] = g]
               /\ Goes(n, g, "select")
               /\ interval' = [interval EXCEPT ![n][g] = config[n].seconds]
       ELSE UNCHANGED <<stop, at, interval>>
    /\ UNCHANGED <<adminVars, config, hasStore, closed, holder, boundVars>>

(* startPoller: with the feature on, a goroutine with a channel of its own,  *)
(* once the channel of any other has been closed.                            *)
StartPoller(n) ==
    /\ AfterStart(n)
    /\ IF config[n].enabled
       THEN \E g \in PollerId :
               /\ g \notin Running(n) /\ \A f \in 1..(g - 1) : f \in Running(n)
               /\ closed' = ClosedWithOwn(n)
               /\ stop' = [stop EXCEPT ![n] = g]
               /\ Goes(n, g, "select")
               /\ interval' = [interval EXCEPT ![n][g] = PollInterval(config[n])]
       ELSE UNCHANGED <<closed, stop, at, interval>>
    /\ UNCHANGED <<adminVars, config, hasStore, holder, boundVars>>

(* Nothing is left of a node's process, but for the mutex it may hold.       *)
ProcessEnds(n) ==
    /\ Step(n, "down")
    /\ stop' = [stop EXCEPT ![n] = 0] /\ closed' = [closed EXCEPT ![n] = {}]
    /\ at' = [at EXCEPT ![n] = [g \in Goroutine |-> "none"]]
    /\ interval' = [interval EXCEPT ![n] = [g \in PollerId |-> 0]]
    /\ hasStore' = [hasStore EXCEPT ![n] = FALSE]
    /\ holder' = IF \E g \in Goroutine : holder = <<n, g>> THEN Orphaned ELSE holder
    /\ UNCHANGED <<adminVars, config>>

(* EnsureBot and the rest of OnActivate.  If it fails, the server ends the   *)
(* process, whose poller is running by then.                                 *)
EnsureBot(n) ==
    /\ hook[n] = "ensureBot"
    /\ \/ Step(n, "idle")
          /\ UNCHANGED <<adminVars, config, hasStore, stop, goroutineVars, holder, faults>>
       \/ ProcessEnds(n) /\ Fault
    /\ UNCHANGED <<changes, pollNows>>

(* OnDeactivate stops the poller, not a cycle under way; the process follows.*)
OnDeactivate(n) ==
    /\ hook[n] = "idle" /\ Fault
    /\ CloseChannel(n) /\ Step(n, "leaving")
    /\ UNCHANGED <<adminVars, config, hasStore, at, interval, holder, changes, pollNows>>

Leave(n) == hook[n] = "leaving" /\ ProcessEnds(n) /\ UNCHANGED boundVars

NodeStops(n) ==
    /\ hook[n] # "down" /\ ProcessEnds(n) /\ Fault /\ UNCHANGED <<changes, pollNows>>

-----------------------------------------------------------------------------
(* Goroutines.                                                               *)

(* handlePollNow starts a cycle next to the poller's.                        *)
HandlePollNow(n) ==
    /\ hook[n] \in {"idle", "resetKVStore", "restop", "restart"}
    /\ config[n].enabled /\ at[n][0] = "none"
    /\ pollNows < MaxPollNow /\ pollNows' = pollNows + 1
    /\ Goes(n, 0, "enter")
    /\ UNCHANGED <<adminVars, hook, config, hasStore, stop, closed, interval, holder, changes, faults>>

goroutineFrame(n) == UNCHANGED <<adminVars, hook, config, hasStore, stop, boundVars>>

(* The select of the polling goroutine: the ticker, or the closed channel.   *)
(* When both are ready the choice is random.                                 *)
Tick(n, g) ==
    /\ g \in PollerId /\ at[n][g] = "select" /\ Goes(n, g, "enter")
    /\ UNCHANGED <<closed, interval, holder>> /\ goroutineFrame(n)

(* A slip: a closed channel is only seen while the feature is on.            *)
StoppedIfEnabled(n, g) ==
    /\ at[n][g] = "select" /\ g \in closed[n] /\ config[n].enabled
    /\ Goes(n, g, "none") /\ closed' = [closed EXCEPT ![n] = @ \ {g}]
    /\ interval' = [interval EXCEPT ![n][g] = 0]
    /\ UNCHANGED holder /\ goroutineFrame(n)

Stopped(n, g) ==
    /\ at[n][g] = "select" /\ g \in closed[n]
    /\ Goes(n, g, "none") /\ closed' = [closed EXCEPT ![n] = @ \ {g}]
    /\ interval' = [interval EXCEPT ![n][g] = 0]
    /\ UNCHANGED holder /\ goroutineFrame(n)

(* Back to the select, or, for poll-now, to the end of the goroutine.        *)
CycleEnds(n, g) == Goes(n, g, IF g = 0 THEN "none" ELSE "select")

(* runPollCycle: the switch, then NewMutex, whose failure ends the cycle.    *)
Enter(n, g) ==
    /\ at[n][g] = "enter"
    /\ \/ config[n].enabled /\ Goes(n, g, "lock") /\ UNCHANGED faults
       \/ ~config[n].enabled /\ CycleEnds(n, g) /\ UNCHANGED faults
       \/ CycleEnds(n, g) /\ Fault
    /\ UNCHANGED <<adminVars, hook, config, hasStore, stop, closed, interval, holder, changes, pollNows>>

(* A slip: a mutex of the node's own.                                        *)
LockOnNode(n, g) ==
    /\ at[n][g] = "lock" /\ (holder \in Node \X Goroutine => holder[1] # n)
    /\ holder' = <<n, g>> /\ Goes(n, g, "locked")
    /\ UNCHANGED <<closed, interval>> /\ goroutineFrame(n)

Lock(n, g) ==
    /\ at[n][g] = "lock" /\ holder = NoHolder
    /\ holder' = <<n, g>> /\ Goes(n, g, "locked")
    /\ UNCHANGED <<closed, interval>> /\ goroutineFrame(n)

(* A slip: an early return leaves the mutex locked.                          *)
KeepLock == UNCHANGED holder

Unlock == holder' = NoHolder

(* getKVStore and ListAllSubscriptionSpaceIDs; without them nothing is done. *)
Begin(n, g) ==
    /\ at[n][g] = "locked"
    /\ \/ hasStore[n] /\ Goes(n, g, "work") /\ UNCHANGED <<holder, faults>>
       \/ ~hasStore[n] /\ CycleEnds(n, g) /\ Unlock /\ UNCHANGED faults
       \/ hasStore[n] /\ CycleEnds(n, g) /\ Unlock /\ Fault
    /\ UNCHANGED <<adminVars, hook, config, hasStore, stop, closed, interval, changes, pollNows>>

(* Every subscription and every ad-hoc meeting has been visited.             *)
Finish(n, g) ==
    /\ at[n][g] = "work" /\ CycleEnds(n, g) /\ Unlock
    /\ UNCHANGED <<closed, interval>> /\ goroutineFrame(n)

(* The mutex of a process that ended runs out.                               *)
LockExpires ==
    /\ holder = Orphaned /\ holder' = NoHolder
    /\ UNCHANGED <<adminVars, hook, config, hasStore, stop, goroutineVars, boundVars>>

-----------------------------------------------------------------------------
Init ==
    /\ saved = FirstConfig /\ unseen = {}
    /\ hook = [n \in Node |-> "down"]
    /\ config = [n \in Node |-> FirstConfig]
    /\ hasStore = [n \in Node |-> FALSE]
    /\ stop = [n \in Node |-> 0]
    /\ closed = [n \in Node |-> {}]
    /\ at = [n \in Node |-> [g \in Goroutine |-> "none"]]
    /\ interval = [n \in Node |-> [g \in PollerId |-> 0]]
    /\ holder = NoHolder
    /\ changes = 0 /\ pollNows = 0 /\ faults = 0

HookStep(n) ==
    \/ OnActivate(n) \/ OnConfigurationChange(n) \/ SetKVStore(n) \/ StopPoller(n)
    \/ StartPoller(n) \/ EnsureBot(n) \/ Leave(n)

CycleStep(n, g) == Tick(n, g) \/ Enter(n, g) \/ Begin(n, g) \/ Finish(n, g)

Next ==
    \/ \E c \in Config : Save(c)
    \/ \E n \in Node : HookStep(n) \/ OnDeactivate(n) \/ NodeStops(n) \/ HandlePollNow(n)
    \/ \E n \in Node, g \in PollerId : Stopped(n, g)
    \/ \E n \in Node, g \in Goroutine : CycleStep(n, g) \/ Lock(n, g)
    \/ LockExpires

Spec == Init /\ [][Next]_vars

(* The server runs the hooks it has begun, calls OnConfigurationChange after *)
(* a change and restarts a node; the tickers tick, and a cycle goes on.  A   *)
(* free mutex goes to one of those that retry Lock; a random select does not *)
(* ignore closed channels for ever.                                          *)
Fairness ==
    /\ WF_vars(LockExpires)
    /\ \A n \in Node : WF_vars(HookStep(n))
    /\ \A n \in Node, g \in Goroutine : WF_vars(CycleStep(n, g))
    /\ WF_vars(\E n \in Node, g \in Goroutine : Lock(n, g))
    /\ SF_vars(\E n \in Node, g \in PollerId : Stopped(n, g))

FairSpec == Spec /\ Fairness

-----------------------------------------------------------------------------
(* Every variable stays in its range.                                        *)
TypeOK ==
    /\ saved \in Config /\ unseen \subseteq Node
    /\ hook \in [Node -> HookSteps] /\ config \in [Node -> Config]
    /\ hasStore \in [Node -> BOOLEAN] /\ stop \in [Node -> Goroutine]
    /\ closed \in [Node -> SUBSET PollerId]
    /\ at \in [Node -> [Goroutine -> GoroutineSteps]]
    /\ interval \in [Node -> [PollerId -> {0} \cup {PollInterval(c) : c \in Config}]]
    /\ holder \in (Node \X Goroutine) \cup {NoHolder, Orphaned}
    /\ changes \in 0..MaxChanges /\ pollNows \in 0..MaxPollNow /\ faults \in 0..MaxFaults

(* No polling goroutine leaks (poll.go:36-38): the only goroutine of a node  *)
(* that nobody has told to stop is the one whose channel pollerStop is.      *)
NoPollerLeaks == \A n \in Node : Open(n) = {stop[n]} \cap PollerId

(* Between hooks, the open poller is what the node's configuration asks for: *)
(* there is one exactly when the feature is on (poll.go:31), its interval is *)
(* the configured one and never below the floor (configuration.go:42-53).    *)
PollerFollowsConfig ==
    \A n \in Node : hook[n] = "idle" =>
        /\ config[n].enabled <=> Open(n) # {}
        /\ \A g \in Open(n) : /\ interval[n][g] = PollInterval(config[n])
                              /\ interval[n][g] >= minPollIntervalSeconds

(* One cycle at a time in the whole cluster (poll.go:70-71), tickers and     *)
(* poll-now of every node together: what the other modules assume.           *)
OneCycleAtATime ==
    \A n, m \in Node, g, h \in Goroutine :
        at[n][g] \in {"locked", "work"} /\ at[m][h] \in {"locked", "work"} => n = m /\ g = h

(* Where the feature stays on and the configuration valid, cycles keep       *)
(* working, whatever cycle ended early or whatever node stopped before.      *)
PollingGoesOn ==
    (\E n \in Node : <>[](hook[n] = "idle" /\ config[n].enabled /\ hasStore[n]))
        => []<>(\E n \in Node, g \in Goroutine : at[n][g] = "work")

(* The switch works: where the feature stays off, in the end no goroutine is *)
(* left, those of earlier configurations included (poll.go:31,52-54,75).     *)
SwitchedOffIsQuiet ==
    \A n \in Node : <>[](hook[n] = "idle" /\ ~config[n].enabled)
        => <>[](\A g \in Goroutine : at[n][g] = "none")
=============================================================================
