----------------------- MODULE PollerLifecycleProofs -----------------------
(* Proofs about PollerLifecycle, for any nodes, configurations and bounds.   *)
EXTENDS PollerLifecycle, TLAPS

-----------------------------------------------------------------------------
(* Groups of actions *)

(* What the goroutines do between a start and a stop. *)
GoroutineStep ==
    \/ \E n \in Node : HandlePollNow(n)
    \/ \E n \in Node, g \in Goroutine : CycleStep(n, g) \/ Lock(n, g)

(* What only touches the configuration, the store handle, a hook's progress *)
(* or an orphaned mutex. *)
QuietStep ==
    \/ \E c \in Config : Save(c)
    \/ \E n \in Node : OnActivate(n) \/ OnConfigurationChange(n) \/ SetKVStore(n)
    \/ LockExpires

LEMMA StepsGrouped ==
    ASSUME Next
    PROVE  \/ GoroutineStep
           \/ QuietStep
           \/ \E n \in Node : StopPoller(n) \/ OnDeactivate(n) \/ StartPoller(n)
           \/ \E n \in Node : EnsureBot(n) \/ Leave(n) \/ NodeStops(n)
           \/ \E n \in Node, g \in PollerId : Stopped(n, g)
BY DEF Next, HookStep, GoroutineStep, QuietStep

-----------------------------------------------------------------------------
(* Type correctness *)

LEMMA IntervalType ==
    ASSUME NEW c \in Config
    PROVE  /\ PollInterval(c) \in {0} \cup {PollInterval(d) : d \in Config}
           /\ PollInterval(c) \in Int
           /\ PollInterval(c) >= minPollIntervalSeconds
<1>1. c.seconds \in Int
  BY ConfigAssumption
<1>2. CASE c.seconds <= 0
  BY <1>1, <1>2 DEF PollInterval, minPollIntervalSeconds, defaultPollIntervalSeconds
<1>3. CASE c.seconds \in 1..(minPollIntervalSeconds - 1)
  BY <1>1, <1>3 DEF PollInterval, minPollIntervalSeconds, defaultPollIntervalSeconds
<1>4. CASE c.seconds >= minPollIntervalSeconds
  BY <1>1, <1>4 DEF PollInterval, minPollIntervalSeconds, defaultPollIntervalSeconds
<1> QED BY <1>1, <1>2, <1>3, <1>4 DEF minPollIntervalSeconds

LEMMA FaultType ==
    ASSUME Fault, faults \in 0..MaxFaults
    PROVE  faults' \in 0..MaxFaults
BY BoundsAssumption DEF Fault

LEMMA GoesType ==
    ASSUME TypeOK, NEW n \in Node, NEW g \in Goroutine, NEW s \in GoroutineSteps, Goes(n, g, s)
    PROVE  at' \in [Node -> [Goroutine -> GoroutineSteps]]
BY DEF TypeOK, Goes

LEMMA CycleEndsType ==
    ASSUME TypeOK, NEW n \in Node, NEW g \in Goroutine, CycleEnds(n, g)
    PROVE  at' \in [Node -> [Goroutine -> GoroutineSteps]]
<1>1. (IF g = 0 THEN "none" ELSE "select") \in GoroutineSteps
  BY DEF GoroutineSteps
<1> QED BY <1>1, GoesType DEF CycleEnds

LEMMA TypeInit == Init => TypeOK
BY ConfigAssumption, BoundsAssumption
   DEF Init, TypeOK, HookSteps, GoroutineSteps, Goroutine, PollerId

LEMMA TypeEnds ==
    ASSUME TypeOK, NEW n \in Node, ProcessEnds(n), UNCHANGED <<changes, pollNows>>,
           faults' \in 0..MaxFaults
    PROVE  TypeOK'
<1>1. hook' \in [Node -> HookSteps] /\ hasStore' \in [Node -> BOOLEAN]
  BY DEF ProcessEnds, Step, TypeOK, HookSteps
<1>2. stop' \in [Node -> Goroutine] /\ closed' \in [Node -> SUBSET PollerId]
  BY BoundsAssumption DEF ProcessEnds, TypeOK, Goroutine
<1>3. at' \in [Node -> [Goroutine -> GoroutineSteps]]
  <2>1. [g \in Goroutine |-> "none"] \in [Goroutine -> GoroutineSteps]
    BY DEF GoroutineSteps
  <2> QED BY <2>1 DEF ProcessEnds, TypeOK
<1>4. interval' \in [Node -> [PollerId -> {0} \cup {PollInterval(c) : c \in Config}]]
  <2>1. [g \in PollerId |-> 0] \in [PollerId -> {0} \cup {PollInterval(c) : c \in Config}]
    OBVIOUS
  <2> QED BY <2>1 DEF ProcessEnds, TypeOK
<1>5. holder' \in (Node \X Goroutine) \cup {NoHolder, Orphaned}
  BY DEF ProcessEnds, TypeOK
<1> QED BY <1>1, <1>2, <1>3, <1>4, <1>5 DEF ProcessEnds, adminVars, TypeOK

LEMMA TypeGoroutine ==
    ASSUME TypeOK, GoroutineStep
    PROVE  TypeOK'
<1>1. ASSUME NEW n \in Node, HandlePollNow(n)
      PROVE  TypeOK'
  BY <1>1, BoundsAssumption
     DEF HandlePollNow, Goes, TypeOK, adminVars, Goroutine, GoroutineSteps
<1> SUFFICES ASSUME NEW n \in Node, NEW g \in Goroutine, CycleStep(n, g) \/ Lock(n, g)
             PROVE  TypeOK'
  BY <1>1 DEF GoroutineStep
<1> USE DEF goroutineFrame, boundVars, adminVars
<1>2. CASE Tick(n, g)
  BY <1>2, GoesType DEF Tick, GoroutineSteps, TypeOK
<1>3. CASE Enter(n, g)
  <2>1. at' \in [Node -> [Goroutine -> GoroutineSteps]]
    BY <1>3, GoesType, CycleEndsType DEF Enter, GoroutineSteps
  <2>2. faults' \in 0..MaxFaults
    BY <1>3, FaultType DEF Enter, TypeOK
  <2> QED BY <1>3, <2>1, <2>2 DEF Enter, TypeOK
<1>4. CASE Begin(n, g)
  <2>1. at' \in [Node -> [Goroutine -> GoroutineSteps]]
    BY <1>4, GoesType, CycleEndsType DEF Begin, GoroutineSteps
  <2>2. faults' \in 0..MaxFaults
    BY <1>4, FaultType DEF Begin, TypeOK
  <2>3. holder' \in (Node \X Goroutine) \cup {NoHolder, Orphaned}
    BY <1>4 DEF Begin, Unlock, TypeOK
  <2> QED BY <1>4, <2>1, <2>2, <2>3 DEF Begin, TypeOK
<1>5. CASE Finish(n, g)
  BY <1>5, CycleEndsType DEF Finish, Unlock, TypeOK
<1>6. CASE Lock(n, g)
  BY <1>6, GoesType DEF Lock, GoroutineSteps, TypeOK
<1> QED BY <1>2, <1>3, <1>4, <1>5, <1>6 DEF CycleStep

LEMMA TypeQuiet ==
    ASSUME TypeOK, QuietStep
    PROVE  TypeOK'
<1> USE DEF boundVars, adminVars, goroutineVars, Step, TypeOK, HookSteps
<1>1. ASSUME NEW c \in Config, Save(c)
      PROVE  TypeOK'
  BY <1>1, BoundsAssumption DEF Save
<1>2. ASSUME NEW n \in Node, OnActivate(n)
      PROVE  TypeOK'
  BY <1>2 DEF OnActivate
<1>3. ASSUME NEW n \in Node, OnConfigurationChange(n)
      PROVE  TypeOK'
  BY <1>3 DEF OnConfigurationChange
<1>4. ASSUME NEW n \in Node, SetKVStore(n)
      PROVE  TypeOK'
  <2>1. config[n].valid \in BOOLEAN
    BY ConfigAssumption
  <2> QED BY <1>4, <2>1 DEF SetKVStore
<1>5. CASE LockExpires
  BY <1>5 DEF LockExpires
<1> QED BY <1>1, <1>2, <1>3, <1>4, <1>5 DEF QuietStep

LEMMA TypeHook ==
    ASSUME TypeOK, NEW n \in Node, StopPoller(n) \/ OnDeactivate(n) \/ StartPoller(n)
    PROVE  TypeOK'
<1> USE DEF boundVars, adminVars, Step, TypeOK, HookSteps, CloseChannel, ClosedWithOwn, Goroutine
<1>1. CASE StopPoller(n)
  <2>1. hook' \in [Node -> HookSteps]
    BY <1>1 DEF StopPoller
  <2> QED BY <1>1, <2>1, BoundsAssumption DEF StopPoller, PollerId
<1>2. CASE OnDeactivate(n)
  <2>1. faults' \in 0..MaxFaults
    BY <1>2, FaultType DEF OnDeactivate
  <2> QED BY <1>2, <2>1, BoundsAssumption DEF OnDeactivate, PollerId
<1>3. CASE StartPoller(n)
  <2>1. hook' \in [Node -> HookSteps]
    BY <1>3 DEF StartPoller, AfterStart
  <2>2. CASE ~config[n].enabled
    BY <1>3, <2>1, <2>2 DEF StartPoller
  <2>3. CASE config[n].enabled
    <3>1. PICK g \in PollerId :
             /\ closed' = ClosedWithOwn(n)
             /\ stop' = [stop EXCEPT ![n] = g]
             /\ Goes(n, g, "select")
             /\ interval' = [interval EXCEPT ![n][g] = PollInterval(config[n])]
      BY <1>3, <2>3 DEF StartPoller
    <3>2. g \in Goroutine
      BY BoundsAssumption DEF PollerId
    <3>3. stop' \in [Node -> Goroutine]
      BY <3>1, <3>2
    <3>4. closed' \in [Node -> SUBSET PollerId]
      BY <3>1, BoundsAssumption DEF PollerId
    <3>5. at' \in [Node -> [Goroutine -> GoroutineSteps]]
      BY <3>1, <3>2, GoesType DEF GoroutineSteps
    <3>6. interval' \in [Node -> [PollerId -> {0} \cup {PollInterval(c) : c \in Config}]]
      BY <3>1, IntervalType
    <3> QED BY <1>3, <2>1, <3>3, <3>4, <3>5, <3>6 DEF StartPoller
  <2> QED BY <2>2, <2>3
<1> QED BY <1>1, <1>2, <1>3

LEMMA TypeStep ==
    ASSUME TypeOK, [Next]_vars
    PROVE  TypeOK'
<1>1. CASE UNCHANGED vars
  BY <1>1 DEF vars, TypeOK
<1>2. ASSUME NEW n \in Node, EnsureBot(n) \/ Leave(n) \/ NodeStops(n)
      PROVE  TypeOK'
  <2>1. CASE EnsureBot(n) /\ ~ProcessEnds(n)
    BY <2>1 DEF EnsureBot, Step, adminVars, goroutineVars, TypeOK, HookSteps
  <2>2. CASE ProcessEnds(n)
    <3>1. faults' \in 0..MaxFaults /\ UNCHANGED <<changes, pollNows>>
      BY <1>2, <2>2, FaultType
         DEF EnsureBot, Leave, NodeStops, boundVars, TypeOK
    <3> QED BY <2>2, <3>1, TypeEnds
  <2> QED BY <1>2, <2>1, <2>2 DEF Leave, NodeStops
<1>3. ASSUME NEW n \in Node, NEW g \in PollerId, Stopped(n, g)
      PROVE  TypeOK'
  BY <1>3 DEF Stopped, Goes, goroutineFrame, boundVars, adminVars, TypeOK, GoroutineSteps, Goroutine
<1> QED BY <1>1, <1>2, <1>3, StepsGrouped, TypeGoroutine, TypeQuiet, TypeHook

(* Every variable of the lifecycle stays in its range. *)
THEOREM TypeCorrect == Spec => []TypeOK
BY TypeInit, TypeStep, PTL DEF Spec

-----------------------------------------------------------------------------
(* One cycle at a time *)

InCycle(n, g) == at[n][g] \in {"locked", "work"}

(* Whoever works holds the cluster mutex: what makes OneCycleAtATime         *)
(* inductive. *)
MutexHeld == \A n \in Node, g \in Goroutine : InCycle(n, g) => holder = <<n, g>>

MutexInv == TypeOK /\ MutexHeld

(* A goroutine that moves outside a cycle leaves the mutex to its holder. *)
LEMMA MovesOutside ==
    ASSUME MutexInv, NEW n \in Node, NEW g \in Goroutine,
           NEW s \in {"none", "select", "enter", "lock"}, Goes(n, g, s), UNCHANGED holder
    PROVE  MutexHeld'
<1> SUFFICES ASSUME NEW m \in Node, NEW h \in Goroutine, InCycle(m, h)'
             PROVE  holder' = <<m, h>>
  BY DEF MutexHeld
<1>1. InCycle(m, h)
  BY DEF MutexInv, TypeOK, Goes, InCycle
<1> QED BY <1>1 DEF MutexInv, MutexHeld

(* The one in a cycle may give the mutex away as it leaves. *)
LEMMA LeavesCycle ==
    ASSUME MutexInv, NEW n \in Node, NEW g \in Goroutine,
           InCycle(n, g), CycleEnds(n, g)
    PROVE  MutexHeld'
<1> SUFFICES ASSUME NEW m \in Node, NEW h \in Goroutine, InCycle(m, h)'
             PROVE  FALSE
  BY DEF MutexHeld
<1>1. InCycle(m, h) /\ <<m, h>> # <<n, g>>
  BY DEF MutexInv, TypeOK, CycleEnds, Goes, InCycle
<1> QED BY <1>1 DEF MutexInv, MutexHeld

LEMMA MutexGoroutine ==
    ASSUME MutexInv, GoroutineStep
    PROVE  MutexHeld'
<1>1. ASSUME NEW n \in Node, HandlePollNow(n)
      PROVE  MutexHeld'
  <2>1. 0 \in Goroutine
    BY BoundsAssumption DEF Goroutine
  <2> QED BY <1>1, <2>1, MovesOutside DEF HandlePollNow
<1> SUFFICES ASSUME NEW n \in Node, NEW g \in Goroutine, CycleStep(n, g) \/ Lock(n, g)
             PROVE  MutexHeld'
  BY <1>1 DEF GoroutineStep
<1>2. CycleEnds(n, g) /\ UNCHANGED holder => MutexHeld'
  BY MovesOutside DEF CycleEnds
<1>3. CASE Tick(n, g)
  BY <1>3, MovesOutside DEF Tick
<1>4. CASE Enter(n, g)
  BY <1>2, <1>4, MovesOutside DEF Enter
<1>5. CASE Begin(n, g)
  <2>1. CASE Goes(n, g, "work") /\ UNCHANGED holder
    <3> SUFFICES ASSUME NEW m \in Node, NEW h \in Goroutine, InCycle(m, h)'
                 PROVE  holder' = <<m, h>>
      BY DEF MutexHeld
    <3>1. InCycle(m, h)
      BY <1>5, <2>1 DEF Begin, MutexInv, TypeOK, Goes, InCycle
    <3> QED BY <2>1, <3>1 DEF MutexInv, MutexHeld
  <2>2. CASE CycleEnds(n, g)
    BY <1>5, <2>2, LeavesCycle DEF Begin, InCycle
  <2> QED BY <1>5, <2>1, <2>2 DEF Begin
<1>6. CASE Finish(n, g)
  BY <1>6, LeavesCycle DEF Finish, InCycle
<1>7. CASE Lock(n, g)
  <2> SUFFICES ASSUME NEW m \in Node, NEW h \in Goroutine, InCycle(m, h)'
               PROVE  holder' = <<m, h>>
    BY DEF MutexHeld
  <2>1. InCycle(m, h) => holder = <<m, h>>
    BY DEF MutexInv, MutexHeld
  <2>2. <<m, h>> # NoHolder
    BY NoHolderAssumption DEF Goroutine
  <2>3. <<m, h>> = <<n, g>>
    BY <1>7, <2>1, <2>2 DEF Lock, Goes, InCycle, MutexInv, TypeOK
  <2> QED BY <1>7, <2>3 DEF Lock
<1> QED BY <1>3, <1>4, <1>5, <1>6, <1>7 DEF CycleStep

(* An ended process is in no cycle, and orphans no mutex but its own. *)
LEMMA MutexEnds ==
    ASSUME MutexInv, NEW n \in Node, ProcessEnds(n)
    PROVE  MutexHeld'
<1> SUFFICES ASSUME NEW m \in Node, NEW h \in Goroutine, InCycle(m, h)'
             PROVE  holder' = <<m, h>>
  BY DEF MutexHeld
<1>1. m # n /\ InCycle(m, h)
  BY DEF ProcessEnds, MutexInv, TypeOK, InCycle
<1>2. holder = <<m, h>>
  BY <1>1 DEF MutexInv, MutexHeld
<1> QED BY <1>1, <1>2 DEF ProcessEnds

LEMMA MutexStep ==
    ASSUME MutexInv, [Next]_vars
    PROVE  MutexInv'
<1>1. TypeOK'
  BY TypeStep DEF MutexInv
<1> SUFFICES MutexHeld'
  BY <1>1 DEF MutexInv
<1>2. at' = at /\ holder' = holder => MutexHeld'
  BY DEF MutexInv, MutexHeld, InCycle
<1>3. CASE QuietStep
  <2>1. CASE LockExpires
    <3>1. \A n \in Node, g \in Goroutine : <<n, g>> # Orphaned
      BY NoHolderAssumption DEF Goroutine
    <3>2. holder = Orphaned /\ at' = at
      BY <2>1 DEF LockExpires, goroutineVars
    <3>3. \A n \in Node, g \in Goroutine : ~InCycle(n, g)
      BY <3>1, <3>2 DEF MutexInv, MutexHeld
    <3>4. \A n \in Node, g \in Goroutine : ~InCycle(n, g)'
      BY <3>2, <3>3 DEF InCycle
    <3> QED BY <3>4 DEF MutexHeld
  <2>2. CASE ~LockExpires
    BY <1>2, <1>3, <2>2
       DEF QuietStep, Save, OnActivate, OnConfigurationChange, SetKVStore, goroutineVars
  <2> QED BY <2>1, <2>2
<1>4. ASSUME NEW n \in Node, StopPoller(n) \/ OnDeactivate(n)
      PROVE  MutexHeld'
  BY <1>2, <1>4 DEF StopPoller, OnDeactivate
<1>5. ASSUME NEW n \in Node, StartPoller(n)
      PROVE  MutexHeld'
  <2>1. CASE ~config[n].enabled
    BY <1>2, <1>5, <2>1 DEF StartPoller
  <2>2. CASE config[n].enabled
    <3>1. PICK g \in PollerId : Goes(n, g, "select")
      BY <1>5, <2>2 DEF StartPoller
    <3>2. g \in Goroutine
      BY BoundsAssumption DEF PollerId, Goroutine
    <3> QED BY <1>5, <3>1, <3>2, MovesOutside DEF StartPoller
  <2> QED BY <2>1, <2>2
<1>6. ASSUME NEW n \in Node, EnsureBot(n) \/ Leave(n) \/ NodeStops(n)
      PROVE  MutexHeld'
  BY <1>2, <1>6, MutexEnds DEF EnsureBot, Leave, NodeStops, goroutineVars
<1>7. ASSUME NEW n \in Node, NEW g \in PollerId, Stopped(n, g)
      PROVE  MutexHeld'
  <2>1. g \in Goroutine
    BY BoundsAssumption DEF PollerId, Goroutine
  <2> QED BY <1>7, <2>1, MovesOutside DEF Stopped
<1>8. CASE UNCHANGED vars
  BY <1>2, <1>8 DEF vars
<1> QED
  BY <1>3, <1>4, <1>5, <1>6, <1>7, <1>8, StepsGrouped, MutexGoroutine

(* At most one goroutine of the cluster is between Lock and Unlock: the      *)
(* mutex of poll.go:70-71 is enough, whatever stops, restarts or expires.    *)
THEOREM CyclesAreSerial == Spec => []OneCycleAtATime
<1>1. Init => MutexInv
  <2>1. Init => MutexHeld
    BY DEF Init, MutexHeld, InCycle
  <2> QED BY <2>1, TypeInit DEF MutexInv
<1>2. MutexInv => OneCycleAtATime
  <2> SUFFICES ASSUME MutexInv, NEW n \in Node, NEW m \in Node,
                      NEW g \in Goroutine, NEW h \in Goroutine,
                      InCycle(n, g), InCycle(m, h)
               PROVE  n = m /\ g = h
    BY DEF OneCycleAtATime, InCycle
  <2> QED BY DEF MutexInv, MutexHeld
<1> QED BY <1>1, <1>2, MutexStep, PTL DEF Spec

-----------------------------------------------------------------------------
(* The poller and the configuration *)

(* Between stopPoller and startPoller there is no channel, and once a hook   *)
(* has started its poller, it is what the configuration asks for.            *)
HookProgress ==
    \A n \in Node :
        /\ hook[n] \in {"startPoller", "restart"} => stop[n] = 0
        /\ hook[n] \in {"ensureBot", "idle"} =>
              /\ config[n].enabled <=> stop[n] \in PollerId
              /\ stop[n] \in PollerId => interval[n][stop[n]] = PollInterval(config[n])

ClosedAreRunning == \A n \in Node : closed[n] \subseteq Running(n)

PollerInv == TypeOK /\ NoPollerLeaks /\ ClosedAreRunning /\ HookProgress

(* A goroutine that lives on changes nothing of this. *)
LEMMA PollersKept ==
    ASSUME PollerInv, \A n \in Node : Running(n)' = Running(n),
           UNCHANGED <<hook, config, stop, closed, interval>>
    PROVE  (NoPollerLeaks /\ ClosedAreRunning /\ HookProgress)'
BY DEF PollerInv, NoPollerLeaks, ClosedAreRunning, HookProgress, Open

LEMMA RunningKept ==
    ASSUME TypeOK, NEW n \in Node, NEW g \in Goroutine, NEW s, Goes(n, g, s),
           g \in PollerId => at[n][g] # "none" /\ s # "none"
    PROVE  \A m \in Node : Running(m)' = Running(m)
<1> SUFFICES ASSUME NEW m \in Node, NEW h \in PollerId
             PROVE  at'[m][h] # "none" <=> at[m][h] # "none"
  BY DEF Running
<1>1. h \in Goroutine
  BY BoundsAssumption DEF PollerId, Goroutine
<1> QED BY <1>1 DEF TypeOK, Goes

LEMMA PollersGoroutine ==
    ASSUME PollerInv, GoroutineStep
    PROVE  (NoPollerLeaks /\ ClosedAreRunning /\ HookProgress)'
<1> TypeOK
  BY DEF PollerInv
<1>1. 0 \in Goroutine /\ 0 \notin PollerId
  BY BoundsAssumption DEF Goroutine, PollerId
<1>2. ASSUME NEW n \in Node, HandlePollNow(n)
      PROVE  (NoPollerLeaks /\ ClosedAreRunning /\ HookProgress)'
  BY <1>1, <1>2, RunningKept, PollersKept DEF HandlePollNow
<1> SUFFICES ASSUME NEW n \in Node, NEW g \in Goroutine, CycleStep(n, g) \/ Lock(n, g)
             PROVE  (NoPollerLeaks /\ ClosedAreRunning /\ HookProgress)'
  BY <1>2 DEF GoroutineStep
<1>3. UNCHANGED <<hook, config, stop, closed, interval>>
  BY DEF CycleStep, Tick, Enter, Begin, Finish, Lock, goroutineFrame
<1>4. \A m \in Node : Running(m)' = Running(m)
  <2>1. at[n][g] # "none" /\ CycleEnds(n, g) => \A m \in Node : Running(m)' = Running(m)
    BY <1>1, RunningKept DEF CycleEnds
  <2>2. CASE Tick(n, g)
    BY <2>2, RunningKept DEF Tick
  <2>3. CASE Enter(n, g)
    BY <2>1, <2>3, RunningKept DEF Enter
  <2>4. CASE Begin(n, g)
    BY <2>1, <2>4, RunningKept DEF Begin
  <2>5. CASE Finish(n, g)
    BY <2>1, <2>5 DEF Finish
  <2>6. CASE Lock(n, g)
    BY <2>6, RunningKept DEF Lock
  <2> QED BY <2>2, <2>3, <2>4, <2>5, <2>6 DEF CycleStep
<1> QED BY <1>3, <1>4, PollersKept

LEMMA PollersQuiet ==
    ASSUME PollerInv, QuietStep
    PROVE  (NoPollerLeaks /\ ClosedAreRunning /\ HookProgress)'
<1>1. UNCHANGED <<at, stop, closed, interval>>
  BY DEF QuietStep, Save, OnActivate, OnConfigurationChange, SetKVStore, LockExpires,
         goroutineVars
<1>2. \A n \in Node : Running(n)' = Running(n)
  BY <1>1 DEF Running
<1>3. NoPollerLeaks' /\ ClosedAreRunning'
  BY <1>1, <1>2 DEF PollerInv, NoPollerLeaks, ClosedAreRunning, Open
<1>4. \A n \in Node :
        \/ hook'[n] = hook[n] /\ config'[n] = config[n]
        \/ hook'[n] \in {"setKVStore", "resetKVStore", "stopPoller", "restop"}
  BY DEF QuietStep, Save, OnActivate, OnConfigurationChange, SetKVStore, LockExpires, Step,
         PollerInv, TypeOK
<1>5. HookProgress'
  BY <1>1, <1>4 DEF PollerInv, HookProgress
<1> QED BY <1>3, <1>5

(* A closed channel leaves no open goroutine. *)
LEMMA PollersClosed ==
    ASSUME PollerInv, NEW n \in Node, CloseChannel(n), UNCHANGED <<at, config, interval>>,
           NEW s \in {"startPoller", "restart", "leaving"}, Step(n, s)
    PROVE  (NoPollerLeaks /\ ClosedAreRunning /\ HookProgress)'
<1>1. \A m \in Node : Running(m)' = Running(m)
  BY DEF Running
<1>2. 0 \notin PollerId
  BY DEF PollerId
<1>3. NoPollerLeaks'
  BY <1>1, <1>2 DEF PollerInv, TypeOK, NoPollerLeaks, Open, CloseChannel, ClosedWithOwn
<1>4. ClosedAreRunning'
  BY <1>1 DEF PollerInv, TypeOK, NoPollerLeaks, ClosedAreRunning, Open, CloseChannel, ClosedWithOwn
<1>5. HookProgress'
  BY DEF PollerInv, TypeOK, HookProgress, CloseChannel, Step
<1> QED BY <1>3, <1>4, <1>5

LEMMA PollersStarted ==
    ASSUME PollerInv, NEW n \in Node, StartPoller(n)
    PROVE  (NoPollerLeaks /\ ClosedAreRunning /\ HookProgress)'
<1> TypeOK
  BY DEF PollerInv
<1>1. stop[n] = 0 /\ 0 \notin PollerId
  BY DEF PollerInv, HookProgress, StartPoller, AfterStart, PollerId
<1>2. \A m \in Node : m # n => hook'[m] = hook[m]
  BY DEF StartPoller, AfterStart, Step, TypeOK
<1>3. hook'[n] \in {"ensureBot", "idle"}
  BY DEF StartPoller, AfterStart, Step, TypeOK
<1>4. CASE ~config[n].enabled
  <2>1. UNCHANGED <<at, stop, closed, interval, config>>
    BY <1>4 DEF StartPoller
  <2>2. \A m \in Node : Running(m)' = Running(m)
    BY <2>1 DEF Running
  <2>3. NoPollerLeaks' /\ ClosedAreRunning'
    BY <2>1, <2>2 DEF PollerInv, NoPollerLeaks, ClosedAreRunning, Open
  <2>4. HookProgress'
    BY <1>1, <1>2, <1>3, <1>4, <2>1 DEF PollerInv, HookProgress
  <2> QED BY <2>3, <2>4
<1>5. CASE config[n].enabled
  <2>1. PICK g \in PollerId :
           /\ g \notin Running(n)
           /\ closed' = ClosedWithOwn(n)
           /\ stop' = [stop EXCEPT ![n] = g]
           /\ Goes(n, g, "select")
           /\ interval' = [interval EXCEPT ![n][g] = PollInterval(config[n])]
    BY <1>5 DEF StartPoller
  <2>2. g \in Goroutine
    BY BoundsAssumption DEF PollerId, Goroutine
  <2>3. closed' = closed
    BY <1>1, <2>1 DEF ClosedWithOwn, TypeOK
  <2>4. PollerId \subseteq Goroutine
    BY BoundsAssumption DEF PollerId, Goroutine
  <2>5. \A m \in Node : Running(m)' = IF m = n THEN Running(n) \cup {g} ELSE Running(m)
    BY <2>1, <2>2, <2>4 DEF Running, Goes, TypeOK
  <2>6. NoPollerLeaks'
    <3> SUFFICES ASSUME NEW m \in Node PROVE (Open(m) = {stop[m]} \cap PollerId)'
      BY DEF NoPollerLeaks
    <3>1. CASE m # n
      BY <2>1, <2>3, <2>5, <3>1 DEF PollerInv, NoPollerLeaks, Open, TypeOK
    <3>2. CASE m = n
      <4>1. Open(n) = {}
        BY <1>1 DEF PollerInv, NoPollerLeaks
      <4>2. g \notin closed[n]
        BY <2>1 DEF PollerInv, ClosedAreRunning
      <4> QED BY <2>1, <2>3, <2>5, <3>2, <4>1, <4>2 DEF Open, TypeOK
    <3> QED BY <3>1, <3>2
  <2>7. ClosedAreRunning'
    BY <2>3, <2>5 DEF PollerInv, ClosedAreRunning
  <2>8. HookProgress'
    BY <1>2, <1>3, <1>5, <2>1 DEF PollerInv, HookProgress, StartPoller, TypeOK
  <2> QED BY <2>6, <2>7, <2>8
<1> QED BY <1>4, <1>5

LEMMA PollersEnd ==
    ASSUME PollerInv, NEW n \in Node, ProcessEnds(n)
    PROVE  (NoPollerLeaks /\ ClosedAreRunning /\ HookProgress)'
<1> TypeOK
  BY DEF PollerInv
<1>1. 0 \notin PollerId /\ PollerId \subseteq Goroutine
  BY BoundsAssumption DEF PollerId, Goroutine
<1>2. \A m \in Node : Running(m)' = IF m = n THEN {} ELSE Running(m)
  BY <1>1 DEF Running, ProcessEnds, TypeOK
<1>3. NoPollerLeaks'
  BY <1>1, <1>2 DEF PollerInv, NoPollerLeaks, Open, ProcessEnds, TypeOK
<1>4. ClosedAreRunning'
  BY <1>2 DEF PollerInv, ClosedAreRunning, ProcessEnds, TypeOK
<1>5. HookProgress'
  BY DEF PollerInv, HookProgress, ProcessEnds, Step, TypeOK
<1> QED BY <1>3, <1>4, <1>5

LEMMA PollersStopped ==
    ASSUME PollerInv, NEW n \in Node, NEW g \in PollerId, Stopped(n, g)
    PROVE  (NoPollerLeaks /\ ClosedAreRunning /\ HookProgress)'
<1> TypeOK
  BY DEF PollerInv
<1>1. PollerId \subseteq Goroutine
  BY BoundsAssumption DEF PollerId, Goroutine
<1>2. \A m \in Node : Running(m)' = IF m = n THEN Running(n) \ {g} ELSE Running(m)
  BY <1>1 DEF Running, Stopped, Goes, TypeOK
<1>3. closed' = [closed EXCEPT ![n] = @ \ {g}] /\ g \in closed[n]
  BY DEF Stopped
<1>4. NoPollerLeaks'
  BY <1>2, <1>3 DEF PollerInv, NoPollerLeaks, Open, Stopped, goroutineFrame, TypeOK
<1>5. ClosedAreRunning'
  BY <1>2, <1>3 DEF PollerInv, ClosedAreRunning, TypeOK
<1>6. stop[n] # g
  BY <1>3 DEF PollerInv, NoPollerLeaks, Open
<1>7. HookProgress'
  BY <1>6 DEF PollerInv, HookProgress, Stopped, goroutineFrame, TypeOK
<1> QED BY <1>4, <1>5, <1>7

LEMMA PollerStep ==
    ASSUME PollerInv, [Next]_vars
    PROVE  PollerInv'
<1>1. TypeOK'
  BY TypeStep DEF PollerInv
<1> SUFFICES (NoPollerLeaks /\ ClosedAreRunning /\ HookProgress)'
  BY <1>1 DEF PollerInv
<1>2. ASSUME NEW n \in Node, StopPoller(n) \/ OnDeactivate(n)
      PROVE  (NoPollerLeaks /\ ClosedAreRunning /\ HookProgress)'
  BY <1>2, PollersClosed DEF StopPoller, OnDeactivate
<1>3. ASSUME NEW n \in Node, EnsureBot(n) \/ Leave(n) \/ NodeStops(n)
      PROVE  (NoPollerLeaks /\ ClosedAreRunning /\ HookProgress)'
  <2>1. CASE ProcessEnds(n)
    BY <2>1, PollersEnd
  <2>2. CASE EnsureBot(n) /\ ~ProcessEnds(n)
    <3>1. UNCHANGED <<at, stop, closed, interval, config>> /\ Step(n, "idle")
      BY <2>2 DEF EnsureBot, goroutineVars
    <3>2. \A m \in Node : Running(m)' = Running(m)
      BY <3>1 DEF Running
    <3>3. NoPollerLeaks' /\ ClosedAreRunning'
      BY <3>1, <3>2 DEF PollerInv, NoPollerLeaks, ClosedAreRunning, Open
    <3>4. HookProgress'
      BY <2>2, <3>1 DEF PollerInv, HookProgress, EnsureBot, Step, TypeOK
    <3> QED BY <3>3, <3>4
  <2> QED BY <1>3, <2>1, <2>2 DEF Leave, NodeStops
<1>4. CASE UNCHANGED vars
  <2>1. \A m \in Node : Running(m)' = Running(m)
    BY <1>4 DEF vars, Running
  <2> QED BY <1>4, <2>1, PollersKept DEF vars
<1> QED BY <1>2, <1>3, <1>4, StepsGrouped, PollersGoroutine, PollersQuiet, PollersStarted,
           PollersStopped

LEMMA PollerInit == Init => PollerInv
<1> SUFFICES ASSUME Init PROVE NoPollerLeaks /\ ClosedAreRunning /\ HookProgress
  BY TypeInit DEF PollerInv
<1>1. 0 \notin PollerId /\ PollerId \subseteq Goroutine
  BY BoundsAssumption DEF PollerId, Goroutine
<1>2. \A n \in Node : Running(n) = {}
  BY <1>1 DEF Init, Running
<1> QED BY <1>1, <1>2 DEF Init, NoPollerLeaks, ClosedAreRunning, HookProgress, Open

(* Whatever the hooks, ticks and stops in between, a node's only goroutine   *)
(* nobody has told to stop is the one whose channel it still has, so that    *)
(* the next stopPoller reaches it (poll.go:36-38, 57-62).                    *)
THEOREM PollersDoNotLeak == Spec => []NoPollerLeaks
BY PollerInit, PollerStep, PTL DEF Spec, PollerInv

(* After every hook, polling is on exactly when the configuration says so,   *)
(* at its interval and never below the floor (configuration.go:42-53).       *)
THEOREM ConfigurationIsFollowed == Spec => []PollerFollowsConfig
<1>1. PollerInv => PollerFollowsConfig
  <2> SUFFICES ASSUME PollerInv, NEW n \in Node, hook[n] = "idle"
               PROVE  /\ config[n].enabled <=> Open(n) # {}
                      /\ \A g \in Open(n) :
                            /\ interval[n][g] = PollInterval(config[n])
                            /\ interval[n][g] >= minPollIntervalSeconds
    BY DEF PollerFollowsConfig
  <2>1. Open(n) = {stop[n]} \cap PollerId
    BY DEF PollerInv, NoPollerLeaks
  <2>2. /\ config[n].enabled <=> stop[n] \in PollerId
        /\ stop[n] \in PollerId => interval[n][stop[n]] = PollInterval(config[n])
    BY DEF PollerInv, HookProgress
  <2>3. PollInterval(config[n]) >= minPollIntervalSeconds
    BY IntervalType DEF PollerInv, TypeOK
  <2> QED BY <2>1, <2>2, <2>3
<1> QED BY <1>1, PollerInit, PollerStep, PTL DEF Spec
=============================================================================
