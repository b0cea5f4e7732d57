------------------------ MODULE AdHocMeetingsProofs ------------------------
(* Proofs about AdHocMeetings, for any meetings, conferences and artifacts,  *)
(* any lifetimes and any number of failures.                                 *)
EXTENDS AdHocMeetings, TLAPS

-----------------------------------------------------------------------------
(* Groups of actions *)

(* Steps that only concern Google, the index, the entries and StartMeeting.  *)
Surroundings ==
    \/ \E c \in Conf : StartConference(c) \/ EndConference(c)
    \/ \E a \in Artifact : GenerateFile(a)
    \/ \E m \in Meeting : CreateStartPost(m) \/ StartMeeting(m) \/ StartLost(m)

(* Steps of the pass before it polls artifacts, and those that end it.       *)
Walk ==
    \/ BeginPass \/ NextEntry \/ EndPass \/ NextRecord \/ PassLost
    \/ \E m \in Meeting : HealIndex(m) \/ SkipEntry(m) \/ ListRecords(m)
    \/ \E c \in Conf : SkipRecord(c)

LEMMA StepsGrouped ==
    ASSUME Next
    PROVE  \/ Surroundings \/ Walk \/ Tick \/ ListArtifacts
           \/ \E c \in Conf : SuppressBySubscription(c) \/ VisitRecord(c) \/ MarkRecord(c)
           \/ \E a \in Artifact : PostFails(a) \/ PostArtifact(a)
BY DEF Next, Pass, Surroundings, Walk

-----------------------------------------------------------------------------
(* Type correctness *)

LEMMA FaultType ==
    ASSUME Fault, faults \in 0..MaxFaults
    PROVE  faults' \in 0..MaxFaults
BY BoundsAssumption DEF Fault

LEMMA ExpiryType ==
    ASSUME now \in Time, NEW ttl \in Nat
    PROVE  Expiry(ttl) \in 0..MaxTime + 1
BY BoundsAssumption DEF Expiry, Time

LEMMA StateTypes ==
    ASSUME now \in Time
    PROVE  /\ NoState \in ConferencePostState
           /\ \A p \in {"start", "empty"} : NewState(p) \in ConferencePostState
           /\ \A state \in ConferencePostState :
                 /\ Stored(state) \in ConferencePostState
                 /\ [Stored(state) EXCEPT !.ended = TRUE] \in ConferencePostState
                 /\ \A a \in Artifact :
                       [Stored(state) EXCEPT !.posted = @ \cup {a}] \in ConferencePostState
<1>1. Expiry(StateTTL) \in 0..MaxTime + 1
  BY ExpiryType, BoundsAssumption
<1>2. NoState \in ConferencePostState
  BY BoundsAssumption DEF NoState, ConferencePostState
<1>3. \A p \in {"start", "empty"} : NewState(p) \in ConferencePostState
  BY <1>1 DEF NewState, ConferencePostState
<1>4. ASSUME NEW state \in ConferencePostState
      PROVE  /\ Stored(state) \in ConferencePostState
             /\ [Stored(state) EXCEPT !.ended = TRUE] \in ConferencePostState
             /\ \A a \in Artifact :
                   [Stored(state) EXCEPT !.posted = @ \cup {a}] \in ConferencePostState
  BY <1>1 DEF Stored, ConferencePostState
<1> QED BY <1>2, <1>3, <1>4

LEMMA TypeInit == Init => TypeOK
<1> SUFFICES ASSUME Init PROVE TypeOK
  OBVIOUS
<1>1. 0 \in Time /\ 0 \in 0..MaxTime + 1 /\ 0 \in 0..MaxFaults
  BY BoundsAssumption DEF Time
<1>2. NoEntry \in AdHocMeetingPost /\ NoState \in ConferencePostState
  BY <1>1 DEF NoEntry, AdHocMeetingPost, NoState, ConferencePostState
<1> QED BY <1>1, <1>2 DEF Init, TypeOK

LEMMA TypeSurroundings ==
    ASSUME TypeOK, Surroundings
    PROVE  TypeOK'
<1> USE DEF googleVars, postVars, passVars
<1>1. ASSUME NEW c \in Conf, StartConference(c) \/ EndConference(c)
      PROVE  TypeOK'
  BY <1>1 DEF StartConference, EndConference, TypeOK
<1>2. ASSUME NEW a \in Artifact, GenerateFile(a)
      PROVE  TypeOK'
  BY <1>2 DEF GenerateFile, TypeOK
<1>3. ASSUME NEW m \in Meeting, CreateStartPost(m)
      PROVE  TypeOK'
  <2>1. [NoEntry EXCEPT !.created = now] \in AdHocMeetingPost
    BY BoundsAssumption DEF NoEntry, AdHocMeetingPost, TypeOK
  <2> QED BY <1>3, <2>1 DEF CreateStartPost, TypeOK
<1>4. ASSUME NEW m \in Meeting, StartMeeting(m) \/ StartLost(m)
      PROVE  TypeOK'
  <2>1. faults' \in 0..MaxFaults
    BY <1>4, FaultType
       DEF StartMeeting, AddToAdHocIndex, StoreAdHocMeetingPost, StartLost, TypeOK
  <2>2. Expiry(EntryTTL) \in 0..MaxTime + 1
    BY ExpiryType, BoundsAssumption DEF TypeOK
  <2>3. entry' \in [Meeting -> AdHocMeetingPost]
    BY <1>4, <2>2
       DEF StartMeeting, AddToAdHocIndex, StoreAdHocMeetingPost, StartLost, TypeOK,
           AdHocMeetingPost
  <2> QED BY <1>4, <2>1, <2>3
          DEF StartMeeting, AddToAdHocIndex, StoreAdHocMeetingPost, StartLost, TypeOK
<1> QED BY <1>1, <1>2, <1>3, <1>4 DEF Surroundings

LEMMA TypeWalk ==
    ASSUME TypeOK, Walk
    PROVE  TypeOK'
<1> USE DEF googleVars, postVars, passVars
<1>1. [c \in Conf |-> 0] \in [Conf -> Time] /\ NoState \in ConferencePostState
  BY StateTypes, BoundsAssumption DEF Time, TypeOK
<1>2. CASE BeginPass \/ NextEntry \/ EndPass
  BY <1>1, <1>2 DEF BeginPass, NextEntry, EndPass, TypeOK
<1>3. CASE NextRecord \/ PassLost
  <2>1. faults' \in 0..MaxFaults
    BY <1>3, FaultType DEF NextRecord, PassLost, TypeOK
  <2> QED BY <1>1, <1>3, <2>1 DEF NextRecord, PassLost, TypeOK
<1>4. ASSUME NEW m \in Meeting, HealIndex(m) \/ SkipEntry(m)
      PROVE  TypeOK'
  <2>1. faults' \in 0..MaxFaults
    BY <1>4, FaultType DEF HealIndex, SkipEntry, TypeOK
  <2> QED BY <1>4, <2>1 DEF HealIndex, SkipEntry, TypeOK
<1>5. ASSUME NEW m \in Meeting, ListRecords(m)
      PROVE  TypeOK'
  BY <1>5 DEF ListRecords, RecordsSince, TypeOK
<1>6. ASSUME NEW c \in Conf, SkipRecord(c)
      PROVE  TypeOK'
  <2>1. faults' \in 0..MaxFaults
    BY <1>6, FaultType DEF SkipRecord, TypeOK
  <2> QED BY <1>6, <2>1 DEF SkipRecord, TypeOK
<1> QED BY <1>2, <1>3, <1>4, <1>5, <1>6 DEF Walk

LEMMA TypeTick ==
    ASSUME TypeOK, Tick
    PROVE  TypeOK'
<1>1. now' \in Time
  BY BoundsAssumption DEF Tick, TypeOK, Time
<1>2. NoEntry \in AdHocMeetingPost /\ NoState \in ConferencePostState
  BY BoundsAssumption DEF NoEntry, AdHocMeetingPost, NoState, ConferencePostState, Time
<1>3. /\ entry' \in [Meeting -> AdHocMeetingPost]
      /\ kv' \in [Conf -> ConferencePostState]
      /\ missed' \in [Artifact -> Nat]
  BY <1>2 DEF Tick, TypeOK
<1> QED BY <1>1, <1>3 DEF Tick, TypeOK, googleVars, postVars, passVars

LEMMA PinnedType ==
    ASSUME TypeOK, NEW c \in Conf
    PROVE  Pinned(c) \in ConferencePostState
BY StateTypes DEF Pinned, TypeOK

LEMMA TypeRecord ==
    ASSUME TypeOK, NEW c \in Conf,
           SuppressBySubscription(c) \/ VisitRecord(c) \/ MarkRecord(c)
    PROVE  TypeOK'
<1> USE DEF googleVars, postVars, passVars
<1> DEFINE marked == [Stored(Pinned(c)) EXCEPT !.ended = TRUE]
<1>1. /\ Pinned(c) \in ConferencePostState /\ marked \in ConferencePostState
      /\ NewState("empty") \in ConferencePostState
  BY PinnedType, StateTypes DEF TypeOK
<1> HIDE DEF marked
<1>2. CASE SuppressBySubscription(c)
  BY <1>1, <1>2 DEF SuppressBySubscription, TypeOK
<1>3. CASE VisitRecord(c)
  <2>1. faults' \in 0..MaxFaults
    BY <1>3, FaultType DEF VisitRecord, TypeOK
  <2> QED BY <1>1, <1>3, <2>1 DEF VisitRecord, PollArtifacts, TypeOK
<1>4. CASE MarkRecord(c)
  <2>1. faults' \in 0..MaxFaults
    BY <1>4, FaultType DEF MarkRecord, TypeOK
  <2>2. \E state \in ConferencePostState :
           kv' = [kv EXCEPT ![c] = state] /\ PollArtifacts(c, state)
    BY <1>1, <1>4 DEF MarkRecord, marked
  <2>3. endedPosts' \subseteq Meeting
    BY <1>4, MapsAssumption DEF MarkRecord, TypeOK
  <2> QED BY <1>4, <2>1, <2>2, <2>3 DEF MarkRecord, PollArtifacts, TypeOK
<1> QED BY <1>2, <1>3, <1>4

LEMMA TypeArtifacts ==
    ASSUME TypeOK,
           ListArtifacts \/ \E a \in Artifact : PostFails(a) \/ PostArtifact(a)
    PROVE  TypeOK'
<1> USE DEF googleVars, postVars
<1>1. CASE ListArtifacts
  <2>1. faults' \in 0..MaxFaults
    BY <1>1, FaultType DEF ListArtifacts, TypeOK
  <2>2. kind' \in 0..3 /\ files' \subseteq Artifact
    BY <1>1 DEF ListArtifacts, TypeOK
  <2> QED BY <1>1, <2>1, <2>2 DEF ListArtifacts, TypeOK
<1>2. ASSUME NEW a \in Artifact, PostFails(a)
      PROVE  TypeOK'
  <2>1. faults' \in 0..MaxFaults
    BY <1>2, FaultType DEF PostFails, TypeOK
  <2> QED BY <1>2, <2>1 DEF PostFails, TypeOK
<1>3. ASSUME NEW a \in Artifact, PostArtifact(a)
      PROVE  TypeOK'
  <2>1. faults' \in 0..MaxFaults
    BY <1>3, FaultType DEF PostArtifact, TypeOK
  <2>2. mem' \in ConferencePostState
    BY <1>3, StateTypes DEF PostArtifact, TypeOK
  <2>3. kv' \in [Conf -> ConferencePostState]
    BY <1>3, <2>2 DEF PostArtifact, TypeOK
  <2>4. links' \subseteq Artifact
    BY <1>3 DEF PostArtifact, AppendLink, TypeOK
  <2>5. copies' \in [Artifact -> Nat] /\ missed' \in [Artifact -> Nat]
    BY <1>3 DEF PostArtifact, TypeOK
  <2> QED BY <1>3, <2>1, <2>2, <2>3, <2>4, <2>5 DEF PostArtifact, TypeOK
<1> QED BY <1>1, <1>2, <1>3

LEMMA TypeStep ==
    ASSUME TypeOK, [Next]_vars
    PROVE  TypeOK'
<1>1. CASE UNCHANGED vars
  BY <1>1 DEF vars, TypeOK
<1> QED BY <1>1, StepsGrouped, TypeSurroundings, TypeWalk, TypeTick, TypeRecord, TypeArtifacts

(* The variables keep their types. *)
THEOREM TypeCorrect == Spec => []TypeOK
BY TypeInit, TypeStep, PTL DEF Spec

-----------------------------------------------------------------------------
(* The inductive invariant *)

(* A state that points to no post yet was never stored. *)
BlankUntilPinned == \A c \in Conf : kv[c].post = "unknown" => kv[c] = NoState

(* While artifacts are polled, the state in memory is ahead of the stored    *)
(* one, says the truth, and knows none of the files to be visited.           *)
MemoryAhead ==
    pc = "artifacts" =>
        /\ conf \in Conf /\ mem.post # "unknown"
        /\ kv[conf].posted \subseteq mem.posted
        /\ mem.ended => MeetingOf[conf] \in endedPosts
        /\ \A a \in Artifact : ConfOf[a] = conf /\ a \in mem.posted => copies[a] > 0
        /\ \A a \in files : ConfOf[a] = conf /\ a \notin mem.posted

DeliveryInv == TypeOK /\ StateIsTrue /\ BlankUntilPinned /\ MemoryAhead

TruthAndMemory == StateIsTrue /\ BlankUntilPinned /\ MemoryAhead

-----------------------------------------------------------------------------
(* Each step keeps it, and is a step or a stutter of the abstract delivery *)

LEMMA Stutters ==
    ASSUME UNCHANGED <<kv, copies, missed>>
    PROVE  UNCHANGED Delivery!vars
BY DEF Delivery!vars, Recorded

(* What touches neither states nor posts. *)
LEMMA QuietSteps ==
    ASSUME DeliveryInv,
           Surroundings \/ Walk \/ ListArtifacts \/ \E a \in Artifact : PostFails(a)
    PROVE  TruthAndMemory' /\ UNCHANGED Delivery!vars
<1> USE DEF googleVars, postVars, passVars
<1>1. UNCHANGED <<kv, endedPosts, links, copies, missed>>
  BY DEF Surroundings, StartConference, EndConference, GenerateFile, CreateStartPost,
         StartMeeting, AddToAdHocIndex, StoreAdHocMeetingPost, StartLost,
         Walk, BeginPass, NextEntry, EndPass, NextRecord, PassLost, HealIndex, SkipEntry,
         ListRecords, SkipRecord, ListArtifacts, PostFails
<1>2. StateIsTrue' /\ BlankUntilPinned'
  BY <1>1 DEF DeliveryInv, StateIsTrue, BlankUntilPinned, Recorded
<1>3. CASE Surroundings
  <2>1. UNCHANGED <<pc, conf, mem, files>>
    BY <1>3 DEF Surroundings, StartConference, EndConference, GenerateFile, CreateStartPost,
                StartMeeting, AddToAdHocIndex, StoreAdHocMeetingPost, StartLost
  <2> QED BY <1>1, <1>2, <2>1, Stutters DEF DeliveryInv, MemoryAhead, TruthAndMemory
<1>4. CASE Walk
  <2>1. pc' # "artifacts"
    BY <1>4 DEF Walk, BeginPass, NextEntry, EndPass, NextRecord, PassLost, HealIndex,
                SkipEntry, ListRecords, SkipRecord
  <2> QED BY <1>1, <1>2, <2>1, Stutters DEF MemoryAhead, TruthAndMemory
<1>5. CASE ListArtifacts
  <2>1. /\ UNCHANGED <<pc, conf, mem>>
        /\ \A a \in files' : ConfOf[a] = conf /\ a \notin mem.posted
    BY <1>5 DEF ListArtifacts
  <2> QED BY <1>1, <1>2, <2>1, Stutters DEF DeliveryInv, MemoryAhead, TruthAndMemory
<1>6. ASSUME NEW a \in Artifact, PostFails(a)
      PROVE  TruthAndMemory' /\ UNCHANGED Delivery!vars
  <2>1. UNCHANGED <<pc, conf, mem>> /\ files' \subseteq files
    BY <1>6 DEF PostFails
  <2> QED BY <1>1, <1>2, <2>1, Stutters DEF DeliveryInv, MemoryAhead, TruthAndMemory
<1> QED BY <1>3, <1>4, <1>5, <1>6

(* States that expire are records lost. *)
LEMMA Forgets ==
    ASSUME NEW S \in SUBSET Artifact, S \subseteq Recorded, Recorded' = Recorded \ S,
           missed' = [a \in Artifact |-> IF a \in S THEN missed[a] + 1 ELSE missed[a]],
           missed \in [Artifact -> Nat], UNCHANGED copies
    PROVE  [Delivery!Next]_(Delivery!vars)
<1>1. CASE S = {}
  <2>1. missed' = missed /\ Recorded' = Recorded
    BY <1>1
  <2> QED BY <2>1 DEF Delivery!vars
<1>2. CASE S # {}
  <2>1. Delivery!Forget(S)
    BY <1>2 DEF Delivery!Forget
  <2> QED BY <2>1 DEF Delivery!Next
<1> QED BY <1>1, <1>2

LEMMA TickStep ==
    ASSUME DeliveryInv, Tick
    PROVE  TruthAndMemory' /\ [Delivery!Next]_(Delivery!vars)
<1> DEFINE Gone(c) == kv[c].exp <= now + 1
           lost == {a \in Recorded : Gone(ConfOf[a])}
<1>1. \A a \in Artifact : ConfOf[a] \in Conf
  BY MapsAssumption
<1>2. kv' = [c \in Conf |-> IF Gone(c) THEN NoState ELSE kv[c]]
  BY DEF Tick
<1>3. UNCHANGED <<copies, links, endedPosts, pc, conf, mem, files>>
  BY DEF Tick, postVars, passVars
<1>4. missed' = [a \in Artifact |-> IF a \in lost THEN missed[a] + 1 ELSE missed[a]]
  BY DEF Tick
<1> HIDE DEF Gone
<1>5. Recorded' = Recorded \ lost
  BY <1>1, <1>2 DEF Recorded, NoState
<1>6. StateIsTrue'
  BY <1>2, <1>3, <1>5 DEF DeliveryInv, StateIsTrue, NoState
<1>7. BlankUntilPinned'
  BY <1>2 DEF DeliveryInv, BlankUntilPinned
<1>8. MemoryAhead'
  BY <1>2, <1>3 DEF DeliveryInv, MemoryAhead, NoState
<1>9. lost \in SUBSET Artifact /\ lost \subseteq Recorded /\ missed \in [Artifact -> Nat]
  BY DEF Recorded, DeliveryInv, TypeOK
<1> HIDE DEF lost
<1> QED BY <1>3, <1>4, <1>5, <1>6, <1>7, <1>8, <1>9, Forgets DEF TruthAndMemory

(* A record is pinned, marked or silenced: what is recorded as posted stays. *)
LEMMA PostedKept ==
    ASSUME DeliveryInv, NEW c \in Conf, NEW state, kv' = [kv EXCEPT ![c] = state],
           state.posted = kv[c].posted
    PROVE  Recorded' = Recorded
BY MapsAssumption DEF DeliveryInv, TypeOK, Recorded

LEMMA PinnedPosted ==
    ASSUME DeliveryInv, NEW c \in Conf
    PROVE  /\ Pinned(c).posted = kv[c].posted /\ Pinned(c).ended = kv[c].ended
           /\ Pinned(c).post # "unknown"
<1>1. CASE kv[c].post = "unknown"
  <2>1. kv[c] = NoState
    BY <1>1 DEF DeliveryInv, BlankUntilPinned
  <2>2. Pinned(c) = NewState("start")
    BY <1>1 DEF Pinned
  <2>3. /\ NewState("start").posted = NoState.posted
        /\ NewState("start").ended = NoState.ended
        /\ NewState("start").post # "unknown"
    BY DEF NewState, NoState
  <2> QED BY <2>1, <2>2, <2>3
<1>2. CASE kv[c].post # "unknown"
  BY <1>2 DEF Pinned
<1> QED BY <1>1, <1>2

LEMMA StoredRecord ==
    ASSUME DeliveryInv, NEW c \in Conf, NEW state, kv' = [kv EXCEPT ![c] = state],
           state.posted = kv[c].posted, state.post # "unknown",
           state.ended => MeetingOf[c] \in endedPosts',
           endedPosts \subseteq endedPosts', UNCHANGED <<links, copies, missed>>
    PROVE  StateIsTrue' /\ BlankUntilPinned' /\ UNCHANGED Delivery!vars
<1>1. Recorded' = Recorded
  BY PostedKept
<1>2. kv'[c] = state /\ \A d \in Conf : d # c => kv'[d] = kv[d]
  BY DEF DeliveryInv, TypeOK
<1>3. StateIsTrue'
  BY <1>1, <1>2 DEF DeliveryInv, StateIsTrue
<1>4. BlankUntilPinned'
  BY <1>2 DEF DeliveryInv, BlankUntilPinned
<1>5. UNCHANGED Delivery!vars
  BY <1>1 DEF Delivery!vars
<1> QED BY <1>3, <1>4, <1>5

LEMMA MemoryOfRecord ==
    ASSUME DeliveryInv, NEW c \in Conf, NEW state, NEW kept,
           kv' = [kv EXCEPT ![c] = kept], PollArtifacts(c, state),
           kept.posted = kv[c].posted, state.posted = kv[c].posted, state.post # "unknown",
           state.ended => MeetingOf[c] \in endedPosts', UNCHANGED copies
    PROVE  MemoryAhead'
<1>1. \A a \in Artifact : ConfOf[a] = c /\ a \in kv[c].posted => copies[a] > 0
  BY DEF DeliveryInv, StateIsTrue, Recorded
<1>2. kv'[c] = kept
  BY DEF DeliveryInv, TypeOK
<1> QED BY <1>1, <1>2 DEF MemoryAhead, PollArtifacts

LEMMA RecordStep ==
    ASSUME DeliveryInv, NEW c \in Conf,
           SuppressBySubscription(c) \/ VisitRecord(c) \/ MarkRecord(c)
    PROVE  TruthAndMemory' /\ UNCHANGED Delivery!vars
<1>1. /\ Pinned(c).posted = kv[c].posted /\ Pinned(c).ended = kv[c].ended
      /\ Pinned(c).post # "unknown"
  BY PinnedPosted
<1>2. kv[c].ended => MeetingOf[c] \in endedPosts
  BY DEF DeliveryInv, StateIsTrue
<1>3. CASE SuppressBySubscription(c)
  <2> DEFINE state == NewState("empty")
  <2>1. state.posted = kv[c].posted /\ state.post # "unknown" /\ ~state.ended
    BY <1>3 DEF SuppressBySubscription, DeliveryInv, BlankUntilPinned, NewState, NoState
  <2>2. /\ kv' = [kv EXCEPT ![c] = state] /\ UNCHANGED <<endedPosts, links, copies, missed>>
        /\ pc' # "artifacts"
    BY <1>3 DEF SuppressBySubscription, postVars
  <2> HIDE DEF state
  <2> QED BY <2>1, <2>2, StoredRecord DEF TruthAndMemory, MemoryAhead
<1>4. CASE VisitRecord(c)
  <2>1. /\ kv' = [kv EXCEPT ![c] = Pinned(c)] /\ PollArtifacts(c, Pinned(c))
        /\ UNCHANGED <<endedPosts, links, copies, missed>>
    BY <1>4 DEF VisitRecord, postVars
  <2>2. StateIsTrue' /\ BlankUntilPinned' /\ UNCHANGED Delivery!vars
    BY <1>1, <1>2, <2>1, StoredRecord
  <2>3. MemoryAhead'
    BY <1>1, <1>2, <2>1, MemoryOfRecord
  <2> QED BY <2>2, <2>3 DEF TruthAndMemory
<1>5. CASE MarkRecord(c)
  <2> DEFINE marked == [Stored(Pinned(c)) EXCEPT !.ended = TRUE]
  <2>1. marked.posted = kv[c].posted /\ marked.post # "unknown"
    BY <1>1, PinnedType DEF Stored, ConferencePostState, DeliveryInv
  <2>2. /\ endedPosts' = endedPosts \cup {MeetingOf[c]}
        /\ UNCHANGED <<links, copies, missed>>
        /\ \/ kv' = [kv EXCEPT ![c] = marked] /\ PollArtifacts(c, marked)
           \/ kv' = [kv EXCEPT ![c] = Pinned(c)] /\ PollArtifacts(c, Pinned(c))
    BY <1>5 DEF MarkRecord
  <2> HIDE DEF marked
  <2>3. StateIsTrue' /\ BlankUntilPinned' /\ UNCHANGED Delivery!vars
    BY <1>1, <2>1, <2>2, StoredRecord
  <2>4. MemoryAhead'
    BY <1>1, <2>1, <2>2, MemoryOfRecord
  <2> QED BY <2>3, <2>4 DEF TruthAndMemory
<1> QED BY <1>3, <1>4, <1>5

(* An artifact is posted while it is not recorded; its record catches up     *)
(* with what this call has posted before, or is missed.                      *)
LEMMA PostStep ==
    ASSUME DeliveryInv, NEW a \in Artifact, PostArtifact(a)
    PROVE  TruthAndMemory' /\ Delivery!Next
<1>1. /\ conf \in Conf /\ mem.post # "unknown" /\ mem \in ConferencePostState
      /\ kv[conf].posted \subseteq mem.posted
      /\ mem.ended => MeetingOf[conf] \in endedPosts
      /\ \A b \in Artifact : ConfOf[b] = conf /\ b \in mem.posted => copies[b] > 0
      /\ \A b \in files : ConfOf[b] = conf /\ b \notin mem.posted
      /\ a \in files
  BY DEF PostArtifact, DeliveryInv, MemoryAhead, TypeOK
<1>2. /\ mem'.post = mem.post /\ mem'.ended = mem.ended
      /\ mem'.posted = mem.posted \cup {a}
  BY <1>1 DEF PostArtifact, Stored, ConferencePostState
<1>3. /\ UNCHANGED <<endedPosts, pc, conf>> /\ files' = files \ {a}
      /\ copies' = [copies EXCEPT ![a] = @ + 1]
      /\ links' = links \/ links' = links \cup {a}
  BY DEF PostArtifact, AppendLink
<1>4. /\ copies \in [Artifact -> Nat] /\ missed \in [Artifact -> Nat]
      /\ kv \in [Conf -> ConferencePostState]
  BY DEF DeliveryInv, TypeOK
<1>5. copies'[a] > 0 /\ \A b \in Artifact : copies[b] > 0 => copies'[b] > 0
  BY <1>3, <1>4
<1>6. a \notin Recorded /\ ConfOf[a] = conf
  BY <1>1 DEF Recorded
<1>7. CASE UNCHANGED missed /\ kv' = [kv EXCEPT ![conf] = mem']
  <2>1. kv'[conf] = mem' /\ \A c \in Conf : c # conf => kv'[c] = kv[c]
    BY <1>1, <1>4, <1>7
  <2>2. \A b \in Artifact :
          b \in Recorded' <=> b \in Recorded \/ (ConfOf[b] = conf /\ b \in mem'.posted)
    BY <1>1, <1>2, <2>1, MapsAssumption DEF Recorded
  <2>3. Recorded \subseteq Recorded' /\ a \in Recorded'
    BY <1>2, <1>6, <2>2 DEF Recorded
  <2>4. \A b \in Recorded' : copies'[b] > 0
    <3> SUFFICES ASSUME NEW b \in Artifact, b \in Recorded'
                 PROVE  copies'[b] > 0
      BY DEF Recorded
    <3> QED BY <1>1, <1>2, <1>5, <2>2 DEF DeliveryInv, StateIsTrue
  <2>5. StateIsTrue'
    <3>1. \A c \in Conf : kv'[c].ended => MeetingOf[c] \in endedPosts'
      BY <1>1, <1>2, <1>3, <2>1 DEF DeliveryInv, StateIsTrue
    <3>2. \A b \in Artifact : b \in links' => copies'[b] > 0
      BY <1>3, <1>5 DEF DeliveryInv, StateIsTrue
    <3> QED BY <2>4, <3>1, <3>2 DEF StateIsTrue
  <2>6. BlankUntilPinned'
    BY <1>1, <1>2, <2>1 DEF DeliveryInv, BlankUntilPinned
  <2>7. MemoryAhead'
    BY <1>1, <1>2, <1>3, <1>5, <2>1 DEF MemoryAhead
  <2>8. Delivery!Deliver(a)
    BY <1>3, <1>6, <1>7, <2>3, <2>4 DEF Delivery!Deliver
  <2> QED BY <2>5, <2>6, <2>7, <2>8 DEF TruthAndMemory, Delivery!Next
<1>8. CASE UNCHANGED kv /\ missed' = [missed EXCEPT ![a] = @ + 1]
  <2>1. Recorded' = Recorded
    BY <1>8 DEF Recorded
  <2>2. StateIsTrue'
    <3>1. \A c \in Conf : kv'[c].ended => MeetingOf[c] \in endedPosts'
      BY <1>3, <1>8 DEF DeliveryInv, StateIsTrue
    <3>2. \A b \in Artifact : b \in Recorded' \cup links' => copies'[b] > 0
      BY <1>3, <1>5, <2>1 DEF DeliveryInv, StateIsTrue
    <3> QED BY <3>1, <3>2 DEF StateIsTrue
  <2>3. BlankUntilPinned'
    BY <1>8 DEF DeliveryInv, BlankUntilPinned
  <2>4. MemoryAhead'
    BY <1>1, <1>2, <1>3, <1>5, <1>8 DEF MemoryAhead
  <2>5. Delivery!Deliver(a)
    BY <1>3, <1>6, <1>8, <2>1 DEF Delivery!Deliver
  <2> QED BY <2>2, <2>3, <2>4, <2>5 DEF TruthAndMemory, Delivery!Next
<1> QED BY <1>7, <1>8 DEF PostArtifact

LEMMA DeliveryInit == Init => DeliveryInv /\ Delivery!Init
<1> SUFFICES ASSUME Init PROVE DeliveryInv /\ Delivery!Init
  OBVIOUS
<1>1. Recorded = {}
  BY MapsAssumption DEF Init, Recorded, NoState
<1>2. StateIsTrue /\ BlankUntilPinned /\ MemoryAhead
  BY <1>1 DEF Init, StateIsTrue, BlankUntilPinned, MemoryAhead, NoState
<1> QED BY <1>1, <1>2, TypeInit DEF DeliveryInv, Init, Delivery!Init

LEMMA DeliveryStep ==
    ASSUME DeliveryInv, [Next]_vars
    PROVE  DeliveryInv' /\ [Delivery!Next]_(Delivery!vars)
<1>1. TypeOK'
  BY TypeStep DEF DeliveryInv
<1>2. CASE UNCHANGED vars
  <2>1. TruthAndMemory'
    BY <1>2 DEF vars, DeliveryInv, TruthAndMemory, StateIsTrue, BlankUntilPinned, MemoryAhead,
                Recorded
  <2>2. UNCHANGED Delivery!vars
    BY <1>2, Stutters DEF vars
  <2> QED BY <1>1, <2>1, <2>2 DEF DeliveryInv, TruthAndMemory
<1>3. CASE Next
  <2>1. TruthAndMemory' /\ [Delivery!Next]_(Delivery!vars)
    BY <1>3, StepsGrouped, QuietSteps, TickStep, RecordStep, PostStep
  <2> QED BY <1>1, <2>1 DEF DeliveryInv, TruthAndMemory
<1> QED BY <1>2, <1>3

(* What the stored state says of the channel is so, after any failures: an   *)
(* id recorded as posted, or linked in the start post, has a post, and a     *)
(* meeting flagged as ended has its post rewritten.                          *)
THEOREM StatesSayTheTruth == Spec => []StateIsTrue
BY DeliveryInit, DeliveryStep, PTL DEF Spec, DeliveryInv

(* The pass over records and artifacts, whose posts and KV writes fail one   *)
(* by one, implements delivery at least once, repeated only after a record   *)
(* was missed or had expired.                                                *)
THEOREM ArtifactsAreDelivered == Spec => ImplementsDelivery
BY DeliveryInit, DeliveryStep, PTL DEF Spec, ImplementsDelivery, Delivery!Spec

(* The abstract specification counts: an item is delivered once more than    *)
(* its record was missed, at most.                                           *)
CountInv ==
    /\ copies \in [Artifact -> Nat] /\ missed \in [Artifact -> Nat]
    /\ Recorded \subseteq Artifact /\ Delivery!OncePerMiss

LEMMA CountStep ==
    ASSUME CountInv, Recorded' \subseteq Artifact, [Delivery!Next]_(Delivery!vars)
    PROVE  CountInv'
<1>1. CASE UNCHANGED Delivery!vars
  BY <1>1 DEF Delivery!vars, CountInv, Delivery!OncePerMiss
<1>2. ASSUME NEW a \in Artifact, Delivery!Deliver(a)
      PROVE  CountInv'
  <2>1. a \notin Recorded /\ copies' = [copies EXCEPT ![a] = @ + 1]
    BY <1>2 DEF Delivery!Deliver
  <2>2. copies[a] <= missed[a] /\ copies' \in [Artifact -> Nat]
    BY <2>1 DEF CountInv, Delivery!OncePerMiss
  <2>3. CASE /\ a \in Recorded' /\ missed' = missed /\ Recorded \subseteq Recorded'
             /\ \A b \in Recorded' : copies'[b] > 0
    BY <2>1, <2>2, <2>3 DEF CountInv, Delivery!OncePerMiss
  <2>4. CASE Recorded' = Recorded /\ missed' = [missed EXCEPT ![a] = @ + 1]
    BY <2>1, <2>2, <2>4 DEF CountInv, Delivery!OncePerMiss
  <2> QED BY <1>2, <2>3, <2>4 DEF Delivery!Deliver
<1>3. ASSUME NEW S \in SUBSET Artifact, Delivery!Forget(S)
      PROVE  CountInv'
  BY <1>3 DEF Delivery!Forget, CountInv, Delivery!OncePerMiss
<1> QED BY <1>1, <1>2, <1>3 DEF Delivery!Next

(* Nobody sees an artifact more often than once, and once more for each time *)
(* its record was missed or had expired; nothing counts as posted that was   *)
(* not.                                                                      *)
THEOREM ArtifactsOncePerMiss == Spec => []Delivery!OncePerMiss
<1>1. Init => CountInv
  BY DeliveryInit DEF Delivery!Init, CountInv, Delivery!OncePerMiss
<1>2. DeliveryInv /\ CountInv /\ [Next]_vars => CountInv'
  BY DeliveryStep, CountStep DEF Recorded
<1>3. CountInv => Delivery!OncePerMiss
  BY DEF CountInv
<1> QED BY <1>1, <1>2, <1>3, DeliveryInit, DeliveryStep, PTL DEF Spec
=============================================================================
