------------------------ MODULE ConferencePollProofs ------------------------
(* Proofs about ConferencePoll, for every set of conferences and events, all  *)
(* durations and any number of failures of any kind.                         *)
EXTENDS ConferencePoll, FiniteSetTheorems, TLAPS

-----------------------------------------------------------------------------
(* Helpers *)

(* There are finitely many kinds of failure, so a step's failures can be     *)
(* counted against the bound.                                               *)
LEMMA AllKindsFinite == IsFiniteSet(AllFaultKinds)
<1>1. IsFiniteSet({"google", "calendar", "post", "kvread"})
  <2>1. IsFiniteSet({"google"})
    BY FS_Singleton
  <2>2. IsFiniteSet({"google"} \cup {"calendar"})
    BY <2>1, FS_AddElement
  <2>3. IsFiniteSet(({"google"} \cup {"calendar"}) \cup {"post"})
    BY <2>2, FS_AddElement
  <2>4. IsFiniteSet((({"google"} \cup {"calendar"}) \cup {"post"}) \cup {"kvread"})
    BY <2>3, FS_AddElement
  <2>5. {"google", "calendar", "post", "kvread"}
          = (({"google"} \cup {"calendar"}) \cup {"post"}) \cup {"kvread"}
    OBVIOUS
  <2> QED BY <2>4, <2>5
<1>2. IsFiniteSet({"kvstate", "kvsub", "crash"})
  <2>1. IsFiniteSet({"kvstate"})
    BY FS_Singleton
  <2>2. IsFiniteSet({"kvstate"} \cup {"kvsub"})
    BY <2>1, FS_AddElement
  <2>3. IsFiniteSet(({"kvstate"} \cup {"kvsub"}) \cup {"crash"})
    BY <2>2, FS_AddElement
  <2>4. {"kvstate", "kvsub", "crash"} = ({"kvstate"} \cup {"kvsub"}) \cup {"crash"}
    OBVIOUS
  <2> QED BY <2>3, <2>4
<1>3. AllFaultKinds = {"google", "calendar", "post", "kvread"} \cup {"kvstate", "kvsub", "crash"}
  BY DEF AllFaultKinds
<1> QED BY <1>1, <1>2, <1>3, FS_Union

LEMMA FaultKindsFinite ==
    ASSUME NEW kinds \in SUBSET AllFaultKinds
    PROVE  Cardinality(kinds) \in Nat
BY AllKindsFinite, FS_Subset, FS_CardinalityType

LEMMA FailType ==
    ASSUME NEW kinds, Fail(kinds), faults \in 0..MaxFaults
    PROVE  faults' \in 0..MaxFaults
<1>1. Cardinality(kinds) \in Nat
  BY FaultKindsFinite, FaultsAssumption DEF Fail
<1> QED BY <1>1, BoundsAssumption DEF Fail

LEMMA ExpiryType ==
    ASSUME now \in 1..MaxTime
    PROVE  Expiry \in Nat
BY DurationsAssumption, BoundsAssumption DEF Expiry

(* The states the cycle stores are well formed. *)
LEMMA StoredStateTypes ==
    ASSUME now \in 1..MaxTime, NEW p \in PostId
    PROVE  /\ PostedState(p) \in ConferencePostState
           /\ SuppressedState \in ConferencePostState
BY ExpiryType DEF PostedState, SuppressedState, ConferencePostState, PostId

LEMMA GetType ==
    ASSUME TypeOK, NEW c \in Conf
    PROVE  Get(c) \in ConferencePostState
BY DEF TypeOK, Get, NoState, ConferencePostState, PostId

LEMMA NewTypes ==
    /\ NoState \in ConferencePostState
    /\ NewSubscription \in Subscription
    /\ NoTimes \in [Conf -> Time]
    /\ \A c \in Conf : \A p \in PostId : NewBinding(c, p) \in EventPostBinding
    /\ NoBinding \in EventPostBinding
BY BoundsAssumption
   DEF NoState, ConferencePostState, PostId, NewSubscription, Subscription, NoBinding,
       EventPostBinding, Time, NoTimes, NewBinding

-----------------------------------------------------------------------------
(* Type correctness *)

LEMMA TypeInit == Init => TypeOK
<1> SUFFICES ASSUME Init PROVE TypeOK
  OBVIOUS
<1>1. posts \in Seq(Post)
  BY DEF Init
<1>2. kv \in [Conf -> ConferencePostState]
  BY NewTypes DEF Init
<1>3. 0 \in Time /\ 1 \in 1..MaxTime /\ 0 \in 0..MaxFaults
  BY BoundsAssumption DEF Time
<1> QED BY <1>1, <1>2, <1>3, NewTypes DEF Init, TypeOK

LEMMA TypeEnvironment ==
    ASSUME TypeOK, Environment
    PROVE  TypeOK'
<1>1. CASE Tick
  BY <1>1, BoundsAssumption DEF Tick, TypeOK
<1>2. ASSUME NEW c \in Conf, StartConference(c)
      PROVE  TypeOK'
  BY <1>2, BoundsAssumption DEF StartConference, TypeOK, Time
<1>3. ASSUME NEW c \in Conf, EndConference(c)
      PROVE  TypeOK'
  BY <1>3, BoundsAssumption DEF EndConference, TypeOK, Time
<1> QED BY <1>1, <1>2, <1>3 DEF Environment

(* Updates of a subscription's fields keep it a subscription. *)
LEMMA SubscriptionUpdates ==
    ASSUME NEW s \in Subscription, NEW c \in Conf
    PROVE  /\ Announced(s, c) \in Subscription
           /\ [s EXCEPT !.announcements[c] = NoInstance] \in Subscription
           /\ \A i \in Instance : [s EXCEPT !.announcements[c] = i] \in Subscription
           /\ \A i \in Instance, b \in EventPostBinding :
                 [s EXCEPT !.bindings[i] = b] \in Subscription
           /\ \A i \in Instance :
                 [s EXCEPT !.bindings[i].names = @ \cup {c}] \in Subscription
           /\ \A i \in Instance : [s EXCEPT !.bindings[i].ended = TRUE] \in Subscription
           /\ \A state : Track(s, c, state) \in Subscription
<1>1. Announced(s, c) \in Subscription
  BY DEF Announced, Subscription
<1>2. [s EXCEPT !.announcements[c] = NoInstance] \in Subscription
  BY DEF Subscription
<1>3. ASSUME NEW i \in Instance
      PROVE  [s EXCEPT !.announcements[c] = i] \in Subscription
  BY DEF Subscription
<1>4. ASSUME NEW i \in Instance, NEW b \in EventPostBinding
      PROVE  [s EXCEPT !.bindings[i] = b] \in Subscription
  BY DEF Subscription
<1>5. ASSUME NEW i \in Instance
      PROVE  /\ [s EXCEPT !.bindings[i].names = @ \cup {c}] \in Subscription
             /\ [s EXCEPT !.bindings[i].ended = TRUE] \in Subscription
  <2>1. s.bindings[i] \in EventPostBinding
    BY DEF Subscription
  <2>2. /\ [s.bindings[i] EXCEPT !.names = @ \cup {c}] \in EventPostBinding
        /\ [s.bindings[i] EXCEPT !.ended = TRUE] \in EventPostBinding
    BY <2>1 DEF EventPostBinding
  <2>3. /\ [s EXCEPT !.bindings[i].names = @ \cup {c}]
              = [s EXCEPT !.bindings[i] = [s.bindings[i] EXCEPT !.names = @ \cup {c}]]
        /\ [s EXCEPT !.bindings[i].ended = TRUE]
              = [s EXCEPT !.bindings[i] = [s.bindings[i] EXCEPT !.ended = TRUE]]
    BY DEF Subscription
  <2> QED BY <1>4, <2>2, <2>3
<1>6. ASSUME NEW state
      PROVE  Track(s, c, state) \in Subscription
  BY DEF Track, Subscription
<1> QED BY <1>1, <1>2, <1>3, <1>4, <1>5, <1>6

LEMMA CreatePostType ==
    ASSUME TypeOK, NEW c \in Conf, NEW i \in Instance \cup {NoInstance}, CreatePost(c, i)
    PROVE  posts' \in Seq(Post)
<1>1. now \in Time
  BY BoundsAssumption DEF TypeOK, Time
<1>2. [conf |-> c, inst |-> i, at |-> now] \in Post
  BY <1>1 DEF Post
<1> QED BY <1>2 DEF CreatePost, TypeOK

LEMMA TypeAnnounce ==
    ASSUME TypeOK, DuePending, BeginCycle \/ Announce
    PROVE  TypeOK'
<1>1. CASE BeginCycle
  <2>1. now \in Time
    BY BoundsAssumption DEF TypeOK, Time
  <2> QED BY <1>1, <2>1
      DEF BeginCycle, TypeOK, googleVars, chatVars, batchVars, markVars
<1>2. ASSUME NEW c \in Conf, AnnouncementRefreshFails(c)
      PROVE  TypeOK'
  <2>1. faults' \in 0..MaxFaults
    BY <1>2, FailType DEF AnnouncementRefreshFails, TypeOK
  <2>2. mem' \in Subscription /\ abandoned' \subseteq Conf /\ changed' \in BOOLEAN
    BY <1>2, SubscriptionUpdates DEF AnnouncementRefreshFails, TypeOK
  <2> QED BY <1>2, <2>1, <2>2
      DEF AnnouncementRefreshFails, TypeOK, googleVars, chatVars, batchVars, markVars
<1>3. ASSUME NEW c \in Conf, DropAnnouncement(c)
      PROVE  TypeOK'
  <2>1. faults' \in 0..MaxFaults
    BY <1>3, FailType DEF DropAnnouncement, NoFailure, TypeOK
  <2>2. mem' \in Subscription
    BY <1>3, SubscriptionUpdates DEF DropAnnouncement, TypeOK
  <2>3. SuppressedState \in ConferencePostState
    BY StoredStateTypes DEF TypeOK, PostId
  <2>4. kv' \in [Conf -> ConferencePostState] /\ abandoned' \subseteq Conf
    BY <1>3, <2>3 DEF DropAnnouncement, TypeOK
  <2> QED BY <1>3, <2>1, <2>2, <2>4
      DEF DropAnnouncement, TypeOK, googleVars, chatVars, batchVars, markVars
<1>4. ASSUME NEW c \in Conf, AnnounceDue(c),
             mem.announcements[c] \in Instance
      PROVE  TypeOK'
  <2> DEFINE i == mem.announcements[c]
             p == mem.bindings[i].post
             q == Len(posts) + 1
  <2>1. faults' \in 0..MaxFaults
    BY <1>4, FailType DEF AnnounceDue, NoFailure, TypeOK
  <2>2. p \in PostId /\ q \in PostId
    BY <1>4 DEF TypeOK, Subscription, EventPostBinding, PostId
  <2>3. PostedState(p) \in ConferencePostState /\ PostedState(q) \in ConferencePostState
    BY <2>2, StoredStateTypes DEF TypeOK
  <2>4. kv' \in [Conf -> ConferencePostState]
    BY <1>4, <2>3 DEF AnnounceDue, TypeOK
  <2>5. posts' \in Seq(Post)
    BY <1>4, CreatePostType DEF AnnounceDue, TypeOK
  <2>6. NewBinding(c, q) \in EventPostBinding
    BY <2>2, NewTypes
  <2>7. /\ [mem EXCEPT !.bindings[i].names = @ \cup {c}] \in Subscription
        /\ [mem EXCEPT !.bindings[i] = NewBinding(c, q)] \in Subscription
    BY <1>4, <2>6, SubscriptionUpdates DEF TypeOK
  <2>8. \/ mem' = mem
        \/ mem' = Announced([mem EXCEPT !.bindings[i].names = @ \cup {c}], c)
        \/ mem' = Announced([mem EXCEPT !.bindings[i] = NewBinding(c, q)], c)
    BY <1>4 DEF AnnounceDue
  <2>9. mem' \in Subscription
    BY <2>7, <2>8, SubscriptionUpdates DEF TypeOK
  <2> QED BY <1>4, <2>1, <2>4, <2>5, <2>9
      DEF AnnounceDue, TypeOK, googleVars, batchVars, markVars
<1>5. ASSUME NEW c \in Conf, AnnounceDue(c)
      PROVE  mem.announcements[c] \in Instance
  BY <1>5 DEF AnnounceDue, DuePending, TypeOK, Subscription
<1> QED BY <1>1, <1>2, <1>3, <1>4, <1>5 DEF Announce

LEMMA TypeListRecords ==
    ASSUME TypeOK, ListRecords
    PROVE  TypeOK'
<1>1. PruneExpiredEventBindings(mem.bindings) \in [Instance -> EventPostBinding]
  BY NewTypes DEF TypeOK, Subscription, PruneExpiredEventBindings
<1>2. mem' \in Subscription
  BY <1>1 DEF ListRecords, TypeOK, Subscription
<1>3. mem.lastSeen \in Time
  BY DEF TypeOK, Subscription
<1>4. faults' \in 0..MaxFaults
  BY FailType DEF ListRecords, NoFailure, TypeOK
<1>5. todo' \subseteq Conf
  BY DEF ListRecords, StartedSince
<1>6. endTimes' \in [Conf -> Time]
  BY BoundsAssumption DEF ListRecords, TypeOK, Time
<1>7. 0 \in Time
  BY BoundsAssumption DEF Time
<1> QED BY <1>2, <1>3, <1>4, <1>5, <1>6, <1>7
    DEF ListRecords, TypeOK, googleVars, chatVars, markVars

(* What every branch of Classify leaves well typed. *)
LEMMA TypeHandled ==
    ASSUME TypeOK, NEW c \in Conf, Unhandled \/ Handled(c)
    PROVE  hadFailure' \in BOOLEAN /\ candidate' \in Time
BY DEF Unhandled, Handled, TypeOK, Later

LEMMA TypeRecorded ==
    ASSUME TypeOK, NEW c \in Conf, NEW state \in ConferencePostState, NEW s \in Subscription,
           NEW kinds, Recorded(c, state, s, kinds)
    PROVE  /\ kv' \in [Conf -> ConferencePostState] /\ changed' \in BOOLEAN
           /\ mem' \in Subscription /\ hadFailure' \in BOOLEAN /\ candidate' \in Time
           /\ faults' \in 0..MaxFaults
<1>1. kv' \in [Conf -> ConferencePostState] /\ changed' \in BOOLEAN
  BY DEF Recorded, TypeOK
<1>2. mem' \in Subscription
  BY SubscriptionUpdates DEF Recorded
<1>3. hadFailure' \in BOOLEAN /\ candidate' \in Time
  BY TypeHandled DEF Recorded
<1>4. faults' \in 0..MaxFaults
  BY FailType DEF Recorded, TypeOK
<1> QED BY <1>1, <1>2, <1>3, <1>4

LEMMA TypeNotRecorded ==
    ASSUME TypeOK, NEW kinds, NotRecorded(kinds)
    PROVE  /\ kv' \in [Conf -> ConferencePostState] /\ changed' \in BOOLEAN
           /\ mem' \in Subscription /\ hadFailure' \in BOOLEAN /\ candidate' \in Time
           /\ faults' \in 0..MaxFaults
<1>1. faults' \in 0..MaxFaults
  BY FailType DEF NotRecorded, TypeOK
<1> QED BY <1>1 DEF NotRecorded, Unhandled, TypeOK

(* The variables a classification leaves alone, and those it sets. *)
LEMMA TypeClassified ==
    ASSUME TypeOK, UNCHANGED classifyUnchanged, todo' \subseteq todo,
           posts' \in Seq(Post), kv' \in [Conf -> ConferencePostState],
           changed' \in BOOLEAN, mem' \in Subscription, hadFailure' \in BOOLEAN,
           candidate' \in Time, faults' \in 0..MaxFaults
    PROVE  TypeOK'
BY DEF classifyUnchanged, googleVars, markVars, TypeOK

LEMMA TypeClassify ==
    ASSUME TypeOK, Classify
    PROVE  TypeOK'
<1> USE DEF TypeOK
<1>1. ASSUME NEW c \in Conf, ReadStateFails(c)
      PROVE  TypeOK'
  <2>1. faults' \in 0..MaxFaults
    BY <1>1, FailType DEF ReadStateFails
  <2>2. hadFailure' \in BOOLEAN /\ candidate' \in Time
    BY <1>1, TypeHandled DEF ReadStateFails
  <2> QED BY <1>1, <2>1, <2>2, TypeClassified DEF ReadStateFails
<1>2. ASSUME NEW c \in Conf, SeenBefore(c)
      PROVE  TypeOK'
  <2>1. hadFailure' \in BOOLEAN /\ candidate' \in Time
    BY <1>2, TypeHandled DEF SeenBefore
  <2>2. mem' \in Subscription
    BY <1>2, SubscriptionUpdates DEF SeenBefore
  <2> QED BY <1>2, <2>1, <2>2, TypeClassified DEF SeenBefore, NoFailure
<1>3. ASSUME NEW c \in Conf, NEW i \in Instance, BindToAnnounced(c, i)
      PROVE  TypeOK'
  <2> DEFINE p == mem.bindings[i].post
             s == [mem EXCEPT !.bindings[i].names = @ \cup {c}]
  <2>1. p \in PostId
    BY DEF Subscription, EventPostBinding
  <2>2. PostedState(p) \in ConferencePostState
    BY <2>1, StoredStateTypes
  <2>3. s \in Subscription
    BY SubscriptionUpdates
  <2>4. Recorded(c, PostedState(p), s, {}) \/ NotRecorded({"kvstate"})
    BY <1>3 DEF BindToAnnounced
  <2> QED BY <1>3, <2>2, <2>3, <2>4, TypeRecorded, TypeNotRecorded, TypeClassified
      DEF BindToAnnounced
<1>4. ASSUME NEW c \in Conf, NEW i \in Instance, Defer(c, i)
      PROVE  TypeOK'
  <2>1. mem' \in Subscription
    BY <1>4, SubscriptionUpdates DEF Defer
  <2>2. hadFailure' \in BOOLEAN /\ candidate' \in Time
    BY <1>4, TypeHandled DEF Defer
  <2> QED BY <1>4, <2>1, <2>2, TypeClassified DEF Defer, NoFailure
<1>5. ASSUME NEW c \in Conf, NEW i \in Instance, PostScheduled(c, i)
      PROVE  TypeOK'
  <2> DEFINE p == Len(posts) + 1
             s == [mem EXCEPT !.bindings[i] = NewBinding(c, p)]
  <2>1. p \in PostId
    BY DEF PostId
  <2>2. PostedState(p) \in ConferencePostState
    BY <2>1, StoredStateTypes
  <2>3. s \in Subscription
    BY <2>1, NewTypes, SubscriptionUpdates
  <2>4. \/ Recorded(c, PostedState(p), s, {})
        \/ NotRecorded({"kvstate"})
        \/ NotRecorded({"post"})
    BY <1>5 DEF PostScheduled
  <2>5. posts' \in Seq(Post)
    BY <1>5, CreatePostType DEF PostScheduled
  <2> QED BY <1>5, <2>2, <2>3, <2>4, <2>5, TypeRecorded, TypeNotRecorded, TypeClassified
      DEF PostScheduled
<1>6. ASSUME NEW c \in Conf, NEW kinds, Suppress(c, kinds)
      PROVE  TypeOK'
  <2>1. SuppressedState \in ConferencePostState
    BY StoredStateTypes DEF PostId
  <2>2. Recorded(c, SuppressedState, mem, kinds) \/ NotRecorded(kinds \cup {"kvstate"})
    BY <1>6 DEF Suppress
  <2> QED BY <1>6, <2>1, <2>2, TypeRecorded, TypeNotRecorded, TypeClassified DEF Suppress
<1>7. ASSUME NEW c \in Conf, NEW kinds, PostUnscheduled(c, kinds)
      PROVE  TypeOK'
  <2> DEFINE p == Len(posts) + 1
  <2>1. PostedState(p) \in ConferencePostState
    BY StoredStateTypes DEF PostId
  <2>2. \/ Recorded(c, PostedState(p), mem, kinds)
        \/ NotRecorded(kinds \cup {"kvstate"})
        \/ NotRecorded(kinds \cup {"post"})
    BY <1>7 DEF PostUnscheduled
  <2>3. posts' \in Seq(Post)
    BY <1>7, CreatePostType DEF PostUnscheduled
  <2> QED BY <1>7, <2>1, <2>2, <2>3, TypeRecorded, TypeNotRecorded, TypeClassified
      DEF PostUnscheduled
<1> QED BY <1>1, <1>2, <1>3, <1>4, <1>5, <1>6, <1>7 DEF Classify

LEMMA TypeSaveBatch ==
    ASSUME TypeOK, SaveBatch
    PROVE  TypeOK'
<1> DEFINE ends == {mem.lastEnd} \cup {endTimes[c] : c \in Conf}
<1>1. PICK latest \in ends :
          mem' = [mem EXCEPT !.lastSeen = Later(@, NextWatermark), !.lastEnd = latest]
  BY DEF SaveBatch
<1>2. latest \in Time
  BY <1>1 DEF TypeOK, Subscription
<1>3. Later(mem.lastSeen, NextWatermark) \in Time
  BY DEF Later, NextWatermark, TypeOK, Subscription
<1>4. mem' \in Subscription
  BY <1>1, <1>2, <1>3 DEF TypeOK, Subscription
<1>5. faults' \in 0..MaxFaults
  BY FailType DEF SaveBatch, WriteBack, NoFailure, TypeOK
<1>6. sub' \in Subscription
  BY <1>4 DEF SaveBatch, WriteBack, TypeOK
<1>7. todo' \subseteq Conf
  BY DEF SaveBatch, TypeOK, Subscription
<1>8. 0 \in Time
  BY BoundsAssumption DEF Time
<1> QED BY <1>4, <1>5, <1>6, <1>7, <1>8 DEF SaveBatch, TypeOK, googleVars, chatVars, markVars

LEMMA TypeResolveEnd ==
    ASSUME TypeOK, NEW c \in Conf, ResolveEnd(c)
    PROVE  TypeOK'
<1>1. PICK known \in Time :
        \/ resolved' = resolved /\ mem' = mem
        \/ /\ resolved' = [resolved EXCEPT ![c] = known]
           /\ mem' = [mem EXCEPT !.lastEnd = Later(@, known)]
  <2>1. endTimes[c] \in Time /\ end[c] \in Time /\ 0 \in Time
    BY BoundsAssumption DEF TypeOK, Time
  <2> QED BY <2>1 DEF ResolveEnd
<1>2. mem' \in Subscription /\ resolved' \in [Conf -> Time]
  BY <1>1 DEF TypeOK, Subscription, Later
<1>3. faults' \in 0..MaxFaults
  BY FailType DEF ResolveEnd, TypeOK
<1> QED BY <1>2, <1>3 DEF ResolveEnd, TypeOK, googleVars, chatVars, batchVars

(* Polling artifacts changes the expiry of a state and nothing else. *)
LEMMA ArtifactsPolledType ==
    ASSUME TypeOK, NEW c \in Conf, ArtifactsPolled(c)
    PROVE  /\ kv' \in [Conf -> ConferencePostState]
           /\ \A d \in Conf : kv'[d].kind = kv[d].kind
<1>1. Expiry \in Nat
  BY ExpiryType DEF TypeOK
<1>2. [kv[c] EXCEPT !.exp = Expiry] \in ConferencePostState
  BY <1>1 DEF TypeOK, ConferencePostState
<1>3. kv' = kv \/ kv' = [kv EXCEPT ![c] = [kv[c] EXCEPT !.exp = Expiry]]
  BY <1>2 DEF ArtifactsPolled, TypeOK, ConferencePostState
<1> QED BY <1>2, <1>3 DEF TypeOK, ConferencePostState

LEMMA TypeMark ==
    ASSUME TypeOK, BeginMarking \/ Mark
    PROVE  TypeOK'
<1>1. CASE BeginMarking
  BY <1>1, NewTypes
  DEF BeginMarking, TypeOK, Subscription, googleVars, chatVars, batchVars, markVars
<1>2. ASSUME NEW c \in Conf, FlagEnded(c)
      PROVE  /\ kv' \in [Conf -> ConferencePostState]
             /\ changed' \in BOOLEAN /\ faults' \in 0..MaxFaults
  <2>1. faults' \in 0..MaxFaults
    BY <1>2, FailType DEF FlagEnded, NoFailure, TypeOK
  <2>2. Expiry \in Nat
    BY ExpiryType DEF TypeOK
  <2>3. [kv[c] EXCEPT !.ended = TRUE, !.exp = Expiry] \in ConferencePostState
    BY <2>2 DEF TypeOK, ConferencePostState
  <2>4. \/ kv' = [kv EXCEPT ![c] = [kv[c] EXCEPT !.ended = TRUE, !.exp = Expiry]]
        \/ ArtifactsPolled(c)
    BY <1>2, <2>3 DEF FlagEnded, TypeOK, ConferencePostState
  <2>5. kv' \in [Conf -> ConferencePostState]
    BY <2>3, <2>4, ArtifactsPolledType DEF TypeOK
  <2> QED BY <1>2, <2>1, <2>5 DEF FlagEnded
<1>3. ASSUME NEW c \in Conf
      PROVE  Get(c).post \in PostId
  BY GetType DEF ConferencePostState
<1>4. ASSUME NEW c \in Conf, MarkUnboundEnded(c)
      PROVE  TypeOK'
  BY <1>2, <1>3, <1>4
  DEF MarkUnboundEnded, TypeOK, markUnchanged, googleVars, batchVars
<1>5. ASSUME NEW c \in Conf, NEW i \in Instance, FlagBoundEnded(c, i)
      PROVE  TypeOK'
  BY <1>2, <1>5 DEF FlagBoundEnded, TypeOK, markUnchanged, googleVars, batchVars
<1>6. ASSUME NEW c \in Conf, NEW i \in Instance, MarkBindingEnded(c, i)
      PROVE  TypeOK'
  <2>1. mem' \in Subscription
    BY <1>6, SubscriptionUpdates DEF MarkBindingEnded, TypeOK
  <2> QED BY <1>2, <1>3, <1>6, <2>1
      DEF MarkBindingEnded, TypeOK, markUnchanged, googleVars, batchVars
<1>7. ASSUME NEW c \in Conf, PassOver(c)
      PROVE  TypeOK'
  <2>1. faults' \in 0..MaxFaults
    BY <1>7, FailType DEF PassOver, NoFailure, TypeOK
  <2>2. pruned' \subseteq Conf
    BY <1>7 DEF PassOver, TypeOK
  <2>3. kv' \in [Conf -> ConferencePostState]
    BY <1>7, ArtifactsPolledType DEF PassOver, TypeOK
  <2> QED BY <1>7, <2>1, <2>2, <2>3
      DEF PassOver, TypeOK, markUnchanged, googleVars, batchVars
<1> QED BY <1>1, <1>4, <1>5, <1>6, <1>7 DEF Mark

LEMMA TypeEndCycle ==
    ASSUME TypeOK, EndCycle \/ Crash
    PROVE  TypeOK'
<1>1. CASE EndCycle
  <2>1. [mem EXCEPT !.active = @ \ pruned] \in Subscription
    BY DEF TypeOK, Subscription
  <2>2. sub' \in Subscription
    BY <1>1, <2>1 DEF EndCycle, WriteBack, TypeOK
  <2>3. faults' \in 0..MaxFaults
    BY <1>1, FailType DEF EndCycle, WriteBack, NoFailure, TypeOK
  <2> QED BY <1>1, <2>2, <2>3, NewTypes
      DEF EndCycle, TypeOK, googleVars, chatVars, batchVars
<1>2. CASE Crash
  <2>1. faults' \in 0..MaxFaults
    BY <1>2, FailType DEF Crash, TypeOK
  <2>2. 0 \in Time
    BY BoundsAssumption DEF Time
  <2> QED BY <1>2, <2>1, <2>2, NewTypes DEF Crash, TypeOK, googleVars, chatVars
<1> QED BY <1>1, <1>2

(* What is visited while announcing is an announcement still pending. *)
LEMMA DuePendingStep ==
    ASSUME TypeOK, DuePending, Next
    PROVE  DuePending'
<1> SUFFICES ASSUME pc' = "announce", NEW c \in todo'
             PROVE  mem'.announcements[c] # NoInstance
  BY DEF DuePending
<1>1. CASE BeginCycle
  BY <1>1 DEF BeginCycle
<1>2. CASE Environment
  BY <1>2 DEF Environment, Tick, StartConference, EndConference, DuePending
<1>3. CASE Announce
  <2>1. PICK d \in Conf : AnnouncementRefreshFails(d) \/ DropAnnouncement(d) \/ AnnounceDue(d)
    BY <1>3 DEF Announce
  <2>2. pc = "announce" /\ c \in todo /\ c # d /\ c \in Conf
    BY <2>1 DEF AnnouncementRefreshFails, DropAnnouncement, AnnounceDue, TypeOK
  <2>3. mem \in Subscription
    BY DEF TypeOK
  <2>4. CASE AnnouncementRefreshFails(d) \/ DropAnnouncement(d)
    <3>1. mem' = mem \/ mem' = [mem EXCEPT !.announcements[d] = NoInstance]
      BY <2>4 DEF AnnouncementRefreshFails, DropAnnouncement
    <3>2. mem'.announcements[c] = mem.announcements[c]
      BY <2>2, <2>3, <3>1 DEF Subscription
    <3> QED BY <2>2, <3>2 DEF DuePending
  <2>5. CASE AnnounceDue(d)
    <3> DEFINE i == mem.announcements[d]
    <3>1. \/ mem' = mem
          \/ mem' = Announced([mem EXCEPT !.bindings[i].names = @ \cup {d}], d)
          \/ mem' = Announced([mem EXCEPT !.bindings[i] = NewBinding(d, Len(posts) + 1)], d)
      BY <2>5 DEF AnnounceDue
    <3>2. ASSUME NEW s \in Subscription, NEW b
          PROVE  /\ Announced([s EXCEPT !.bindings = b], d).announcements[c]
                        = s.announcements[c]
      BY <2>2 DEF Announced, Subscription
    <3>3. /\ [mem EXCEPT !.bindings[i].names = @ \cup {d}]
               = [mem EXCEPT !.bindings = [mem.bindings EXCEPT ![i].names = @ \cup {d}]]
          /\ [mem EXCEPT !.bindings[i] = NewBinding(d, Len(posts) + 1)]
               = [mem EXCEPT !.bindings = [mem.bindings EXCEPT ![i] = NewBinding(d, Len(posts) + 1)]]
      BY <2>3 DEF Subscription
    <3>4. mem'.announcements[c] = mem.announcements[c]
      BY <2>3, <3>1, <3>2, <3>3
    <3> QED BY <2>2, <3>4 DEF DuePending
  <2> QED BY <2>1, <2>4, <2>5
<1>4. CASE Classify
  BY <1>4
  DEF Classify, ReadStateFails, SeenBefore, BindToAnnounced, Defer, PostScheduled, Suppress,
      PostUnscheduled, Unclassified, Classifying, classifyUnchanged
<1>5. CASE Mark
  BY <1>5
  DEF Mark, MarkUnboundEnded, FlagBoundEnded, MarkBindingEnded, PassOver, Marking, markUnchanged
<1>6. CASE ListRecords \/ SaveBatch \/ BeginMarking \/ EndCycle \/ Crash
  BY <1>6 DEF ListRecords, SaveBatch, BeginMarking, EndCycle, Crash
<1>7. CASE \E d \in Conf : ResolveEnd(d)
  BY <1>7 DEF ResolveEnd
<1> QED BY <1>1, <1>2, <1>3, <1>4, <1>5, <1>6, <1>7 DEF Next, PollStep

TypeInv == TypeOK /\ DuePending

LEMMA TypeStep == TypeInv /\ [Next]_vars => TypeInv'
<1> SUFFICES ASSUME TypeOK, DuePending, [Next]_vars
             PROVE  TypeOK' /\ DuePending'
  BY DEF TypeInv
<1>1. CASE UNCHANGED vars
  BY <1>1 DEF vars, TypeOK, DuePending
<1>2. CASE Next
  <2>1. TypeOK'
    BY <1>2, TypeAnnounce, TypeListRecords, TypeClassify, TypeSaveBatch, TypeResolveEnd,
       TypeMark, TypeEndCycle, TypeEnvironment
    DEF Next, PollStep
  <2> QED BY <1>2, <2>1, DuePendingStep
<1> QED BY <1>1, <1>2

LEMMA TypeInvariant == Spec => []TypeInv
<1>1. Init => TypeInv
  BY TypeInit DEF TypeInv, Init, DuePending
<1> QED BY <1>1, TypeStep, PTL DEF Spec

(* Every variable keeps its type in every reachable state. *)
THEOREM TypeCorrect == Spec => []TypeOK
<1>1. TypeInv => TypeOK
  BY DEF TypeInv
<1> QED BY <1>1, TypeInvariant, PTL
=============================================================================
