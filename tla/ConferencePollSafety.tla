------------------------ MODULE ConferencePollSafety ------------------------
(* Proofs that the poll cycle of ConferencePoll never loses a conference and  *)
(* never silences one without reason, whatever fails and wherever the node   *)
(* stops.                                                                   *)
EXTENDS ConferencePollProofs

-----------------------------------------------------------------------------
(* Which fields an update of a subscription leaves alone. *)
LEMMA UpdateFacts ==
    ASSUME NEW s \in Subscription, NEW c \in Conf
    PROVE  /\ \A state : /\ Track(s, c, state).announcements = s.announcements
                         /\ Track(s, c, state).lastSeen = s.lastSeen
                         /\ Track(s, c, state).lastEnd = s.lastEnd
           /\ \A b : /\ [s EXCEPT !.bindings = b].announcements = s.announcements
                     /\ [s EXCEPT !.bindings = b].lastSeen = s.lastSeen
                     /\ [s EXCEPT !.bindings = b].lastEnd = s.lastEnd
           /\ \A i : [s EXCEPT !.bindings[i].names = @ \cup {c}]
                        = [s EXCEPT !.bindings = [s.bindings EXCEPT ![i].names = @ \cup {c}]]
           /\ \A i : [s EXCEPT !.bindings[i].ended = TRUE]
                        = [s EXCEPT !.bindings = [s.bindings EXCEPT ![i].ended = TRUE]]
           /\ \A i, b : [s EXCEPT !.bindings[i] = b]
                           = [s EXCEPT !.bindings = [s.bindings EXCEPT ![i] = b]]
           /\ \A b : /\ Announced([s EXCEPT !.bindings = b], c).announcements
                           = [s.announcements EXCEPT ![c] = NoInstance]
                     /\ Announced([s EXCEPT !.bindings = b], c).lastSeen = s.lastSeen
                     /\ Announced([s EXCEPT !.bindings = b], c).lastEnd = s.lastEnd
<1>1. \A state : /\ Track(s, c, state).announcements = s.announcements
                 /\ Track(s, c, state).lastSeen = s.lastSeen
                 /\ Track(s, c, state).lastEnd = s.lastEnd
  BY DEF Track, Subscription
<1>2. \A b : /\ [s EXCEPT !.bindings = b].announcements = s.announcements
             /\ [s EXCEPT !.bindings = b].lastSeen = s.lastSeen
             /\ [s EXCEPT !.bindings = b].lastEnd = s.lastEnd
  BY DEF Subscription
<1>3. \A i : [s EXCEPT !.bindings[i].names = @ \cup {c}]
                = [s EXCEPT !.bindings = [s.bindings EXCEPT ![i].names = @ \cup {c}]]
  BY DEF Subscription
<1>4. \A i : [s EXCEPT !.bindings[i].ended = TRUE]
                = [s EXCEPT !.bindings = [s.bindings EXCEPT ![i].ended = TRUE]]
  BY DEF Subscription
<1>5. \A i, b : [s EXCEPT !.bindings[i] = b]
                   = [s EXCEPT !.bindings = [s.bindings EXCEPT ![i] = b]]
  BY DEF Subscription
<1>6. \A b : /\ Announced([s EXCEPT !.bindings = b], c).announcements
                   = [s.announcements EXCEPT ![c] = NoInstance]
             /\ Announced([s EXCEPT !.bindings = b], c).lastSeen = s.lastSeen
             /\ Announced([s EXCEPT !.bindings = b], c).lastEnd = s.lastEnd
  BY DEF Announced, Subscription
<1> QED BY <1>1, <1>2, <1>3, <1>4, <1>5, <1>6

(* What one announcement does to the state the invariants speak of: only its  *)
(* own conference's state and announcement change, and the announcement goes *)
(* away only with a state stored or the announcement given up.               *)
AnnounceEffect(c) ==
    /\ pc = "announce" /\ pc' = "announce" /\ c \in todo
    /\ UNCHANGED <<now, start, end, sub, endTimes, candidate>>
    /\ mem'.lastSeen = mem.lastSeen /\ mem'.lastEnd = mem.lastEnd
    /\ abandoned \subseteq abandoned'
    /\ \A d \in Conf : kv'[d].kind = kv[d].kind \/ (d = c /\ kv'[d].kind # "none")
    /\ \/ mem'.announcements = mem.announcements
       \/ /\ mem'.announcements = [mem.announcements EXCEPT ![c] = NoInstance]
          /\ kv'[c].kind # "none" \/ c \in abandoned'

LEMMA AnnounceHasEffect ==
    ASSUME TypeOK, NEW c \in Conf,
           AnnouncementRefreshFails(c) \/ DropAnnouncement(c) \/ AnnounceDue(c)
    PROVE  AnnounceEffect(c)
<1> USE DEF AnnounceEffect, googleVars, chatVars, batchVars
<1>1. mem \in Subscription /\ kv \in [Conf -> ConferencePostState]
  BY DEF TypeOK
<1>2. /\ [mem EXCEPT !.announcements[c] = NoInstance].announcements
            = [mem.announcements EXCEPT ![c] = NoInstance]
      /\ [mem EXCEPT !.announcements[c] = NoInstance].lastSeen = mem.lastSeen
      /\ [mem EXCEPT !.announcements[c] = NoInstance].lastEnd = mem.lastEnd
  BY <1>1 DEF Subscription
<1>3. CASE AnnouncementRefreshFails(c)
  BY <1>2, <1>3 DEF AnnouncementRefreshFails
<1>4. CASE DropAnnouncement(c)
  BY <1>1, <1>2, <1>4 DEF DropAnnouncement, SuppressedState
<1>5. CASE AnnounceDue(c)
  <2> DEFINE i == mem.announcements[c]
             q == Len(posts) + 1
  <2>1. \/ mem' = mem /\ kv' = kv
        \/ /\ \/ mem' = Announced([mem EXCEPT !.bindings[i].names = @ \cup {c}], c)
              \/ mem' = Announced([mem EXCEPT !.bindings[i] = NewBinding(c, q)], c)
           /\ \E p : kv' = [kv EXCEPT ![c] = PostedState(p)]
    BY <1>5 DEF AnnounceDue
  <2>2. CASE mem' = mem /\ kv' = kv
    BY <1>5, <2>2 DEF AnnounceDue
  <2>3. CASE /\ \/ mem' = Announced([mem EXCEPT !.bindings[i].names = @ \cup {c}], c)
                \/ mem' = Announced([mem EXCEPT !.bindings[i] = NewBinding(c, q)], c)
             /\ \E p : kv' = [kv EXCEPT ![c] = PostedState(p)]
    <3>1. /\ mem'.announcements = [mem.announcements EXCEPT ![c] = NoInstance]
          /\ mem'.lastSeen = mem.lastSeen /\ mem'.lastEnd = mem.lastEnd
      <4>1. ASSUME NEW b, mem' = Announced([mem EXCEPT !.bindings = b], c)
            PROVE  /\ mem'.announcements = [mem.announcements EXCEPT ![c] = NoInstance]
                   /\ mem'.lastSeen = mem.lastSeen /\ mem'.lastEnd = mem.lastEnd
        BY <1>1, <4>1, UpdateFacts
      <4>2. /\ [mem EXCEPT !.bindings[i].names = @ \cup {c}]
                  = [mem EXCEPT !.bindings = [mem.bindings EXCEPT ![i].names = @ \cup {c}]]
            /\ [mem EXCEPT !.bindings[i] = NewBinding(c, q)]
                  = [mem EXCEPT !.bindings = [mem.bindings EXCEPT ![i] = NewBinding(c, q)]]
        BY <1>1, UpdateFacts
      <4> QED BY <2>3, <4>1, <4>2
    <3>2. /\ kv'[c].kind = "posted"
          /\ \A d \in Conf : d # c => kv'[d].kind = kv[d].kind
      BY <1>1, <2>3 DEF PostedState
    <3> QED BY <1>5, <3>1, <3>2 DEF AnnounceDue
  <2> QED BY <2>1, <2>2, <2>3
<1> QED BY <1>3, <1>4, <1>5

(* What classifying one record does: the record counts as handled only if a  *)
(* state is stored or its announcement is pending.                          *)
ClassifyEffect(c) ==
    /\ pc = "classify" /\ pc' = "classify" /\ c \in todo /\ todo' = todo \ {c}
    /\ UNCHANGED <<now, start, end, sub, endTimes, abandoned>>
    /\ mem'.lastSeen = mem.lastSeen /\ mem'.lastEnd = mem.lastEnd
    /\ \A d \in Conf : kv'[d].kind = kv[d].kind \/ (d = c /\ kv'[d].kind # "none")
    /\ kv'[c].kind = "suppressed" =>
          kv[c].kind = "suppressed" \/ \E kinds : Suppress(c, kinds)
    /\ \/ mem'.announcements = mem.announcements
       \/ \E i \in Instance : /\ ScheduledFor(c, i)
                              /\ mem.announcements[c] = NoInstance
                              /\ mem'.announcements = [mem.announcements EXCEPT ![c] = i]
    /\ \/ hadFailure' /\ candidate' = candidate
       \/ Kept(mem, c)' /\ Handled(c)

LEMMA RecordedEffect ==
    ASSUME TypeOK, NEW c \in Conf, NEW s \in Subscription, NEW kinds,
           NEW state \in ConferencePostState, state.kind # "none",
           Recorded(c, state, s, kinds)
    PROVE  /\ mem'.lastSeen = s.lastSeen /\ mem'.lastEnd = s.lastEnd
           /\ mem'.announcements = s.announcements
           /\ kv'[c] = state /\ \A d \in Conf : d # c => kv'[d] = kv[d]
           /\ (hadFailure' /\ candidate' = candidate) \/ Handled(c)
<1>1. kv'[c] = state /\ \A d \in Conf : d # c => kv'[d] = kv[d]
  BY DEF Recorded, TypeOK
<1>2. /\ mem'.lastSeen = s.lastSeen /\ mem'.lastEnd = s.lastEnd
      /\ mem'.announcements = s.announcements
  <2>1. mem' = s \/ mem' = Track(s, c, state)
    BY DEF Recorded
  <2>2. /\ Track(s, c, state).lastSeen = s.lastSeen /\ Track(s, c, state).lastEnd = s.lastEnd
        /\ Track(s, c, state).announcements = s.announcements
    BY UpdateFacts
  <2> QED BY <2>1, <2>2
<1>3. Handled(c) \/ Unhandled
  BY DEF Recorded
<1>4. Unhandled => hadFailure' /\ candidate' = candidate
  BY DEF Unhandled
<1> QED BY <1>1, <1>2, <1>3, <1>4

LEMMA ClassifyHasEffect ==
    ASSUME TypeOK, Classify
    PROVE  \E c \in Conf : ClassifyEffect(c)
<1> USE DEF ClassifyEffect, googleVars, Classifying, Unclassified, classifyUnchanged
<1>1. mem \in Subscription /\ kv \in [Conf -> ConferencePostState]
  BY DEF TypeOK
<1>2. SuppressedState \in ConferencePostState /\ SuppressedState.kind = "suppressed"
  BY StoredStateTypes DEF TypeOK, PostId, SuppressedState
<1>3. ASSUME NEW p \in PostId
      PROVE  PostedState(p) \in ConferencePostState /\ PostedState(p).kind = "posted"
  BY StoredStateTypes DEF TypeOK, PostedState
<1>4. ASSUME NEW c \in Conf, ReadStateFails(c)
      PROVE  ClassifyEffect(c)
  BY <1>4 DEF ReadStateFails, Unhandled
<1>5. ASSUME NEW c \in Conf, SeenBefore(c)
      PROVE  ClassifyEffect(c)
  <2>1. kv[c].kind # "none"
    BY <1>5 DEF SeenBefore, Get, NoState
  <2>2. /\ mem'.lastSeen = mem.lastSeen /\ mem'.lastEnd = mem.lastEnd
        /\ mem'.announcements = mem.announcements
    <3>1. mem' = Track(mem, c, Get(c))
      BY <1>5 DEF SeenBefore
    <3>2. /\ Track(mem, c, Get(c)).lastSeen = mem.lastSeen
          /\ Track(mem, c, Get(c)).lastEnd = mem.lastEnd
          /\ Track(mem, c, Get(c)).announcements = mem.announcements
      BY <1>1 DEF Track, Subscription
    <3> QED BY <3>1, <3>2
  <2>3. Kept(mem, c)'
    BY <1>5, <2>1 DEF SeenBefore, Kept
  <2> QED BY <1>5, <2>2, <2>3 DEF SeenBefore
<1>6. ASSUME NEW c \in Conf, NEW i \in Instance, BindToAnnounced(c, i)
      PROVE  ClassifyEffect(c)
  <2> DEFINE p == mem.bindings[i].post
             s == [mem EXCEPT !.bindings[i].names = @ \cup {c}]
  <2>1. p \in PostId
    BY <1>1 DEF Subscription, EventPostBinding
  <2>2. s \in Subscription
    BY <1>1, SubscriptionUpdates
  <2>3. /\ s.lastSeen = mem.lastSeen /\ s.lastEnd = mem.lastEnd
        /\ s.announcements = mem.announcements
    BY <1>1, UpdateFacts
  <2>4. CASE Recorded(c, PostedState(p), s, {})
    BY <1>1, <1>3, <1>6, <2>1, <2>2, <2>3, <2>4, RecordedEffect DEF BindToAnnounced, Kept
  <2>5. CASE NotRecorded({"kvstate"})
    BY <1>6, <2>5 DEF BindToAnnounced, NotRecorded, Unhandled
  <2> QED BY <1>6, <2>4, <2>5 DEF BindToAnnounced
<1>7. ASSUME NEW c \in Conf, NEW i \in Instance, Defer(c, i)
      PROVE  ClassifyEffect(c)
  <2>1. /\ mem'.lastSeen = mem.lastSeen /\ mem'.lastEnd = mem.lastEnd
        /\ \/ mem'.announcements = mem.announcements /\ mem.announcements[c] # NoInstance
           \/ /\ mem.announcements[c] = NoInstance
              /\ mem'.announcements = [mem.announcements EXCEPT ![c] = i]
    BY <1>1, <1>7 DEF Defer, Subscription
  <2>2. mem'.announcements[c] # NoInstance
    BY <1>1, <2>1, NoInstanceAssumption DEF Subscription
  <2> QED BY <1>7, <2>1, <2>2 DEF Defer, Kept
<1>8. ASSUME NEW c \in Conf, NEW i \in Instance, PostScheduled(c, i)
      PROVE  ClassifyEffect(c)
  <2> DEFINE p == Len(posts) + 1
             s == [mem EXCEPT !.bindings[i] = NewBinding(c, p)]
  <2>1. p \in PostId
    BY DEF PostId, TypeOK
  <2>2. s \in Subscription
    BY <1>1, <2>1, NewTypes, SubscriptionUpdates
  <2>3. /\ s.lastSeen = mem.lastSeen /\ s.lastEnd = mem.lastEnd
        /\ s.announcements = mem.announcements
    BY <1>1, UpdateFacts
  <2>4. CASE Recorded(c, PostedState(p), s, {})
    <3>1. /\ PostedState(p) \in ConferencePostState
          /\ PostedState(p).kind = "posted"
      BY <1>3, <2>1
    <3>2. /\ mem'.lastSeen = mem.lastSeen /\ mem'.lastEnd = mem.lastEnd
          /\ mem'.announcements = mem.announcements
          /\ kv'[c] = PostedState(p) /\ \A d \in Conf : d # c => kv'[d] = kv[d]
          /\ (hadFailure' /\ candidate' = candidate) \/ Handled(c)
      BY <2>2, <2>3, <2>4, <3>1, RecordedEffect
    <3>3. Kept(mem, c)'
      BY <3>1, <3>2 DEF Kept
    <3> QED BY <1>8, <3>1, <3>2, <3>3 DEF PostScheduled
  <2>5. CASE NotRecorded({"kvstate"}) \/ NotRecorded({"post"})
    BY <1>8, <2>5 DEF PostScheduled, NotRecorded, Unhandled
  <2> QED BY <1>8, <2>4, <2>5 DEF PostScheduled
<1>9. ASSUME NEW c \in Conf, NEW kinds, Suppress(c, kinds)
      PROVE  ClassifyEffect(c)
  <2>1. CASE Recorded(c, SuppressedState, mem, kinds)
    BY <1>1, <1>2, <1>9, <2>1, RecordedEffect DEF Suppress, Kept
  <2>2. CASE NotRecorded(kinds \cup {"kvstate"})
    BY <1>9, <2>2 DEF Suppress, NotRecorded, Unhandled
  <2> QED BY <1>9, <2>1, <2>2 DEF Suppress
<1>10. ASSUME NEW c \in Conf, NEW kinds, PostUnscheduled(c, kinds)
       PROVE  ClassifyEffect(c)
  <2> DEFINE p == Len(posts) + 1
  <2>1. p \in PostId
    BY DEF PostId, TypeOK
  <2>2. CASE Recorded(c, PostedState(p), mem, kinds)
    BY <1>1, <1>3, <1>10, <2>1, <2>2, RecordedEffect DEF PostUnscheduled, Kept
  <2>3. CASE NotRecorded(kinds \cup {"kvstate"}) \/ NotRecorded(kinds \cup {"post"})
    BY <1>10, <2>3 DEF PostUnscheduled, NotRecorded, Unhandled
  <2> QED BY <1>10, <2>2, <2>3 DEF PostUnscheduled
<1> QED BY <1>4, <1>5, <1>6, <1>7, <1>8, <1>9, <1>10 DEF Classify

(* Between the batch and the end of the cycle nothing the watermark depends   *)
(* on moves.                                                                *)
QuietEffect ==
    /\ pc \in {"resolve", "mark"} /\ pc' \in {"resolve", "mark"}
    /\ UNCHANGED <<now, start, end, sub, candidate, abandoned>>
    /\ mem'.announcements = mem.announcements /\ mem'.lastSeen = mem.lastSeen
    /\ \A d \in Conf : kv'[d].kind = kv[d].kind

LEMMA ResolveOrMarkHasEffect ==
    ASSUME TypeOK, (\E c \in Conf : ResolveEnd(c)) \/ BeginMarking \/ Mark
    PROVE  QuietEffect
<1> USE DEF QuietEffect, googleVars, chatVars, batchVars, markUnchanged, Marking
<1>1. mem \in Subscription /\ kv \in [Conf -> ConferencePostState]
  BY DEF TypeOK
<1>2. ASSUME NEW c \in Conf, ResolveEnd(c)
      PROVE  QuietEffect
  <2>1. PICK known : mem' = mem \/ mem' = [mem EXCEPT !.lastEnd = Later(@, known)]
    BY <1>2 DEF ResolveEnd
  <2>2. mem'.announcements = mem.announcements /\ mem'.lastSeen = mem.lastSeen
    BY <1>1, <2>1 DEF Subscription
  <2> QED BY <1>2, <2>2 DEF ResolveEnd
<1>3. CASE BeginMarking
  BY <1>3 DEF BeginMarking
<1>4. ASSUME NEW c \in Conf, FlagEnded(c)
      PROVE  \A d \in Conf : kv'[d].kind = kv[d].kind
  BY <1>1, <1>4, ArtifactsPolledType DEF FlagEnded, ConferencePostState
<1>5. ASSUME NEW c \in Conf, MarkUnboundEnded(c)
      PROVE  QuietEffect
  BY <1>4, <1>5 DEF MarkUnboundEnded
<1>6. ASSUME NEW c \in Conf, NEW i \in Instance, FlagBoundEnded(c, i)
      PROVE  QuietEffect
  BY <1>4, <1>6 DEF FlagBoundEnded
<1>7. ASSUME NEW c \in Conf, NEW i \in Instance, MarkBindingEnded(c, i)
      PROVE  QuietEffect
  <2>1. mem'.announcements = mem.announcements /\ mem'.lastSeen = mem.lastSeen
    BY <1>1, <1>7 DEF MarkBindingEnded, Subscription
  <2> QED BY <1>4, <1>7, <2>1 DEF MarkBindingEnded
<1>8. ASSUME NEW c \in Conf, PassOver(c)
      PROVE  QuietEffect
  BY <1>8, ArtifactsPolledType DEF PassOver
<1> QED BY <1>2, <1>3, <1>5, <1>6, <1>7, <1>8 DEF Mark

LEMMA SaveBatchFacts ==
    ASSUME TypeOK, SaveBatch
    PROVE  /\ UNCHANGED <<now, start, end, kv, abandoned>>
           /\ mem'.announcements = mem.announcements
           /\ mem'.lastSeen = Later(mem.lastSeen, NextWatermark)
           /\ sub' = sub \/ sub' = mem'
           /\ mem'.lastEnd \in {mem.lastEnd} \cup {endTimes[c] : c \in Conf}
<1>1. PICK latest \in {mem.lastEnd} \cup {endTimes[c] : c \in Conf} :
          mem' = [mem EXCEPT !.lastSeen = Later(@, NextWatermark), !.lastEnd = latest]
  BY DEF SaveBatch
<1>2. /\ mem'.announcements = mem.announcements
      /\ mem'.lastSeen = Later(mem.lastSeen, NextWatermark)
      /\ mem'.lastEnd = latest
  BY <1>1 DEF TypeOK, Subscription
<1> QED BY <1>2 DEF SaveBatch, WriteBack, googleVars

LEMMA EndCycleFacts ==
    ASSUME TypeOK, EndCycle
    PROVE  /\ UNCHANGED <<now, start, end, kv, abandoned, candidate, endTimes>>
           /\ mem' = sub' /\ pc' = "idle"
           /\ \/ sub' = sub
              \/ /\ sub'.announcements = mem.announcements
                 /\ sub'.lastSeen = mem.lastSeen /\ sub'.lastEnd = mem.lastEnd
<1>1. sub' = sub \/ sub' = [mem EXCEPT !.active = @ \ pruned]
  BY DEF EndCycle, WriteBack
<1>2. \/ sub' = sub
      \/ /\ sub'.announcements = mem.announcements
         /\ sub'.lastSeen = mem.lastSeen /\ sub'.lastEnd = mem.lastEnd
  BY <1>1 DEF TypeOK, Subscription
<1> QED BY <1>2 DEF EndCycle, googleVars, batchVars

-----------------------------------------------------------------------------
(* No conference is lost *)

LEMMA LostInit == Init => LostInv
BY DEF Init, LostInv, NoTimes, NewSubscription, TimesInOrder, WatermarksAreStarts, Watermark,
       NothingSkipped, BatchStarted, BatchInOrder, Started

LEMMA LostEnvironment ==
    ASSUME TypeOK, LostInv, Environment
    PROVE  LostInv'
<1> USE DEF LostInv, TimesInOrder, WatermarksAreStarts, Watermark, NothingSkipped,
            BatchStarted, BatchInOrder, Started, Kept
<1>1. CASE Tick
  BY <1>1 DEF Tick, TypeOK, Time
<1>2. ASSUME NEW c \in Conf, StartConference(c)
      PROVE  LostInv'
  <2>1. /\ start[c] = 0 /\ start' = [start EXCEPT ![c] = now]
        /\ \A d \in Conf : start[d] # 0 => start[d] < now
        /\ UNCHANGED <<now, end, kv, sub, mem, pc, todo, hadFailure, candidate, abandoned>>
    BY <1>2 DEF StartConference
  <2>2. start'[c] = now /\ \A d \in Conf : d # c => start'[d] = start[d]
    BY <2>1 DEF TypeOK
  <2>3. now \in Nat /\ now > 0 /\ start \in [Conf -> Nat] /\ todo \subseteq Conf
    BY BoundsAssumption DEF TypeOK, Time
  <2>4. sub.lastSeen < now /\ mem.lastSeen < now /\ candidate < now
    BY <2>1, <2>3
  <2>5. TimesInOrder'
    BY <2>1, <2>2, <2>3
  <2>6. WatermarksAreStarts'
    BY <2>1, <2>2
  <2>7. NothingSkipped(sub)' /\ NothingSkipped(mem)'
    BY <2>1, <2>2, <2>3, <2>4
  <2>8. BatchStarted'
    BY <2>1, <2>2, <2>3
  <2>9. BatchInOrder'
    BY <2>1, <2>2, <2>3, <2>4
  <2> QED BY <2>5, <2>6, <2>7, <2>8, <2>9
<1>3. ASSUME NEW c \in Conf, EndConference(c)
      PROVE  LostInv'
  <2>1. TimesInOrder'
    BY <1>3 DEF EndConference, TypeOK
  <2> QED BY <1>3, <2>1 DEF EndConference
<1> QED BY <1>1, <1>2, <1>3 DEF Environment

LEMMA LostAnnounce ==
    ASSUME TypeOK, LostInv, Announce
    PROVE  LostInv'
<1>1. PICK c \in Conf : AnnounceEffect(c)
  BY AnnounceHasEffect DEF Announce
<1>2. ASSUME NEW d \in Conf, Kept(mem, d)
      PROVE  Kept(mem, d)'
  <2>1. mem \in Subscription
    BY DEF TypeOK
  <2> QED BY <1>1, <1>2, <2>1 DEF AnnounceEffect, Kept, Subscription
<1>3. NothingSkipped(mem)' /\ NothingSkipped(sub)'
  BY <1>1, <1>2 DEF LostInv, NothingSkipped, AnnounceEffect, Started, Kept
<1>4. TimesInOrder' /\ WatermarksAreStarts'
  BY <1>1 DEF LostInv, TimesInOrder, WatermarksAreStarts, Watermark, AnnounceEffect, Started
<1>5. BatchStarted' /\ BatchInOrder'
  BY <1>1 DEF AnnounceEffect, BatchStarted, BatchInOrder
<1> QED BY <1>3, <1>4, <1>5 DEF LostInv

LEMMA LostListRecords ==
    ASSUME TypeOK, LostInv, ListRecords
    PROVE  LostInv'
<1>1. /\ UNCHANGED <<now, start, end, kv, sub, abandoned>>
      /\ candidate' = mem.lastSeen /\ pc' = "classify"
      /\ todo' = StartedSince(mem.lastSeen) \/ todo' = {}
  BY DEF ListRecords, googleVars
<1>2. mem'.lastSeen = mem.lastSeen /\ mem'.announcements = mem.announcements
  BY DEF ListRecords, TypeOK, Subscription
<1>3. start \in [Conf -> Nat] /\ mem.lastSeen \in Nat
  BY DEF TypeOK, Time, Subscription
<1>4. TimesInOrder' /\ WatermarksAreStarts'
  BY <1>1, <1>2 DEF LostInv, TimesInOrder, WatermarksAreStarts, Watermark, Started
<1>5. NothingSkipped(mem)' /\ NothingSkipped(sub)'
  BY <1>1, <1>2 DEF LostInv, NothingSkipped, Started, Kept
<1>6. BatchStarted'
  BY <1>1, <1>3 DEF BatchStarted, StartedSince, Started
<1>7. BatchInOrder'
  <2> SUFFICES ASSUME NEW c \in Conf, c \notin todo', Started(c)'
               PROVE  Kept(mem, c)' \/ (candidate' < start'[c] /\ todo' = {})
    BY DEF BatchInOrder
  <2>1. CASE start[c] <= mem.lastSeen
    BY <1>1, <1>5, <2>1, <1>2 DEF NothingSkipped, Started
  <2>2. CASE start[c] > mem.lastSeen
    BY <1>1, <1>3, <2>2 DEF StartedSince
  <2> QED BY <1>3, <2>1, <2>2
<1> QED BY <1>4, <1>5, <1>6, <1>7 DEF LostInv

LEMMA LostClassify ==
    ASSUME TypeOK, LostInv, Classify
    PROVE  LostInv'
<1>1. PICK c \in Conf : ClassifyEffect(c)
  BY ClassifyHasEffect
<1>2. start \in [Conf -> Nat] /\ candidate \in Nat /\ todo \subseteq Conf
  BY DEF TypeOK, Time
<1>3. ASSUME NEW d \in Conf, Kept(mem, d)
      PROVE  Kept(mem, d)'
  <2>1. mem \in Subscription
    BY DEF TypeOK
  <2> QED BY <1>1, <1>3, <2>1, NoInstanceAssumption DEF ClassifyEffect, Kept, Subscription
<1>4. NothingSkipped(mem)' /\ NothingSkipped(sub)'
  BY <1>1, <1>3 DEF LostInv, NothingSkipped, ClassifyEffect, Started, Kept
<1>5. BatchStarted' /\ Started(c)
  BY <1>1 DEF ClassifyEffect, LostInv, BatchStarted, Started
<1>6. candidate' = candidate \/ candidate' = start[c]
  BY <1>1 DEF ClassifyEffect, Handled, Later
<1>7. TimesInOrder' /\ WatermarksAreStarts'
  BY <1>1, <1>6
  DEF LostInv, TimesInOrder, WatermarksAreStarts, Watermark, ClassifyEffect, Started
<1>8. BatchInOrder'
  <2> SUFFICES ASSUME ~hadFailure', NEW d \in Conf, d \notin todo', Started(d)'
               PROVE  \/ Kept(mem, d)'
                      \/ candidate' < start'[d] /\ \A e \in todo' : start'[e] < start'[d]
    BY DEF BatchInOrder
  <2>1. Kept(mem, c)' /\ Handled(c)
    BY <1>1 DEF ClassifyEffect
  <2>2. CASE d = c
    BY <2>1, <2>2
  <2>3. CASE d # c
    <3>1. d \notin todo /\ Started(d) /\ pc = "classify" /\ ~hadFailure /\ c \in todo
      BY <1>1, <2>1, <2>3 DEF ClassifyEffect, Handled, Started
    <3>2. \/ Kept(mem, d)
          \/ candidate < start[d] /\ \A e \in todo : start[e] < start[d]
      BY <3>1 DEF LostInv, BatchInOrder
    <3>3. start' = start /\ todo' \subseteq todo
      BY <1>1 DEF ClassifyEffect
    <3> QED BY <1>3, <1>6, <3>1, <3>2, <3>3
  <2> QED BY <2>2, <2>3
<1> QED BY <1>4, <1>5, <1>7, <1>8 DEF LostInv

LEMMA LostSaveBatch ==
    ASSUME TypeOK, LostInv, SaveBatch
    PROVE  LostInv'
<1>1. /\ mem.lastSeen \in Nat /\ candidate \in Nat /\ start \in [Conf -> Nat]
      /\ pc = "classify" /\ todo = {} /\ pc' = "resolve" /\ candidate' = 0
  BY DEF TypeOK, Time, Subscription, SaveBatch
<1>2. mem'.lastSeen = mem.lastSeen \/ (~hadFailure /\ mem'.lastSeen = candidate)
  BY SaveBatchFacts DEF Later, NextWatermark
<1>3. NothingSkipped(mem)'
  <2> SUFFICES ASSUME NEW c \in Conf, Started(c)', start'[c] <= mem'.lastSeen
               PROVE  Kept(mem, c)'
    BY DEF NothingSkipped
  <2>1. Started(c) /\ start[c] <= mem'.lastSeen
    BY SaveBatchFacts DEF Started
  <2>2. Kept(mem, c)
    BY <1>1, <1>2, <2>1 DEF LostInv, NothingSkipped, BatchInOrder
  <2> QED BY <2>2, SaveBatchFacts DEF Kept
<1>4. NothingSkipped(sub)'
  <2>1. CASE sub' = mem'
    BY <1>3, <2>1 DEF NothingSkipped, Kept
  <2>2. CASE sub' = sub
    BY <2>2, SaveBatchFacts DEF LostInv, NothingSkipped, Kept, Started
  <2> QED BY <2>1, <2>2, SaveBatchFacts
<1>5. TimesInOrder' /\ WatermarksAreStarts'
  BY <1>1, <1>2, SaveBatchFacts
  DEF LostInv, TimesInOrder, WatermarksAreStarts, Watermark, Started
<1>6. BatchStarted' /\ BatchInOrder'
  BY <1>1 DEF BatchStarted, BatchInOrder
<1> QED BY <1>3, <1>4, <1>5, <1>6 DEF LostInv

LEMMA LostStep == TypeInv /\ LostInv /\ [Next]_vars => LostInv'
<1> SUFFICES ASSUME TypeOK, LostInv, [Next]_vars
             PROVE  LostInv'
  BY DEF TypeInv
<1> USE DEF LostInv, TimesInOrder, WatermarksAreStarts, Watermark, NothingSkipped,
            BatchStarted, BatchInOrder, Started, Kept
<1>1. CASE BeginCycle
  BY <1>1 DEF BeginCycle, googleVars, batchVars
<1>2. CASE (\E c \in Conf : ResolveEnd(c)) \/ BeginMarking \/ Mark
  BY <1>2, ResolveOrMarkHasEffect DEF QuietEffect
<1>3. CASE EndCycle
  BY <1>3, EndCycleFacts
<1>4. CASE Crash
  BY <1>4 DEF Crash, googleVars
<1>5. CASE UNCHANGED vars
  BY <1>5 DEF vars
<1> QED BY <1>1, <1>2, <1>3, <1>4, <1>5, LostEnvironment, LostAnnounce, LostListRecords,
           LostClassify, LostSaveBatch
        DEF Next, PollStep

(* Whatever fails, and wherever the node stops, the stored watermark never    *)
(* passes a conference that has neither a stored post state nor a pending    *)
(* announcement and was not given up.                                       *)
THEOREM ConferencesAreKept == Spec => []NoConferenceLost
<1>1. Init => TypeInv /\ LostInv
  BY TypeInit, LostInit DEF TypeInv, Init, DuePending
<1>2. TypeInv /\ LostInv /\ [Next]_vars => (TypeInv /\ LostInv)'
  BY TypeStep, LostStep
<1>3. LostInv => NoConferenceLost
  BY DEF LostInv, NothingSkipped, NoConferenceLost, Started, Kept
<1> QED BY <1>1, <1>2, <1>3, PTL DEF Spec

-----------------------------------------------------------------------------
(* No conference is silenced without reason *)

LEMMA SuppressionInit == Init => SuppressionInv
BY DEF Init, SuppressionInv, NoTimes, NewSubscription, EndsAreReal, RealEnd,
       AnnouncementsScheduled, DuePending, SuppressedWereStarted, SuppressionJustified, NoState

(* Google never changes a time it has reported, so a reason stays a reason.   *)
LEMMA TimesStable ==
    ASSUME TypeOK, TimesInOrder, Next, NEW c \in Conf
    PROVE  /\ start[c] # 0 => start'[c] = start[c]
           /\ end[c] # 0 => end'[c] = end[c]
<1>1. CASE UNCHANGED <<start, end>>
  BY <1>1
<1>2. CASE Environment
  BY <1>2 DEF Environment, Tick, StartConference, EndConference, TypeOK
<1>3. CASE Announce
  <2>1. PICK d \in Conf : AnnounceEffect(d)
    BY <1>3, AnnounceHasEffect DEF Announce
  <2> QED BY <2>1 DEF AnnounceEffect
<1>4. CASE Classify
  BY <1>4, ClassifyHasEffect DEF ClassifyEffect
<1>5. CASE BeginCycle \/ ListRecords \/ SaveBatch \/ EndCycle \/ Crash
  BY <1>5 DEF BeginCycle, ListRecords, SaveBatch, EndCycle, Crash, googleVars
<1>6. CASE (\E d \in Conf : ResolveEnd(d)) \/ BeginMarking \/ Mark
  BY <1>6, ResolveOrMarkHasEffect DEF QuietEffect
<1> QED BY <1>2, <1>3, <1>4, <1>5, <1>6 DEF Next, PollStep

Reason(c) == \/ \E d \in Conf \ {c} : RejoinOf(c, d)
             \/ \E i \in Instance : ScheduledFor(c, i) /\ EndedEarly(c, i)

LEMMA ReasonStable ==
    ASSUME TypeOK, TimesInOrder, Next, NEW c \in Conf, Started(c), Reason(c)
    PROVE  Reason(c)'
<1>1. start'[c] = start[c]
  BY TimesStable DEF Started
<1>2. \A d \in Conf : end[d] # 0 => end'[d] = end[d]
  BY TimesStable
<1>3. ASSUME NEW d \in Conf \ {c}, RejoinOf(c, d)
      PROVE  RejoinOf(c, d)'
  BY <1>1, <1>2, <1>3 DEF RejoinOf
<1>4. ASSUME NEW i \in Instance, ScheduledFor(c, i), EndedEarly(c, i)
      PROVE  ScheduledFor(c, i)' /\ EndedEarly(c, i)'
  BY <1>1, <1>2, <1>4 DEF ScheduledFor, EndedEarly, FindScheduledInstance, Nearest, Distance
<1> QED BY <1>3, <1>4 DEF Reason

(* The cooldown suppresses only a rejoin: the end that anchors it is another  *)
(* conference's, never the record's own.                                    *)
LEMMA SuppressHasReason ==
    ASSUME TypeOK, TimesInOrder, EndsAreReal, NEW c \in Conf, NEW kinds, Suppress(c, kinds),
           Started(c)
    PROVE  Reason(c)
<1>1. PICK anchor \in KnownEndsBefore(c) : Suppresses(anchor, c)
  BY DEF Suppress
<1>2. anchor # 0 /\ start[c] - anchor < Cooldown
  BY <1>1 DEF Suppresses
<1>3. anchor \in KnownEnds(c) /\ anchor <= start[c]
  BY <1>1, <1>2 DEF KnownEndsBefore
<1>4. PICK d \in Conf : end[d] = anchor /\ d # c
  <2>1. CASE anchor = mem.lastEnd
    <3>1. PICK d \in Conf : end[d] = anchor
      BY <1>2, <2>1 DEF EndsAreReal, RealEnd
    <3>2. start[d] < end[d]
      BY <1>2, <3>1 DEF TimesInOrder
    <3>3. start[d] \in Nat /\ end[d] \in Nat
      BY DEF TypeOK, Time
    <3> QED BY <1>3, <3>1, <3>2, <3>3
  <2>2. CASE \E d \in Conf \ {c} : anchor = endTimes[d]
    BY <1>2, <2>2 DEF EndsAreReal
  <2> QED BY <1>3, <2>1, <2>2 DEF KnownEnds
<1>5. RejoinOf(c, d)
  BY <1>2, <1>3, <1>4 DEF RejoinOf
<1> QED BY <1>4, <1>5 DEF Reason

(* A state that is suppressed after a step was so before, or the step had a   *)
(* reason to store it.                                                      *)
LEMMA SuppressedWithReason ==
    ASSUME TypeOK, LostInv, SuppressionInv, Next, NEW c \in Conf,
           kv'[c].kind = "suppressed", kv[c].kind # "suppressed"
    PROVE  Started(c) /\ Reason(c)
<1>1. CASE Announce
  <2>1. PICK d \in Conf : AnnouncementRefreshFails(d) \/ DropAnnouncement(d) \/ AnnounceDue(d)
    BY <1>1 DEF Announce
  <2>2. AnnounceEffect(d)
    BY <2>1, AnnounceHasEffect
  <2>3. c = d
    BY <2>2 DEF AnnounceEffect
  <2>4. ~AnnouncementRefreshFails(d)
    BY <2>3 DEF AnnouncementRefreshFails
  <2>5. ~AnnounceDue(d)
    BY <2>3 DEF AnnounceDue, TypeOK, PostedState
  <2>6. DropAnnouncement(c) /\ mem.announcements[c] # NoInstance
    BY <2>1, <2>2, <2>3, <2>4, <2>5 DEF AnnounceEffect, SuppressionInv, DuePending
  <2>7. Started(c) /\ ScheduledFor(c, mem.announcements[c])
    BY <2>6 DEF SuppressionInv, AnnouncementsScheduled
  <2>8. EndedEarly(c, mem.announcements[c]) /\ mem.announcements[c] \in Instance
    BY <2>6, <2>7 DEF DropAnnouncement, ScheduledFor
  <2> QED BY <2>7, <2>8 DEF Reason
<1>2. CASE Classify
  <2>1. PICK d \in Conf : ClassifyEffect(d)
    BY <1>2, ClassifyHasEffect
  <2>2. c = d
    BY <2>1 DEF ClassifyEffect
  <2>3. PICK kinds : Suppress(c, kinds)
    BY <2>1, <2>2 DEF ClassifyEffect
  <2>4. Started(c)
    BY <2>1, <2>2 DEF ClassifyEffect, LostInv, BatchStarted
  <2> QED BY <2>3, <2>4, SuppressHasReason DEF LostInv, SuppressionInv
<1>3. CASE Environment \/ BeginCycle \/ ListRecords \/ SaveBatch \/ EndCycle \/ Crash
  BY <1>3
  DEF Environment, Tick, StartConference, EndConference, BeginCycle, ListRecords, SaveBatch,
      EndCycle, Crash
<1>4. CASE (\E d \in Conf : ResolveEnd(d)) \/ BeginMarking \/ Mark
  BY <1>4, ResolveOrMarkHasEffect DEF QuietEffect
<1> QED BY <1>1, <1>2, <1>3, <1>4 DEF Next, PollStep

LEMMA RealEndStable ==
    ASSUME TypeOK, TimesInOrder, Next
    PROVE  \A t : RealEnd(t) => (t = 0 \/ \E c \in Conf : end'[c] = t)
<1>1. \A c \in Conf : end[c] # 0 => end'[c] = end[c]
  BY TimesStable
<1> QED BY <1>1 DEF RealEnd

LEMMA MarkKeepsEnds ==
    ASSUME TypeOK, Mark
    PROVE  mem'.lastEnd = mem.lastEnd /\ UNCHANGED endTimes
<1>1. ASSUME NEW c \in Conf, NEW i \in Instance, MarkBindingEnded(c, i)
      PROVE  mem'.lastEnd = mem.lastEnd /\ UNCHANGED endTimes
  <2>1. mem' = [mem EXCEPT !.bindings = [mem.bindings EXCEPT ![i].ended = TRUE]]
    BY <1>1 DEF MarkBindingEnded, TypeOK, Subscription
  <2>2. mem'.lastEnd = mem.lastEnd
    BY <2>1 DEF TypeOK, Subscription
  <2> QED BY <1>1, <2>2 DEF MarkBindingEnded, markUnchanged, batchVars
<1> QED BY <1>1 DEF Mark, MarkUnboundEnded, FlagBoundEnded, PassOver, markUnchanged, batchVars

(* Every end the cycle comes to hold is one Google recorded.                  *)
LEMMA EndsRecorded ==
    ASSUME TypeOK, EndsAreReal, Next
    PROVE  /\ RealEnd(sub'.lastEnd) /\ RealEnd(mem'.lastEnd)
           /\ \A c \in Conf : endTimes'[c] \in {0, end[c]}
<1> USE DEF EndsAreReal
<1>1. mem \in Subscription
  BY DEF TypeOK
<1>2. \A c \in Conf : RealEnd(endTimes[c]) /\ RealEnd(end[c]) /\ RealEnd(0)
  BY DEF RealEnd
<1>3. CASE Environment
  BY <1>3 DEF Environment, Tick, StartConference, EndConference
<1>4. CASE BeginCycle \/ Crash
  BY <1>4 DEF BeginCycle, Crash, batchVars, NoTimes
<1>5. CASE Announce
  <2>1. PICK c \in Conf : AnnounceEffect(c)
    BY <1>5, AnnounceHasEffect DEF Announce
  <2> QED BY <2>1 DEF AnnounceEffect
<1>6. CASE ListRecords
  <2>1. sub' = sub /\ mem' = [mem EXCEPT !.bindings = PruneExpiredEventBindings(mem.bindings)]
    BY <1>6 DEF ListRecords
  <2>2. mem'.lastEnd = mem.lastEnd
    BY <1>1, <2>1 DEF Subscription
  <2>3. \A c \in Conf : endTimes'[c] \in {0, end[c]}
    BY <1>6 DEF ListRecords
  <2> QED BY <2>1, <2>2, <2>3
<1>7. CASE Classify
  BY <1>7, ClassifyHasEffect DEF ClassifyEffect
<1>8. CASE SaveBatch
  <2>1. endTimes' = endTimes
    BY <1>8 DEF SaveBatch
  <2> QED BY <1>2, <1>8, <2>1, SaveBatchFacts
<1>9. CASE \E c \in Conf : ResolveEnd(c)
  <2>1. PICK c \in Conf : ResolveEnd(c)
    BY <1>9
  <2>2. PICK known \in {0, endTimes[c], end[c]} :
            mem' = mem \/ mem' = [mem EXCEPT !.lastEnd = Later(@, known)]
    BY <2>1 DEF ResolveEnd
  <2>3. mem'.lastEnd = mem.lastEnd \/ mem'.lastEnd = known
    BY <1>1, <2>2 DEF Subscription, Later
  <2>4. RealEnd(mem'.lastEnd)
    BY <1>2, <2>3
  <2> QED BY <2>1, <2>4 DEF ResolveEnd, batchVars
<1>10. CASE BeginMarking
  BY <1>10 DEF BeginMarking, NoTimes
<1>11. CASE Mark
  <2>1. sub' = sub
    BY <1>11, ResolveOrMarkHasEffect DEF QuietEffect
  <2> QED BY <1>11, <2>1, MarkKeepsEnds
<1>12. CASE EndCycle
  BY <1>12, EndCycleFacts
<1> QED BY <1>3, <1>4, <1>5, <1>6, <1>7, <1>8, <1>9, <1>10, <1>11, <1>12 DEF Next, PollStep

LEMMA EndsStep ==
    ASSUME TypeOK, TimesInOrder, EndsAreReal, Next
    PROVE  EndsAreReal'
<1>1. /\ RealEnd(sub'.lastEnd) /\ RealEnd(mem'.lastEnd)
      /\ \A c \in Conf : endTimes'[c] \in {0, end[c]}
  BY EndsRecorded
<1>2. \A t : RealEnd(t) => (t = 0 \/ \E c \in Conf : end'[c] = t)
  BY RealEndStable
<1>3. RealEnd(sub.lastEnd)' /\ RealEnd(mem.lastEnd)'
  BY <1>1, <1>2 DEF RealEnd
<1>4. \A c \in Conf : endTimes'[c] \in {0, end'[c]}
  BY <1>1, TimesStable
<1> QED BY <1>3, <1>4 DEF EndsAreReal

(* An announcement the subscription or the cycle's copy comes to hold was     *)
(* held by one of them before, or is made now for a started conference.      *)
LEMMA AnnouncementsRecorded ==
    ASSUME TypeOK, LostInv, SuppressionInv, Next, NEW c \in Conf
    PROVE  /\ sub'.announcements[c] # NoInstance =>
                 Started(c) /\ ScheduledFor(c, sub'.announcements[c])
           /\ mem'.announcements[c] # NoInstance =>
                 Started(c) /\ ScheduledFor(c, mem'.announcements[c])
<1> USE DEF SuppressionInv, AnnouncementsScheduled
<1>1. mem \in Subscription
  BY DEF TypeOK
<1>2. CASE Environment \/ BeginCycle \/ Crash
  BY <1>2 DEF Environment, Tick, StartConference, EndConference, BeginCycle, Crash
<1>3. CASE Announce
  <2>1. PICK d \in Conf : AnnounceEffect(d)
    BY <1>3, AnnounceHasEffect DEF Announce
  <2> QED BY <1>1, <2>1 DEF AnnounceEffect, Subscription
<1>4. CASE ListRecords
  <2>1. sub' = sub /\ mem' = [mem EXCEPT !.bindings = PruneExpiredEventBindings(mem.bindings)]
    BY <1>4 DEF ListRecords
  <2>2. mem'.announcements = mem.announcements
    BY <1>1, <2>1 DEF Subscription
  <2> QED BY <2>1, <2>2
<1>5. CASE Classify
  <2>1. PICK d \in Conf : ClassifyEffect(d)
    BY <1>5, ClassifyHasEffect
  <2>2. Started(d) /\ sub' = sub
    BY <2>1 DEF ClassifyEffect, LostInv, BatchStarted
  <2> QED BY <1>1, <2>1, <2>2 DEF ClassifyEffect, Subscription
<1>6. CASE SaveBatch
  BY <1>6, SaveBatchFacts
<1>7. CASE (\E d \in Conf : ResolveEnd(d)) \/ BeginMarking \/ Mark
  BY <1>7, ResolveOrMarkHasEffect DEF QuietEffect
<1>8. CASE EndCycle
  BY <1>8, EndCycleFacts
<1> QED BY <1>2, <1>3, <1>4, <1>5, <1>6, <1>7, <1>8 DEF Next, PollStep

LEMMA AnnouncementsStep ==
    ASSUME TypeOK, LostInv, SuppressionInv, Next
    PROVE  AnnouncementsScheduled(sub)' /\ AnnouncementsScheduled(mem)'
<1>1. ASSUME NEW c \in Conf, sub'.announcements[c] # NoInstance
      PROVE  Started(c)' /\ ScheduledFor(c, sub.announcements[c])'
  <2>1. Started(c) /\ ScheduledFor(c, sub'.announcements[c])
    BY <1>1, AnnouncementsRecorded
  <2>2. start'[c] = start[c]
    BY <2>1, TimesStable DEF Started, LostInv
  <2> QED BY <2>1, <2>2 DEF Started, ScheduledFor, FindScheduledInstance, Nearest, Distance
<1>2. ASSUME NEW c \in Conf, mem'.announcements[c] # NoInstance
      PROVE  Started(c)' /\ ScheduledFor(c, mem.announcements[c])'
  <2>1. Started(c) /\ ScheduledFor(c, mem'.announcements[c])
    BY <1>2, AnnouncementsRecorded
  <2>2. start'[c] = start[c]
    BY <2>1, TimesStable DEF Started, LostInv
  <2> QED BY <2>1, <2>2 DEF Started, ScheduledFor, FindScheduledInstance, Nearest, Distance
<1> QED BY <1>1, <1>2 DEF AnnouncementsScheduled

LEMMA SuppressionStep == TypeInv /\ LostInv /\ SuppressionInv /\ [Next]_vars => SuppressionInv'
<1> SUFFICES ASSUME TypeOK, LostInv, SuppressionInv, [Next]_vars
             PROVE  SuppressionInv'
  BY DEF TypeInv
<1>1. CASE Next
  <2>1. EndsAreReal'
    BY <1>1, EndsStep DEF LostInv, SuppressionInv
  <2>2. AnnouncementsScheduled(sub)' /\ AnnouncementsScheduled(mem)'
    BY <1>1, AnnouncementsStep
  <2>3. DuePending'
    BY <1>1, DuePendingStep DEF SuppressionInv
  <2>4. ASSUME NEW c \in Conf, kv'[c].kind = "suppressed"
        PROVE  Started(c)' /\ Reason(c)'
    <3>1. Started(c) /\ Reason(c)
      <4>1. CASE kv[c].kind = "suppressed"
        BY <4>1 DEF SuppressionInv, SuppressedWereStarted, SuppressionJustified, Reason
      <4>2. CASE kv[c].kind # "suppressed"
        BY <1>1, <2>4, <4>2, SuppressedWithReason
      <4> QED BY <4>1, <4>2
    <3>2. Started(c)'
      BY <1>1, <3>1, TimesStable DEF Started, LostInv
    <3> QED BY <1>1, <3>1, <3>2, ReasonStable DEF LostInv
  <2>5. SuppressedWereStarted' /\ SuppressionJustified'
    BY <2>4 DEF SuppressedWereStarted, SuppressionJustified, Reason
  <2> QED BY <2>1, <2>2, <2>3, <2>5 DEF SuppressionInv
<1>2. CASE UNCHANGED vars
  BY <1>2
  DEF vars, SuppressionInv, EndsAreReal, RealEnd, AnnouncementsScheduled, DuePending, Started,
      SuppressedWereStarted, SuppressionJustified, ScheduledFor, FindScheduledInstance, Nearest,
      Distance, RejoinOf, EndedEarly
<1> QED BY <1>1, <1>2

(* Whatever fails, a conference that gets no post was a rejoin within the     *)
(* cooldown of another conference's real end, or was over before its event.  *)
THEOREM SilenceIsJustified == Spec => []SuppressionJustified
<1>1. Init => TypeInv /\ LostInv /\ SuppressionInv
  BY TypeInit, LostInit, SuppressionInit DEF TypeInv, Init, DuePending
<1>2. TypeInv /\ LostInv /\ SuppressionInv /\ [Next]_vars
          => (TypeInv /\ LostInv /\ SuppressionInv)'
  BY TypeStep, LostStep, SuppressionStep
<1>3. SuppressionInv => SuppressionJustified
  BY DEF SuppressionInv
<1> QED BY <1>1, <1>2, <1>3, PTL DEF Spec
=============================================================================
