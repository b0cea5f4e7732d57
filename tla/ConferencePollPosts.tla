------------------------- MODULE ConferencePollPosts -------------------------
(* Proofs about the posts the poll cycle of ConferencePoll makes: what is     *)
(* announced stays tracked, the cooldown is kept towards every stored end, a *)
(* post is marked ended only when its meeting is over, conferences and       *)
(* events are announced once, each under the failures it withstands, and a   *)
(* failure costs a conference, or an event, at most one post more.          *)
EXTENDS ConferencePollSafety

-----------------------------------------------------------------------------
(* What an announcement and a classification come to, case by case *)

(* The conference's post state is stored, says posted, and has not expired.   *)
Live(c) == kv[c].kind = "posted" /\ now < kv[c].exp

LEMMA LiveIsPosted ==
    ASSUME TypeOK, NEW c \in Conf
    PROVE  /\ Live(c) <=> Get(c).kind = "posted"
           /\ Live(c) => Get(c) = kv[c] /\ PostOf(c) = kv[c].post
           /\ ~Live(c) => PostOf(c) = 0
<1>1. now \in Nat /\ kv[c].exp \in Nat
  BY BoundsAssumption DEF TypeOK, ConferencePostState
<1> QED BY <1>1 DEF Live, Get, PostOf, NoState

(* The fields an update of a subscription changes, and those it keeps. *)
LEMMA AnnouncementFields ==
    ASSUME NEW s \in Subscription, NEW c \in Conf, NEW v,
           NEW t, t = [s EXCEPT !.announcements[c] = v]
    PROVE  /\ t.active = s.active /\ t.bindings = s.bindings
           /\ t.lastSeen = s.lastSeen /\ t.lastEnd = s.lastEnd
           /\ t.announcements = [s.announcements EXCEPT ![c] = v]
BY DEF Subscription

LEMMA BindingFields ==
    ASSUME NEW s \in Subscription, NEW b, NEW t, t = [s EXCEPT !.bindings = b]
    PROVE  /\ t.active = s.active /\ t.announcements = s.announcements
           /\ t.lastSeen = s.lastSeen /\ t.lastEnd = s.lastEnd /\ t.bindings = b
BY DEF Subscription

LEMMA TrackFields ==
    ASSUME NEW s \in Subscription, NEW c \in Conf, NEW state,
           NEW t, t = Track(s, c, state)
    PROVE  /\ t.active = IF state.kind = "posted" THEN s.active \cup {c} ELSE s.active
           /\ t.announcements = s.announcements /\ t.bindings = s.bindings
BY DEF Track, Subscription

MayFail(kind) == kind \in FaultKinds

LEMMA FailedKindsMayFail ==
    ASSUME NEW kinds, Fail(kinds), NEW kind \in kinds
    PROVE  MayFail(kind)
BY DEF Fail, MayFail

JoinBinding(i, c) == [mem.bindings EXCEPT ![i].names = @ \cup {c}]

AnnouncementGone(c) == mem'.announcements = [mem.announcements EXCEPT ![c] = NoInstance]

(* The ways an announcement that is due can go.                               *)
StaysPending(c, i) ==
    /\ mem' = mem /\ kv' = kv /\ abandoned' = abandoned
    /\ UNCHANGED changed \/ changed' = TRUE
    /\ \/ MayFail("google") /\ posts' = posts
       \/ MayFail("kvstate") /\ (posts' = posts \/ (CreatePost(c, i) /\ mem.bindings[i].post = 0))
       \/ MayFail("post") /\ posts' = posts /\ mem.bindings[i].post = 0

GivenUp(c) ==
    /\ AnnouncementGone(c) /\ changed' = TRUE
    /\ mem'.active = mem.active /\ mem'.bindings = mem.bindings
    /\ kv' = kv /\ abandoned' = abandoned \cup {c} /\ posts' = posts

FoundOver(c) ==
    /\ AnnouncementGone(c) /\ changed' = TRUE
    /\ mem'.active = mem.active /\ mem'.bindings = mem.bindings
    /\ kv' = [kv EXCEPT ![c] = SuppressedState] /\ abandoned' = abandoned /\ posts' = posts

JoinsPost(c, i, p) ==
    /\ AnnouncementGone(c) /\ changed' = TRUE
    /\ mem'.active = mem.active \cup {c} /\ mem'.bindings = JoinBinding(i, c)
    /\ p # 0 /\ p = mem.bindings[i].post
    /\ kv' = [kv EXCEPT ![c] = PostedState(p)] /\ abandoned' = abandoned /\ posts' = posts

OpensPost(c, i, p) ==
    /\ AnnouncementGone(c) /\ changed' = TRUE
    /\ mem'.active = mem.active \cup {c}
    /\ mem'.bindings = [mem.bindings EXCEPT ![i] = NewBinding(c, p)]
    /\ mem.bindings[i].post = 0 /\ p = Len(posts) + 1 /\ CreatePost(c, i)
    /\ kv' = [kv EXCEPT ![c] = PostedState(p)] /\ abandoned' = abandoned

AnnounceCase(c, i, p) ==
    \/ StaysPending(c, i) \/ GivenUp(c) \/ FoundOver(c)
    \/ JoinsPost(c, i, p) \/ OpensPost(c, i, p)

AnnounceLeaves ==
    /\ pc = "announce" /\ pc' = "announce"
    /\ UNCHANGED <<now, start, end, endedPosts, sub, asOf, endTimes, hadFailure, candidate,
                   resolved, pruned>>
    /\ mem'.lastSeen = mem.lastSeen /\ mem'.lastEnd = mem.lastEnd

AnnounceComesTo(c, i) ==
    /\ AnnounceLeaves
    /\ i = mem.announcements[c] /\ i \in Instance
    /\ c \in todo /\ todo' = todo \ {c}
    /\ \E p \in Nat : AnnounceCase(c, i, p)

LEMMA AnnounceCases ==
    ASSUME TypeOK, DuePending, Announce
    PROVE  \E c \in Conf : \E i \in Instance : AnnounceComesTo(c, i)
<1>1. PICK c \in Conf : AnnouncementRefreshFails(c) \/ DropAnnouncement(c) \/ AnnounceDue(c)
  BY DEF Announce
<1>2. mem \in Subscription
  BY DEF TypeOK
<1> PICK i \in Instance : i = mem.announcements[c]
  BY <1>1, <1>2
  DEF AnnouncementRefreshFails, DropAnnouncement, AnnounceDue, DuePending, Subscription
<1>3. pc = "announce" /\ c \in todo /\ todo' = todo \ {c}
  BY <1>1
  DEF AnnouncementRefreshFails, DropAnnouncement, AnnounceDue
<1>4. /\ mem'.lastSeen = mem.lastSeen /\ mem'.lastEnd = mem.lastEnd
      /\ pc' = "announce"
  BY <1>1, AnnounceHasEffect DEF AnnounceEffect
<1>5. AnnounceLeaves
  BY <1>1, <1>3, <1>4
  DEF AnnounceLeaves, AnnouncementRefreshFails, DropAnnouncement, AnnounceDue, googleVars,
      chatVars, batchVars, markVars
<1>6. \E p \in Nat : AnnounceCase(c, i, p)
  <2> USE DEF AnnounceCase
  <2>1. [mem EXCEPT !.announcements[c] = NoInstance].announcements
            = [mem.announcements EXCEPT ![c] = NoInstance]
        /\ [mem EXCEPT !.announcements[c] = NoInstance].active = mem.active
        /\ [mem EXCEPT !.announcements[c] = NoInstance].bindings = mem.bindings
    BY <1>2, AnnouncementFields
  <2>2. CASE AnnouncementRefreshFails(c)
    <3>1. MayFail("google")
      BY <2>2 DEF AnnouncementRefreshFails, Fail, MayFail
    <3>2. /\ kv' = kv /\ posts' = posts
          /\ \/ mem' = mem /\ abandoned' = abandoned /\ UNCHANGED changed
             \/ /\ mem' = [mem EXCEPT !.announcements[c] = NoInstance]
                /\ abandoned' = abandoned \cup {c} /\ changed' = TRUE
      BY <2>2 DEF AnnouncementRefreshFails, chatVars
    <3>3. StaysPending(c, i) \/ GivenUp(c)
      BY <2>1, <3>1, <3>2 DEF GivenUp, StaysPending, AnnouncementGone
    <3> QED BY <3>3
  <2>3. CASE DropAnnouncement(c)
    <3>1. GivenUp(c) \/ FoundOver(c)
      BY <2>1, <2>3 DEF DropAnnouncement, GivenUp, FoundOver, AnnouncementGone, chatVars
    <3> QED BY <3>1
  <2>4. CASE AnnounceDue(c)
    <3> PICK p \in Nat : p = mem.bindings[i].post
      BY <1>2 DEF Subscription, EventPostBinding, PostId
    <3>1. PICK q \in Nat : q = Len(posts) + 1
      BY DEF TypeOK
    <3>2. \/ mem' = mem /\ kv' = kv /\ posts' = posts /\ Fail({"kvstate"})
          \/ mem' = mem /\ kv' = kv /\ p = 0 /\ posts' = posts /\ Fail({"post"})
          \/ mem' = mem /\ kv' = kv /\ p = 0 /\ CreatePost(c, i) /\ Fail({"kvstate"})
          \/ /\ p # 0 /\ posts' = posts /\ kv' = [kv EXCEPT ![c] = PostedState(p)]
             /\ mem' = Announced([mem EXCEPT !.bindings[i].names = @ \cup {c}], c)
          \/ /\ p = 0 /\ CreatePost(c, i) /\ kv' = [kv EXCEPT ![c] = PostedState(q)]
             /\ mem' = Announced([mem EXCEPT !.bindings[i] = NewBinding(c, q)], c)
      BY <2>4, <3>1 DEF AnnounceDue
    <3>3. ASSUME NEW b, mem' = Announced([mem EXCEPT !.bindings = b], c)
          PROVE  /\ AnnouncementGone(c) /\ mem'.active = mem.active \cup {c}
                 /\ mem'.bindings = b
      BY <1>2, <3>3 DEF AnnouncementGone, Announced, Subscription
    <3>4. /\ [mem EXCEPT !.bindings[i].names = @ \cup {c}]
                = [mem EXCEPT !.bindings = JoinBinding(i, c)]
          /\ [mem EXCEPT !.bindings[i] = NewBinding(c, q)]
                = [mem EXCEPT !.bindings = [mem.bindings EXCEPT ![i] = NewBinding(c, q)]]
      BY <1>2, UpdateFacts DEF JoinBinding
    <3>5. changed' = TRUE /\ abandoned' = abandoned
      BY <2>4 DEF AnnounceDue
    <3>6. ASSUME p # 0, posts' = posts, kv' = [kv EXCEPT ![c] = PostedState(p)],
                 mem' = Announced([mem EXCEPT !.bindings[i].names = @ \cup {c}], c)
          PROVE  JoinsPost(c, i, p)
      <4>1. AnnouncementGone(c) /\ mem'.active = mem.active \cup {c}
            /\ mem'.bindings = JoinBinding(i, c)
        BY <3>3, <3>4, <3>6
      <4> QED BY <3>5, <3>6, <4>1 DEF JoinsPost
    <3>7. ASSUME p = 0, CreatePost(c, i), kv' = [kv EXCEPT ![c] = PostedState(q)],
                 mem' = Announced([mem EXCEPT !.bindings[i] = NewBinding(c, q)], c)
          PROVE  OpensPost(c, i, q)
      <4>1. AnnouncementGone(c) /\ mem'.active = mem.active \cup {c}
            /\ mem'.bindings = [mem.bindings EXCEPT ![i] = NewBinding(c, q)]
        BY <3>3, <3>4, <3>7
      <4> QED BY <3>1, <3>5, <3>7, <4>1 DEF OpensPost
    <3>8. ASSUME \/ mem' = mem /\ kv' = kv /\ posts' = posts /\ Fail({"kvstate"})
                 \/ mem' = mem /\ kv' = kv /\ p = 0 /\ posts' = posts /\ Fail({"post"})
                 \/ mem' = mem /\ kv' = kv /\ p = 0 /\ CreatePost(c, i) /\ Fail({"kvstate"})
          PROVE  StaysPending(c, i)
      <4>1. Fail({"kvstate"}) => MayFail("kvstate")
        BY DEF Fail, MayFail
      <4>2. Fail({"post"}) => MayFail("post")
        BY DEF Fail, MayFail
      <4> QED BY <3>5, <3>8, <4>1, <4>2 DEF StaysPending
    <3>9. StaysPending(c, i) \/ JoinsPost(c, i, p) \/ OpensPost(c, i, q)
      BY <3>2, <3>6, <3>7, <3>8
    <3> QED BY <3>1, <3>9
  <2> QED BY <1>1, <2>2, <2>3, <2>4
<1> QED BY <1>3, <1>5, <1>6 DEF AnnounceComesTo

(* The post an attempt creates whose state is then not stored is still one    *)
(* the calendar or the cooldown allowed.                                    *)
PostAllowed(c) ==
    posts' # posts => \/ \E i \in Instance : CreatePost(c, i) /\ mem.bindings[i].post = 0
                      \/ CreatePost(c, NoInstance) /\ \E kinds : PostUnscheduled(c, kinds)

(* The ways a record of the batch is classified. *)
StaysUnhandled(c) ==
    /\ Unhandled /\ kv' = kv /\ mem' = mem /\ UNCHANGED changed
    /\ \/ MayFail("kvread") /\ posts' = posts
       \/ MayFail("post") /\ posts' = posts
       \/ MayFail("kvstate") /\ PostAllowed(c)

SeenAgain(c) ==
    /\ Get(c).kind # "none" /\ Handled(c)
    /\ kv' = kv /\ posts' = posts /\ NoFailure
    /\ mem'.announcements = mem.announcements /\ mem'.bindings = mem.bindings
    /\ mem'.active = IF Live(c) THEN mem.active \cup {c} ELSE mem.active
    /\ changed' = TRUE \/ (mem' = mem /\ UNCHANGED changed)

Deferred(c, i) ==
    /\ Get(c).kind = "none" /\ Handled(c) /\ changed' = TRUE
    /\ ScheduledFor(c, i) /\ now < InstStart[i]
    /\ kv' = kv /\ posts' = posts /\ NoFailure
    /\ mem'.active = mem.active /\ mem'.bindings = mem.bindings
    /\ \/ mem.announcements[c] # NoInstance /\ mem'.announcements = mem.announcements
       \/ /\ mem.announcements[c] = NoInstance
          /\ mem'.announcements = [mem.announcements EXCEPT ![c] = i]

(* The decision's state is stored; unless it cannot be read back the record   *)
(* is handled, and tracked if it was announced.                             *)
DecisionStored(c, state, bindings) ==
    /\ Get(c).kind = "none" /\ changed' = TRUE
    /\ kv' = [kv EXCEPT ![c] = state]
    /\ mem'.announcements = mem.announcements /\ mem'.bindings = bindings
    /\ \/ /\ Handled(c)
          /\ mem'.active = IF state.kind = "posted" THEN mem.active \cup {c} ELSE mem.active
       \/ /\ MayFail("kvread")
          /\ Unhandled /\ mem'.active = mem.active

Silenced(c) == DecisionStored(c, SuppressedState, mem.bindings) /\ posts' = posts

BoundTo(c, i, p) ==
    /\ ScheduledFor(c, i) /\ p # 0 /\ p = mem.bindings[i].post
    /\ DecisionStored(c, PostedState(p), JoinBinding(i, c)) /\ posts' = posts

PostedAndBound(c, i, p) ==
    /\ ScheduledFor(c, i) /\ now >= InstStart[i] /\ mem.bindings[i].post = 0
    /\ p = Len(posts) + 1 /\ CreatePost(c, i)
    /\ DecisionStored(c, PostedState(p), [mem.bindings EXCEPT ![i] = NewBinding(c, p)])

PostedUnbound(c, p) ==
    /\ \E kinds : PostUnscheduled(c, kinds)
    /\ p = Len(posts) + 1 /\ CreatePost(c, NoInstance)
    /\ DecisionStored(c, PostedState(p), mem.bindings)

ClassifyCase(c) ==
    \/ StaysUnhandled(c) \/ SeenAgain(c) \/ Silenced(c)
    \/ \E i \in Instance : Deferred(c, i)
    \/ \E i \in Instance : \E p \in Nat : BoundTo(c, i, p) \/ PostedAndBound(c, i, p)
    \/ \E p \in Nat : PostedUnbound(c, p)

ClassifyComesTo(c) ==
    /\ pc = "classify" /\ pc' = "classify" /\ c \in todo /\ todo' = todo \ {c}
    /\ UNCHANGED <<now, start, end, endedPosts, sub, asOf, endTimes, resolved, pruned, abandoned>>
    /\ mem'.lastSeen = mem.lastSeen /\ mem'.lastEnd = mem.lastEnd
    /\ PostAllowed(c)
    /\ ClassifyCase(c)

LEMMA RecordedComesTo ==
    ASSUME TypeOK, NEW c \in Conf, NEW state, NEW s \in Subscription, NEW kinds,
           s.announcements = mem.announcements, s.active = mem.active, Get(c).kind = "none",
           Recorded(c, state, s, kinds)
    PROVE  DecisionStored(c, state, s.bindings)
<1>1. /\ Track(s, c, state).bindings = s.bindings
      /\ Track(s, c, state).announcements = s.announcements
      /\ Track(s, c, state).active = IF state.kind = "posted" THEN s.active \cup {c} ELSE s.active
  BY TrackFields
<1> QED BY <1>1 DEF Recorded, DecisionStored, Fail, MayFail

LEMMA ClassifyCases ==
    ASSUME TypeOK, Classify
    PROVE  \E c \in Conf : ClassifyComesTo(c)
<1> USE DEF Unclassified, Classifying
<1>1. mem \in Subscription
  BY DEF TypeOK
<1>2. ASSUME NEW c \in Conf, Classifying(c), todo' = todo \ {c}, UNCHANGED classifyUnchanged,
             PostAllowed(c), ClassifyCase(c)
      PROVE  ClassifyComesTo(c)
  <2>1. /\ pc = "classify" /\ pc' = "classify"
        /\ mem'.lastSeen = mem.lastSeen /\ mem'.lastEnd = mem.lastEnd
    BY ClassifyHasEffect DEF ClassifyEffect
  <2> QED BY <1>2, <2>1 DEF classifyUnchanged, googleVars, markVars, ClassifyComesTo
<1>3. ASSUME NEW c \in Conf, ReadStateFails(c)
      PROVE  ClassifyComesTo(c)
  <2>1. StaysUnhandled(c) /\ posts' = posts
    BY <1>3 DEF ReadStateFails, StaysUnhandled, Fail, MayFail
  <2> QED BY <1>2, <1>3, <2>1 DEF ReadStateFails, PostAllowed, ClassifyCase
<1>4. ASSUME NEW c \in Conf, SeenBefore(c)
      PROVE  ClassifyComesTo(c)
  <2>1. mem' = Track(mem, c, Get(c)) /\ Get(c).kind # "none"
    BY <1>4 DEF SeenBefore
  <2>2. /\ mem'.announcements = mem.announcements /\ mem'.bindings = mem.bindings
        /\ mem'.active = IF Live(c) THEN mem.active \cup {c} ELSE mem.active
    BY <1>1, <2>1, LiveIsPosted DEF Track, Subscription
  <2>3. SeenAgain(c)
    BY <1>4, <2>1, <2>2 DEF SeenBefore, SeenAgain, TypeOK
  <2> QED BY <1>2, <1>4, <2>3 DEF SeenBefore, PostAllowed, ClassifyCase, SeenAgain
<1>5. ASSUME NEW c \in Conf, NEW i \in Instance, BindToAnnounced(c, i)
      PROVE  ClassifyComesTo(c)
  <2> DEFINE p == mem.bindings[i].post
             s == [mem EXCEPT !.bindings[i].names = @ \cup {c}]
  <2>1. s = [mem EXCEPT !.bindings = JoinBinding(i, c)] /\ s \in Subscription
    BY <1>1, UpdateFacts, SubscriptionUpdates DEF JoinBinding
  <2>2. /\ s.active = mem.active /\ s.announcements = mem.announcements
        /\ s.bindings = JoinBinding(i, c)
    BY <1>1, <2>1, BindingFields
  <2>3. p \in Nat
    BY <1>1 DEF Subscription, EventPostBinding, PostId
  <2>4. /\ Get(c).kind = "none" /\ ScheduledFor(c, i) /\ p # 0 /\ posts' = posts
        /\ \/ Recorded(c, PostedState(p), s, {})
           \/ NotRecorded({"kvstate"})
    BY <1>5 DEF BindToAnnounced
  <2>5. CASE Recorded(c, PostedState(p), s, {})
    <3>1. DecisionStored(c, PostedState(p), JoinBinding(i, c))
      BY <2>1, <2>2, <2>4, <2>5, RecordedComesTo
    <3>2. BoundTo(c, i, p)
      BY <2>4, <3>1 DEF BoundTo
    <3> HIDE DEF p, s
    <3>3. ClassifyCase(c)
      BY <2>3, <3>2 DEF ClassifyCase
    <3> QED BY <1>2, <1>5, <2>4, <3>3 DEF BindToAnnounced, PostAllowed
  <2>6. CASE NotRecorded({"kvstate"})
    <3>1. StaysUnhandled(c)
      BY <2>4, <2>6 DEF StaysUnhandled, NotRecorded, Fail, MayFail, PostAllowed
    <3> QED BY <1>2, <1>5, <2>4, <3>1 DEF BindToAnnounced, PostAllowed, ClassifyCase
  <2> QED BY <2>4, <2>5, <2>6
<1>6. ASSUME NEW c \in Conf, NEW i \in Instance, Defer(c, i)
      PROVE  ClassifyComesTo(c)
  <2>1. [mem EXCEPT !.announcements[c] = i].announcements = [mem.announcements EXCEPT ![c] = i]
        /\ [mem EXCEPT !.announcements[c] = i].active = mem.active
        /\ [mem EXCEPT !.announcements[c] = i].bindings = mem.bindings
    BY <1>1, AnnouncementFields
  <2>2. Deferred(c, i)
    BY <1>6, <2>1 DEF Defer, Deferred
  <2> QED BY <1>2, <1>6, <2>2 DEF Defer, Deferred, PostAllowed, ClassifyCase
<1>7. ASSUME NEW c \in Conf, NEW i \in Instance, PostScheduled(c, i)
      PROVE  ClassifyComesTo(c)
  <2>1. PICK p \in Nat : p = Len(posts) + 1
    BY DEF TypeOK
  <2> DEFINE b == [mem.bindings EXCEPT ![i] = NewBinding(c, p)]
             s == [mem EXCEPT !.bindings[i] = NewBinding(c, p)]
  <2>2. s = [mem EXCEPT !.bindings = b] /\ s \in Subscription
    <3>1. NewBinding(c, p) \in EventPostBinding
      BY <2>1, NewTypes DEF PostId
    <3> QED BY <1>1, <3>1, UpdateFacts, SubscriptionUpdates
  <2>3. s.active = mem.active /\ s.announcements = mem.announcements /\ s.bindings = b
    BY <1>1, <2>2, BindingFields
  <2>4. /\ Get(c).kind = "none" /\ ScheduledFor(c, i) /\ mem.bindings[i].post = 0
        /\ now >= InstStart[i]
        /\ \/ CreatePost(c, i) /\ Recorded(c, PostedState(p), s, {})
           \/ CreatePost(c, i) /\ NotRecorded({"kvstate"})
           \/ posts' = posts /\ NotRecorded({"post"})
    BY <1>7, <2>1 DEF PostScheduled
  <2>5. PostAllowed(c)
    BY <2>4 DEF PostAllowed
  <2>6. CASE CreatePost(c, i) /\ Recorded(c, PostedState(p), s, {})
    <3> HIDE DEF s, b
    <3>1. DecisionStored(c, PostedState(p), s.bindings)
      BY <2>2, <2>3, <2>4, <2>6, RecordedComesTo
    <3>2. PostedAndBound(c, i, p)
      BY <2>1, <2>3, <2>4, <2>6, <3>1 DEF PostedAndBound, b
    <3>3. ClassifyCase(c)
      BY <2>1, <3>2 DEF ClassifyCase
    <3> QED BY <1>2, <1>7, <2>5, <3>3 DEF PostScheduled
  <2>7. CASE \/ CreatePost(c, i) /\ NotRecorded({"kvstate"})
             \/ posts' = posts /\ NotRecorded({"post"})
    <3>1. StaysUnhandled(c)
      BY <2>4, <2>5, <2>7, FailedKindsMayFail DEF StaysUnhandled, NotRecorded
    <3> QED BY <1>2, <1>7, <2>5, <3>1 DEF PostScheduled, ClassifyCase
  <2> QED BY <2>4, <2>6, <2>7
<1>8. ASSUME NEW c \in Conf, NEW kinds, Suppress(c, kinds)
      PROVE  ClassifyComesTo(c)
  <2>1. /\ Get(c).kind = "none" /\ posts' = posts
        /\ Recorded(c, SuppressedState, mem, kinds) \/ NotRecorded(kinds \cup {"kvstate"})
    BY <1>8 DEF Suppress
  <2>2. CASE Recorded(c, SuppressedState, mem, kinds)
    <3>1. DecisionStored(c, SuppressedState, mem.bindings)
      BY <1>1, <2>1, <2>2, RecordedComesTo
    <3>2. Silenced(c)
      BY <2>1, <3>1 DEF Silenced
    <3> QED BY <1>2, <1>8, <2>1, <3>2 DEF Suppress, PostAllowed, ClassifyCase
  <2>3. CASE NotRecorded(kinds \cup {"kvstate"})
    <3>1. "kvstate" \in kinds \cup {"kvstate"}
      OBVIOUS
    <3>2. StaysUnhandled(c)
      BY <2>1, <2>3, <3>1 DEF StaysUnhandled, NotRecorded, Fail, MayFail, PostAllowed
    <3> QED BY <1>2, <1>8, <2>1, <3>2 DEF Suppress, PostAllowed, ClassifyCase
  <2> QED BY <2>1, <2>2, <2>3
<1>9. ASSUME NEW c \in Conf, NEW kinds, PostUnscheduled(c, kinds)
      PROVE  ClassifyComesTo(c)
  <2>1. PICK p \in Nat : p = Len(posts) + 1
    BY DEF TypeOK
  <2>2. /\ Get(c).kind = "none"
        /\ \/ CreatePost(c, NoInstance) /\ Recorded(c, PostedState(p), mem, kinds)
           \/ CreatePost(c, NoInstance) /\ NotRecorded(kinds \cup {"kvstate"})
           \/ posts' = posts /\ NotRecorded(kinds \cup {"post"})
    BY <1>9, <2>1 DEF PostUnscheduled
  <2>3. PostAllowed(c)
    BY <1>9, <2>2 DEF PostAllowed
  <2>4. CASE CreatePost(c, NoInstance) /\ Recorded(c, PostedState(p), mem, kinds)
    <3>1. DecisionStored(c, PostedState(p), mem.bindings)
      BY <1>1, <2>2, <2>4, RecordedComesTo
    <3>2. PostedUnbound(c, p)
      BY <1>9, <2>1, <2>4, <3>1 DEF PostedUnbound
    <3>3. ClassifyCase(c)
      BY <2>1, <3>2 DEF ClassifyCase
    <3> QED BY <1>2, <1>9, <2>3, <3>3 DEF PostUnscheduled
  <2>5. CASE \/ CreatePost(c, NoInstance) /\ NotRecorded(kinds \cup {"kvstate"})
             \/ posts' = posts /\ NotRecorded(kinds \cup {"post"})
    <3>1. StaysUnhandled(c)
      BY <2>2, <2>3, <2>5, FailedKindsMayFail DEF StaysUnhandled, NotRecorded
    <3> QED BY <1>2, <1>9, <2>3, <3>1 DEF PostUnscheduled, ClassifyCase
  <2> QED BY <2>2, <2>4, <2>5
<1> QED BY <1>3, <1>4, <1>5, <1>6, <1>7, <1>8, <1>9 DEF Classify

(* Pass 1 and pass 2 make no posts, and change what is tracked and bound only *)
(* by leaving out conferences that are no longer live.                      *)
PassesLeave ==
    /\ QuietEffect /\ (pc = "mark" => pc' = "mark")
    /\ posts' = posts /\ mem'.active = mem.active
    /\ \A i \in Instance : /\ mem'.bindings[i].post = mem.bindings[i].post
                           /\ mem'.bindings[i].names = mem.bindings[i].names
    /\ \A d \in Conf : /\ kv'[d].post = kv[d].post
                       /\ \/ kv'[d].exp = kv[d].exp
                          \/ now < kv[d].exp /\ kv'[d].exp = Expiry
    /\ \A d \in pruned' : d \in pruned \/ (pc = "mark" /\ d \in Conf /\ ~Live(d))
    /\ changed' = TRUE \/ (mem' = mem /\ changed' = changed)

LEMMA StateKept ==
    ASSUME TypeOK, NEW c \in Conf, ArtifactsPolled(c) \/ (Get(c).kind = "posted" /\ FlagEnded(c))
    PROVE  \A d \in Conf : /\ kv'[d].post = kv[d].post
                           /\ \/ kv'[d].exp = kv[d].exp
                              \/ now < kv[d].exp /\ kv'[d].exp = Expiry
<1>1. kv \in [Conf -> ConferencePostState] /\ now \in Nat
  BY DEF TypeOK
<1>2. Get(c) # NoState => now < kv[c].exp
  BY <1>1 DEF Get, ConferencePostState
<1>3. Get(c).kind = "posted" => now < kv[c].exp
  BY <1>2 DEF NoState
<1>4. \/ kv' = kv
      \/ now < kv[c].exp /\ kv' = [kv EXCEPT ![c].exp = Expiry]
      \/ now < kv[c].exp /\ kv' = [kv EXCEPT ![c].ended = TRUE, ![c].exp = Expiry]
  BY <1>2, <1>3 DEF ArtifactsPolled, FlagEnded
<1> QED BY <1>1, <1>4 DEF ConferencePostState

LEMMA PassesCases ==
    ASSUME TypeOK, (\E c \in Conf : ResolveEnd(c)) \/ BeginMarking \/ Mark
    PROVE  PassesLeave
<1> USE DEF PassesLeave, googleVars, chatVars, batchVars, markVars, markUnchanged, Marking
<1>1. mem \in Subscription /\ kv \in [Conf -> ConferencePostState] /\ changed \in BOOLEAN
  BY DEF TypeOK
<1>2. QuietEffect
  BY ResolveOrMarkHasEffect
<1>3. ASSUME NEW c \in Conf, ResolveEnd(c)
      PROVE  PassesLeave
  <2>1. PICK known : mem' = mem \/ mem' = [mem EXCEPT !.lastEnd = Later(@, known)]
    BY <1>3 DEF ResolveEnd
  <2>2. mem'.active = mem.active /\ mem'.bindings = mem.bindings
    BY <1>1, <2>1 DEF Subscription
  <2>3. /\ pc = "resolve" /\ kv' = kv /\ pruned' = pruned /\ posts' = posts
        /\ changed' = TRUE \/ (mem' = mem /\ changed' = changed)
    BY <1>1, <1>3 DEF ResolveEnd
  <2> QED BY <1>2, <2>2, <2>3
<1>4. CASE BeginMarking
  BY <1>2, <1>4 DEF BeginMarking
<1>5. ASSUME NEW c \in Conf, MarkUnboundEnded(c)
      PROVE  PassesLeave
  <2>1. /\ mem' = mem /\ pruned' = pruned /\ posts' = posts /\ changed' = TRUE /\ pc' = pc
        /\ Get(c).kind = "posted" /\ FlagEnded(c)
    BY <1>5 DEF MarkUnboundEnded, CanEnd, FlagEnded
  <2> QED BY <1>2, <2>1, StateKept
<1>6. ASSUME NEW c \in Conf, NEW i \in Instance, FlagBoundEnded(c, i)
      PROVE  PassesLeave
  <2>1. /\ mem' = mem /\ pruned' = pruned /\ posts' = posts /\ changed' = TRUE /\ pc' = pc
        /\ Get(c).kind = "posted" /\ FlagEnded(c)
    BY <1>6 DEF FlagBoundEnded, CanEnd, FlagEnded
  <2> QED BY <1>2, <2>1, StateKept
<1>7. ASSUME NEW c \in Conf, NEW i \in Instance, MarkBindingEnded(c, i)
      PROVE  PassesLeave
  <2>1. /\ pruned' = pruned /\ posts' = posts /\ changed' = TRUE /\ pc' = pc
        /\ Get(c).kind = "posted" /\ FlagEnded(c)
        /\ mem' = [mem EXCEPT !.bindings[i].ended = TRUE]
    BY <1>7 DEF MarkBindingEnded, CanEnd, FlagEnded
  <2>2. /\ mem'.active = mem.active
        /\ mem'.bindings = [mem.bindings EXCEPT ![i].ended = TRUE]
    BY <1>1, <2>1 DEF Subscription
  <2>3. \A j \in Instance : /\ mem'.bindings[j].post = mem.bindings[j].post
                            /\ mem'.bindings[j].names = mem.bindings[j].names
    BY <1>1, <2>2 DEF Subscription, EventPostBinding
  <2> QED BY <1>2, <2>1, <2>2, <2>3, StateKept
<1>8. ASSUME NEW c \in Conf, PassOver(c)
      PROVE  PassesLeave
  <2>1. /\ mem' = mem /\ posts' = posts /\ changed' = changed /\ pc = "mark" /\ pc' = pc
        /\ kv' = kv \/ ArtifactsPolled(c)
        /\ pruned' = pruned \/ (pruned' = pruned \cup {c} /\ Get(c).kind # "posted")
    BY <1>8 DEF PassOver, NoState
  <2>2. pruned' = pruned \/ (pruned' = pruned \cup {c} /\ ~Live(c))
    BY <2>1, LiveIsPosted
  <2> QED BY <1>2, <2>1, <2>2, StateKept DEF ArtifactsPolled
<1> QED BY <1>3, <1>4, <1>5, <1>6, <1>7, <1>8 DEF Mark

LEMMA LiveOnlyBefore ==
    ASSUME TypeOK, PassesLeave, NEW c \in Conf, Live(c)'
    PROVE  Live(c)
BY DEF PassesLeave, QuietEffect, Live, TypeOK, ConferencePostState

-----------------------------------------------------------------------------
(* What is announced stays tracked *)

(* An announced conference that subscription s will not list again is looked  *)
(* after all the same.                                                      *)
Traced(s, c) == c \in s.active \/ s.announcements[c] # NoInstance \/ c \in abandoned

NothingUntracked(s) ==
    \A c \in Conf : Started(c) /\ start[c] <= s.lastSeen /\ Live(c) => Traced(s, c)

(* What the cycle takes up as due is still pending in the stored record, so   *)
(* that the announcement survives the loss of the cycle's copy.             *)
DueStored == pc = "announce" => \A c \in todo : sub.announcements[c] # NoInstance

BatchIsNew == pc = "classify" => \A c \in todo : mem.lastSeen < start[c]

(* The tracking part of BatchInOrder. *)
BatchTracked ==
    pc = "classify" /\ ~hadFailure =>
        \A c \in Conf \ todo : Started(c) /\ Live(c) =>
            \/ Traced(mem, c)
            \/ candidate < start[c] /\ \A d \in todo : start[d] < start[c]

(* Pass 2 leaves out nothing that is live, and nothing outlives the pass.     *)
PrunedAreGone == \A c \in pruned : pc = "mark" /\ ~Live(c)

WatermarkAdvances == sub.lastSeen <= mem.lastSeen

TrackingInv ==
    /\ NothingUntracked(sub) /\ NothingUntracked(mem)
    /\ DueStored /\ BatchIsNew /\ BatchTracked
    /\ PrunedAreGone /\ WatermarkAdvances

LEMMA TrackingInit == Init => TrackingInv
BY DEF Init, TrackingInv, NoTimes, NewSubscription, NothingUntracked, DueStored, BatchIsNew,
       BatchTracked, PrunedAreGone, WatermarkAdvances, Started

LEMMA TrackingEnvironment ==
    ASSUME TypeOK, LostInv, TrackingInv, Environment
    PROVE  TrackingInv'
<1> USE DEF TrackingInv, NothingUntracked, DueStored, BatchIsNew, BatchTracked, PrunedAreGone,
            WatermarkAdvances, Started, Traced
<1>1. CASE Tick
  <2>1. \A c \in Conf : Live(c)' => Live(c)
    BY <1>1 DEF Tick, Live, TypeOK, ConferencePostState
  <2> QED BY <1>1, <2>1 DEF Tick, TypeOK
<1>2. ASSUME NEW c \in Conf, StartConference(c)
      PROVE  TrackingInv'
  <2>1. /\ start' = [start EXCEPT ![c] = now] /\ start[c] = 0
        /\ \A d \in Conf : start[d] # 0 => start[d] < now
        /\ UNCHANGED <<now, kv, sub, mem, pc, todo, hadFailure, candidate, pruned, abandoned>>
    BY <1>2 DEF StartConference
  <2>2. start'[c] = now /\ \A d \in Conf : d # c => start'[d] = start[d]
    BY <2>1 DEF TypeOK
  <2>3. /\ now \in Nat /\ now > 0 /\ start \in [Conf -> Nat] /\ todo \subseteq Conf
        /\ sub.lastSeen \in Nat /\ mem.lastSeen \in Nat /\ candidate \in Nat
    BY BoundsAssumption DEF TypeOK, Time, Subscription
  <2>4. sub.lastSeen < now /\ mem.lastSeen < now /\ candidate < now
    BY <2>1, <2>3 DEF LostInv, WatermarksAreStarts, Watermark
  <2>5. \A d \in Conf : Live(d)' <=> Live(d)
    BY <2>1 DEF Live
  <2>6. NothingUntracked(sub)' /\ NothingUntracked(mem)'
    <3>1. ASSUME NEW d \in Conf, start'[d] <= sub.lastSeen \/ start'[d] <= mem.lastSeen
          PROVE  start'[d] = start[d]
      BY <2>2, <2>3, <2>4, <3>1
    <3> QED BY <2>1, <2>5, <3>1
  <2>7. BatchIsNew'
    BY <2>1, <2>2, <2>3, <2>4
  <2>8. BatchTracked'
    <3> SUFFICES ASSUME pc = "classify", ~hadFailure, NEW d \in Conf \ todo,
                        start'[d] # 0, Live(d)
                 PROVE  \/ Traced(mem, d)
                        \/ candidate < start'[d] /\ \A e \in todo : start'[e] < start'[d]
      BY <2>1, <2>5
    <3>1. \A e \in todo : start'[e] = start[e] /\ start[e] < now
      BY <2>1, <2>2, <2>3
    <3>2. CASE d = c
      BY <2>2, <2>4, <3>1, <3>2
    <3>3. CASE d # c
      BY <2>2, <3>1, <3>3
    <3> QED BY <3>2, <3>3
  <2>9. DueStored' /\ WatermarkAdvances' /\ PrunedAreGone'
    BY <2>1, <2>5 DEF TypeOK
  <2> QED BY <2>6, <2>7, <2>8, <2>9
<1>3. ASSUME NEW c \in Conf, EndConference(c)
      PROVE  TrackingInv'
  BY <1>3 DEF EndConference, Live
<1> QED BY <1>1, <1>2, <1>3 DEF Environment

(* An announcement leaves its conference traced in both copies, and changes   *)
(* nothing for the others.                                                  *)
LEMMA TracedByAnnouncing ==
    ASSUME TypeOK, TrackingInv, NEW c \in Conf, NEW i \in Instance, AnnounceComesTo(c, i),
           NEW d \in Conf, Live(d)'
    PROVE  /\ Live(d) \/ (d = c /\ d \in mem'.active)
           /\ Traced(mem, d) => Traced(mem, d)'
           /\ Traced(sub, d) => Traced(sub, d)'
<1>1. PICK p \in Nat : AnnounceCase(c, i, p)
  BY DEF AnnounceComesTo
<1>2. mem \in Subscription /\ kv \in [Conf -> ConferencePostState]
  BY DEF TypeOK
<1>3. now' = now /\ sub' = sub
  BY DEF AnnounceComesTo, AnnounceLeaves
<1>4. Traced(sub, d) => Traced(sub, d)'
  BY <1>1, <1>3
  DEF AnnounceCase, StaysPending, GivenUp, FoundOver, JoinsPost, OpensPost, Traced
<1>5. CASE StaysPending(c, i)
  BY <1>3, <1>4, <1>5 DEF StaysPending, Live, Traced
<1>6. CASE GivenUp(c)
  BY <1>2, <1>3, <1>4, <1>6 DEF GivenUp, AnnouncementGone, Live, Traced, Subscription
<1>7. CASE FoundOver(c)
  <2>1. d # c
    BY <1>2, <1>7 DEF FoundOver, Live, SuppressedState
  <2> QED BY <1>2, <1>3, <1>4, <1>7, <2>1
          DEF FoundOver, AnnouncementGone, Live, Traced, Subscription
<1>8. CASE JoinsPost(c, i, p)
  BY <1>2, <1>3, <1>4, <1>8 DEF JoinsPost, AnnouncementGone, Live, Traced, Subscription
<1>9. CASE OpensPost(c, i, p)
  BY <1>2, <1>3, <1>4, <1>9 DEF OpensPost, AnnouncementGone, Live, Traced, Subscription
<1> QED BY <1>1, <1>5, <1>6, <1>7, <1>8, <1>9 DEF AnnounceCase

LEMMA TrackingAnnounce ==
    ASSUME TypeOK, DuePending, TrackingInv, Announce
    PROVE  TrackingInv'
<1>1. PICK c \in Conf, i \in Instance : AnnounceComesTo(c, i)
  BY AnnounceCases
<1>2. /\ pc = "announce" /\ pc' = "announce" /\ c \in todo /\ todo' \subseteq todo
      /\ UNCHANGED <<start, sub, pruned>> /\ mem'.lastSeen = mem.lastSeen
  BY <1>1 DEF AnnounceComesTo, AnnounceLeaves
<1>3. sub.announcements[c] # NoInstance
  BY <1>2 DEF TrackingInv, DueStored
<1>4. NothingUntracked(sub)'
  <2> SUFFICES ASSUME NEW d \in Conf, Started(d)', start'[d] <= sub'.lastSeen, Live(d)'
               PROVE  Traced(sub, d)'
    BY DEF NothingUntracked
  <2>1. Live(d) \/ d = c
    BY <1>1, TracedByAnnouncing
  <2>2. Traced(sub, d)
    BY <1>2, <1>3, <2>1 DEF TrackingInv, NothingUntracked, Started, Traced
  <2> QED BY <1>1, <2>2, TracedByAnnouncing
<1>5. NothingUntracked(mem)'
  <2> SUFFICES ASSUME NEW d \in Conf, Started(d)', start'[d] <= mem'.lastSeen, Live(d)'
               PROVE  Traced(mem, d)'
    BY DEF NothingUntracked
  <2>1. Live(d) \/ d \in mem'.active
    BY <1>1, TracedByAnnouncing
  <2>2. CASE Live(d)
    <3>1. Traced(mem, d)
      BY <1>2, <2>2 DEF TrackingInv, NothingUntracked, Started
    <3> QED BY <1>1, <3>1, TracedByAnnouncing
  <2>3. CASE d \in mem'.active
    BY <2>3 DEF Traced
  <2> QED BY <2>1, <2>2, <2>3
<1>6. DueStored'
  BY <1>2 DEF TrackingInv, DueStored
<1>7. PrunedAreGone' /\ BatchIsNew' /\ BatchTracked' /\ WatermarkAdvances'
  BY <1>2 DEF TrackingInv, PrunedAreGone, BatchIsNew, BatchTracked, WatermarkAdvances
<1> QED BY <1>4, <1>5, <1>6, <1>7 DEF TrackingInv

LEMMA TrackingListRecords ==
    ASSUME TypeOK, TrackingInv, ListRecords
    PROVE  TrackingInv'
<1>1. /\ UNCHANGED <<now, start, kv, sub, pruned, abandoned>> /\ pc = "announce"
      /\ candidate' = mem.lastSeen /\ pc' = "classify"
      /\ todo' = StartedSince(mem.lastSeen) \/ todo' = {}
  BY DEF ListRecords, googleVars, markVars
<1>2. /\ mem'.lastSeen = mem.lastSeen /\ mem'.announcements = mem.announcements
      /\ mem'.active = mem.active
  BY DEF ListRecords, TypeOK, Subscription
<1>3. start \in [Conf -> Nat] /\ mem.lastSeen \in Nat
  BY DEF TypeOK, Time, Subscription
<1>4. \A c \in Conf : Live(c)' <=> Live(c)
  BY <1>1 DEF Live
<1>5. NothingUntracked(mem)' /\ NothingUntracked(sub)'
  BY <1>1, <1>2, <1>4 DEF TrackingInv, NothingUntracked, Started, Traced
<1>6. BatchIsNew'
  BY <1>1, <1>2, <1>3 DEF BatchIsNew, StartedSince
<1>7. BatchTracked'
  <2> SUFFICES ASSUME NEW c \in Conf, c \notin todo', Started(c)', Live(c)'
               PROVE  Traced(mem, c)' \/ (candidate' < start'[c] /\ todo' = {})
    BY DEF BatchTracked
  <2>1. CASE start[c] <= mem.lastSeen
    BY <1>1, <1>2, <1>5, <2>1 DEF NothingUntracked
  <2>2. CASE start[c] > mem.lastSeen
    BY <1>1, <1>3, <2>2 DEF StartedSince
  <2> QED BY <1>3, <2>1, <2>2
<1>8. PrunedAreGone' /\ DueStored' /\ WatermarkAdvances'
  BY <1>1, <1>2 DEF TrackingInv, PrunedAreGone, DueStored, WatermarkAdvances
<1> QED BY <1>5, <1>6, <1>7, <1>8 DEF TrackingInv

(* A record that counts as handled is traced if it is live. *)
LEMMA TracedByClassifying ==
    ASSUME TypeOK, NEW c \in Conf, ClassifyComesTo(c), NEW d \in Conf, Live(d)'
    PROVE  /\ Live(d) \/ d = c
           /\ Traced(mem, d) => Traced(mem, d)'
           /\ hadFailure' \/ (Handled(c) /\ Traced(mem, c)') \/ (Handled(c) /\ ~Live(c)')
<1>1. mem \in Subscription /\ kv \in [Conf -> ConferencePostState] /\ now' = now
  BY DEF TypeOK, ClassifyComesTo
<1>2. abandoned' = abandoned
  BY DEF ClassifyComesTo
<1>3. CASE StaysUnhandled(c)
  BY <1>1, <1>2, <1>3 DEF StaysUnhandled, Unhandled, Live, Traced
<1>4. CASE SeenAgain(c)
  BY <1>1, <1>2, <1>4 DEF SeenAgain, Live, Traced
<1>5. ASSUME NEW i \in Instance, Deferred(c, i)
      PROVE  /\ Live(d) /\ (Traced(mem, d) => Traced(mem, d)')
             /\ Handled(c) /\ Traced(mem, c)'
  <2>1. mem'.announcements[c] # NoInstance
    BY <1>1, <1>5, NoInstanceAssumption DEF Deferred, Subscription
  <2>2. \A e \in Conf : e # c => mem'.announcements[e] = mem.announcements[e]
    BY <1>1, <1>5 DEF Deferred, Subscription
  <2> QED BY <1>1, <1>2, <1>5, <2>1, <2>2 DEF Deferred, Live, Traced
<1>6. ASSUME NEW state, NEW b, DecisionStored(c, state, b)
      PROVE  /\ Live(d) \/ d = c
             /\ Traced(mem, d) => Traced(mem, d)'
             /\ hadFailure' \/ (Handled(c) /\ (state.kind = "posted" => Traced(mem, c)'))
             /\ Live(c)' => state.kind = "posted"
  BY <1>1, <1>2, <1>6 DEF DecisionStored, Unhandled, Live, Traced
<1>7. CASE Silenced(c)
  BY <1>6, <1>7 DEF Silenced
<1>8. CASE \E i \in Instance : \E p \in Nat : BoundTo(c, i, p) \/ PostedAndBound(c, i, p)
  BY <1>6, <1>8 DEF BoundTo, PostedAndBound
<1>9. CASE \E p \in Nat : PostedUnbound(c, p)
  BY <1>6, <1>9 DEF PostedUnbound
<1> QED BY <1>3, <1>4, <1>5, <1>7, <1>8, <1>9 DEF ClassifyComesTo, ClassifyCase

LEMMA TrackingClassify ==
    ASSUME TypeOK, LostInv, TrackingInv, Classify
    PROVE  TrackingInv'
<1>1. PICK c \in Conf : ClassifyComesTo(c)
  BY ClassifyCases
<1>2. /\ pc = "classify" /\ pc' = "classify" /\ c \in todo /\ todo' = todo \ {c}
      /\ UNCHANGED <<start, sub, pruned, abandoned>> /\ mem'.lastSeen = mem.lastSeen
  BY <1>1 DEF ClassifyComesTo
<1>3. /\ start \in [Conf -> Nat] /\ mem.lastSeen \in Nat /\ sub.lastSeen \in Nat
      /\ candidate \in Nat /\ todo \subseteq Conf
  BY DEF TypeOK, Time, Subscription
<1>4. mem.lastSeen < start[c] /\ sub.lastSeen < start[c] /\ Started(c)
  BY <1>2, <1>3 DEF TrackingInv, BatchIsNew, WatermarkAdvances, Started
<1>5. NothingUntracked(sub)'
  <2> SUFFICES ASSUME NEW d \in Conf, Started(d)', start'[d] <= sub'.lastSeen, Live(d)'
               PROVE  Traced(sub, d)'
    BY DEF NothingUntracked
  <2>1. d # c
    BY <1>2, <1>3, <1>4
  <2>2. Traced(sub, d)
    BY <1>1, <1>2, <2>1, TracedByClassifying DEF TrackingInv, NothingUntracked, Started
  <2> QED BY <1>2, <2>2 DEF Traced
<1>6. NothingUntracked(mem)'
  <2> SUFFICES ASSUME NEW d \in Conf, Started(d)', start'[d] <= mem'.lastSeen, Live(d)'
               PROVE  Traced(mem, d)'
    BY DEF NothingUntracked
  <2>1. d # c
    BY <1>2, <1>3, <1>4
  <2>2. Traced(mem, d)
    BY <1>1, <1>2, <2>1, TracedByClassifying DEF TrackingInv, NothingUntracked, Started
  <2> QED BY <1>1, <2>2, TracedByClassifying
<1>7. BatchTracked'
  <2> SUFFICES ASSUME ~hadFailure', NEW d \in Conf, d \notin todo', Started(d)', Live(d)'
               PROVE  \/ Traced(mem, d)'
                      \/ candidate' < start'[d] /\ \A e \in todo' : start'[e] < start'[d]
    BY DEF BatchTracked
  <2>1. Handled(c) /\ (Live(c)' => Traced(mem, c)')
    BY <1>1, TracedByClassifying
  <2>2. CASE d = c
    BY <2>1, <2>2
  <2>3. CASE d # c
    <3>1. Live(d) /\ (Traced(mem, d) => Traced(mem, d)')
      BY <1>1, <2>3, TracedByClassifying
    <3>2. d \notin todo /\ Started(d) /\ ~hadFailure
      BY <1>2, <2>1, <2>3 DEF Handled, Started
    <3>3. \/ Traced(mem, d)
          \/ candidate < start[d] /\ \A e \in todo : start[e] < start[d]
      BY <1>2, <3>1, <3>2 DEF TrackingInv, BatchTracked
    <3>4. candidate' = candidate \/ candidate' = start[c]
      BY <2>1 DEF Handled, Later
    <3> QED BY <1>2, <3>1, <3>3, <3>4
  <2> QED BY <2>2, <2>3
<1>8. DueStored' /\ BatchIsNew' /\ PrunedAreGone' /\ WatermarkAdvances'
  BY <1>2 DEF TrackingInv, DueStored, BatchIsNew, PrunedAreGone, WatermarkAdvances
<1> QED BY <1>5, <1>6, <1>7, <1>8 DEF TrackingInv

LEMMA TrackingSaveBatch ==
    ASSUME TypeOK, TrackingInv, SaveBatch
    PROVE  TrackingInv'
<1>1. /\ mem.lastSeen \in Nat /\ sub.lastSeen \in Nat /\ candidate \in Nat
      /\ start \in [Conf -> Nat] /\ pc = "classify" /\ todo = {} /\ pc' = "resolve"
      /\ pruned' = pruned
  BY DEF TypeOK, Time, Subscription, SaveBatch, markVars
<1>2. mem'.lastSeen = mem.lastSeen \/ (~hadFailure /\ mem'.lastSeen = candidate)
  BY SaveBatchFacts DEF Later, NextWatermark
<1>3. mem.lastSeen <= mem'.lastSeen
  BY <1>1, SaveBatchFacts DEF Later, NextWatermark
<1>4. mem'.active = mem.active
  BY DEF SaveBatch, TypeOK, Subscription
<1>5. \A c \in Conf : Live(c)' <=> Live(c)
  BY SaveBatchFacts DEF Live
<1>6. NothingUntracked(mem)'
  <2> SUFFICES ASSUME NEW c \in Conf, Started(c)', start'[c] <= mem'.lastSeen, Live(c)'
               PROVE  Traced(mem, c)'
    BY DEF NothingUntracked
  <2>1. Started(c) /\ start[c] <= mem'.lastSeen /\ Live(c)
    BY <1>5, SaveBatchFacts DEF Started
  <2>2. Traced(mem, c)
    BY <1>1, <1>2, <2>1 DEF TrackingInv, NothingUntracked, BatchTracked
  <2> QED BY <1>4, <2>2, SaveBatchFacts DEF Traced
<1>7. NothingUntracked(sub)'
  <2> SUFFICES ASSUME NEW c \in Conf, Started(c)', start'[c] <= sub'.lastSeen, Live(c)'
               PROVE  Traced(sub, c)'
    BY DEF NothingUntracked
  <2>1. CASE sub' = mem'
    <3>1. Traced(mem, c)'
      BY <1>6, <2>1 DEF NothingUntracked
    <3> QED BY <2>1, <3>1 DEF Traced
  <2>2. CASE sub' = sub
    <3>1. Started(c) /\ start[c] <= sub.lastSeen /\ Live(c)
      BY <1>5, <2>2, SaveBatchFacts DEF Started
    <3>2. Traced(sub, c)
      BY <3>1 DEF TrackingInv, NothingUntracked
    <3> QED BY <2>2, <3>2, SaveBatchFacts DEF Traced
  <2> QED BY <2>1, <2>2, SaveBatchFacts
<1>9. WatermarkAdvances'
  <2>1. sub.lastSeen <= mem.lastSeen /\ mem'.lastSeen \in Nat
    BY TypeSaveBatch DEF TrackingInv, WatermarkAdvances, TypeOK, Subscription, Time
  <2>2. CASE sub' = mem'
    BY <2>1, <2>2 DEF WatermarkAdvances
  <2>3. CASE sub' = sub
    BY <1>1, <1>3, <2>1, <2>3 DEF WatermarkAdvances
  <2> QED BY <2>2, <2>3, SaveBatchFacts
<1>8. DueStored' /\ BatchIsNew' /\ BatchTracked' /\ PrunedAreGone'
  BY <1>1 DEF TrackingInv, DueStored, BatchIsNew, BatchTracked, PrunedAreGone
<1> QED BY <1>6, <1>7, <1>8, <1>9 DEF TrackingInv

LEMMA TrackingPasses ==
    ASSUME TypeOK, TrackingInv, (\E c \in Conf : ResolveEnd(c)) \/ BeginMarking \/ Mark
    PROVE  TrackingInv'
<1>1. PassesLeave
  BY PassesCases
<1>2. /\ UNCHANGED <<now, start, sub, abandoned>> /\ pc' \in {"resolve", "mark"}
      /\ pc = "mark" => pc' = "mark"
      /\ mem'.announcements = mem.announcements /\ mem'.lastSeen = mem.lastSeen
      /\ mem'.active = mem.active
      /\ \A d \in pruned' : d \in pruned \/ (pc = "mark" /\ d \in Conf /\ ~Live(d))
  BY <1>1 DEF PassesLeave, QuietEffect
<1>3. \A c \in Conf : Live(c)' => Live(c)
  BY <1>1, LiveOnlyBefore
<1>4. PrunedAreGone'
  BY <1>2, <1>3 DEF TrackingInv, PrunedAreGone, TypeOK
<1>5. NothingUntracked(sub)' /\ NothingUntracked(mem)'
  BY <1>2, <1>3 DEF TrackingInv, NothingUntracked, Started, Traced
<1>6. DueStored' /\ BatchIsNew' /\ BatchTracked' /\ WatermarkAdvances'
  BY <1>2 DEF TrackingInv, DueStored, BatchIsNew, BatchTracked, WatermarkAdvances
<1> QED BY <1>4, <1>5, <1>6 DEF TrackingInv

LEMMA TrackingEndCycle ==
    ASSUME TypeOK, TrackingInv, EndCycle
    PROVE  TrackingInv'
<1>1. /\ UNCHANGED <<now, start, kv, abandoned>> /\ mem' = sub' /\ pc' = "idle"
      /\ pruned' = {} /\ pc = "mark"
  BY EndCycleFacts DEF EndCycle
<1>2. \/ sub' = sub
      \/ /\ sub'.announcements = mem.announcements /\ sub'.lastSeen = mem.lastSeen
         /\ sub'.active = mem.active \ pruned
  BY DEF EndCycle, WriteBack, TypeOK, Subscription
<1>3. \A c \in Conf : Live(c)' <=> Live(c)
  BY <1>1 DEF Live
<1>4. NothingUntracked(sub)'
  <2> SUFFICES ASSUME NEW c \in Conf, Started(c)', start'[c] <= sub'.lastSeen, Live(c)'
               PROVE  Traced(sub, c)'
    BY DEF NothingUntracked
  <2>1. Started(c) /\ Live(c) /\ c \notin pruned
    BY <1>1, <1>3 DEF TrackingInv, PrunedAreGone, Started
  <2>2. CASE sub' = sub
    BY <1>1, <2>1, <2>2 DEF TrackingInv, NothingUntracked, Traced
  <2>3. CASE sub' # sub
    BY <1>1, <1>2, <2>1, <2>3 DEF TrackingInv, NothingUntracked, Traced
  <2> QED BY <2>2, <2>3
<1>5. NothingUntracked(mem)'
  BY <1>1, <1>4 DEF NothingUntracked, Traced
<1>6. WatermarkAdvances'
  BY <1>1, TypeEndCycle DEF WatermarkAdvances, TypeOK, Subscription, Time
<1>7. DueStored' /\ BatchIsNew' /\ BatchTracked' /\ PrunedAreGone'
  BY <1>1 DEF DueStored, BatchIsNew, BatchTracked, PrunedAreGone
<1> QED BY <1>4, <1>5, <1>6, <1>7 DEF TrackingInv

LEMMA TrackingStep == TypeInv /\ LostInv /\ TrackingInv /\ [Next]_vars => TrackingInv'
<1> SUFFICES ASSUME TypeOK, DuePending, LostInv, TrackingInv, [Next]_vars
             PROVE  TrackingInv'
  BY DEF TypeInv
<1>1. CASE BeginCycle
  <2>1. /\ UNCHANGED <<now, start, kv, sub, pruned, abandoned>> /\ mem' = sub
        /\ pc = "idle" /\ pc' = "announce"
        /\ \A c \in todo' : sub.announcements[c] # NoInstance
    BY <1>1 DEF BeginCycle, googleVars, markVars
  <2>2. \A c \in Conf : Live(c)' <=> Live(c)
    BY <2>1 DEF Live
  <2>3. NothingUntracked(sub)' /\ NothingUntracked(mem)'
    BY <2>1, <2>2 DEF TrackingInv, NothingUntracked, Started, Traced
  <2>4. WatermarkAdvances'
    BY <2>1 DEF WatermarkAdvances, TypeOK, Subscription, Time
  <2>5. DueStored' /\ BatchIsNew' /\ BatchTracked' /\ PrunedAreGone'
    BY <2>1 DEF TrackingInv, DueStored, BatchIsNew, BatchTracked, PrunedAreGone
  <2> QED BY <2>3, <2>4, <2>5 DEF TrackingInv
<1>2. CASE Crash
  <2>1. /\ UNCHANGED <<now, start, kv, sub, abandoned>> /\ mem' = sub /\ pc' = "idle"
        /\ pruned' = {}
    BY <1>2 DEF Crash, googleVars
  <2>2. \A c \in Conf : Live(c)' <=> Live(c)
    BY <2>1 DEF Live
  <2>3. NothingUntracked(sub)' /\ NothingUntracked(mem)'
    BY <2>1, <2>2 DEF TrackingInv, NothingUntracked, Started, Traced
  <2>4. WatermarkAdvances'
    BY <2>1 DEF WatermarkAdvances, TypeOK, Subscription, Time
  <2>5. DueStored' /\ BatchIsNew' /\ BatchTracked' /\ PrunedAreGone'
    BY <2>1 DEF DueStored, BatchIsNew, BatchTracked, PrunedAreGone
  <2> QED BY <2>3, <2>4, <2>5 DEF TrackingInv
<1>3. CASE UNCHANGED vars
  BY <1>3 DEF vars, TrackingInv, NothingUntracked, DueStored, BatchIsNew, BatchTracked,
              PrunedAreGone, WatermarkAdvances, Started, Traced, Live
<1> QED BY <1>1, <1>2, <1>3, TrackingEnvironment, TrackingAnnounce, TrackingListRecords,
           TrackingClassify, TrackingSaveBatch, TrackingPasses, TrackingEndCycle
        DEF Next, PollStep

TracedInv == TypeInv /\ LostInv /\ TrackingInv

LEMMA TracedInvariant == Spec => []TracedInv
<1>1. Init => TracedInv
  BY TypeInit, LostInit, TrackingInit DEF TracedInv, TypeInv, Init, DuePending
<1>2. TracedInv /\ [Next]_vars => TracedInv'
  BY TypeStep, LostStep, TrackingStep DEF TracedInv
<1> QED BY <1>1, <1>2, PTL DEF Spec

(* Whatever fails, and wherever the node stops, an announced conference whose *)
(* state is alive and that is not listed again is in the stored              *)
(* ActiveConferenceIDs, or its announcement is still pending, or it was      *)
(* given up: its end and its artifacts are looked for.                      *)
THEOREM AnnouncedAreTracked == Spec => []TrackedUntilExpired
<1>1. TracedInv => TrackedUntilExpired
  BY LiveIsPosted
  DEF TracedInv, TypeInv, TrackingInv, NothingUntracked, TrackedUntilExpired, Traced, Started
<1> QED BY <1>1, TracedInvariant, PTL

-----------------------------------------------------------------------------
(* The cooldown is kept towards every stored end *)

LEMMA CreatedPost ==
    ASSUME TypeOK, NEW c \in Conf, NEW i \in Instance \cup {NoInstance}, CreatePost(c, i)
    PROVE  /\ Len(posts') = Len(posts) + 1
           /\ DOMAIN posts = 1..Len(posts) /\ DOMAIN posts' = 1..(Len(posts) + 1)
           /\ posts'[Len(posts) + 1].conf = c /\ posts'[Len(posts) + 1].inst = i
           /\ posts'[Len(posts) + 1].at = now
           /\ \A p \in DOMAIN posts : posts'[p] = posts[p]
<1>1. posts \in Seq(Post) /\ [conf |-> c, inst |-> i, at |-> now] \in Post
  BY DEF TypeOK, Post, Time
<1> QED BY <1>1 DEF CreatePost

(* The only steps that make posts, and what allowed them to. *)
PostFor(c, i) == CreatePost(c, i) /\ mem.bindings[i].post = 0

PostBesides(c) ==
    pc = "classify" /\ CreatePost(c, NoInstance) /\ \E kinds : PostUnscheduled(c, kinds)

LEMMA PostsMade ==
    ASSUME TypeOK, DuePending, Next
    PROVE  \/ posts' = posts
           \/ Announce /\ \E c \in Conf : \E i \in Instance : PostFor(c, i)
           \/ Classify /\ \E c \in Conf : \E i \in Instance : PostFor(c, i)
           \/ Classify /\ \E c \in Conf : PostBesides(c)
<1>1. CASE Announce
  <2>1. PICK c \in Conf, i \in Instance : AnnounceComesTo(c, i)
    BY <1>1, AnnounceCases
  <2>2. PICK p \in Nat : AnnounceCase(c, i, p)
    BY <2>1 DEF AnnounceComesTo
  <2>3. posts' = posts \/ PostFor(c, i)
    BY <2>2
    DEF AnnounceCase, StaysPending, GivenUp, FoundOver, JoinsPost, OpensPost, PostFor
  <2> QED BY <1>1, <2>3
<1>2. CASE Classify
  <2>1. PICK c \in Conf : ClassifyComesTo(c)
    BY <1>2, ClassifyCases
  <2>2. PostAllowed(c) /\ pc = "classify"
    BY <2>1 DEF ClassifyComesTo
  <2>3. posts' = posts \/ (\E i \in Instance : PostFor(c, i)) \/ PostBesides(c)
    BY <2>2 DEF PostAllowed, PostFor, PostBesides
  <2> QED BY <1>2, <2>3
<1>3. CASE (\E c \in Conf : ResolveEnd(c)) \/ BeginMarking \/ Mark
  BY <1>3, PassesCases DEF PassesLeave
<1>4. CASE Environment \/ BeginCycle \/ ListRecords \/ SaveBatch \/ EndCycle \/ Crash
  BY <1>4
  DEF Environment, Tick, StartConference, EndConference, BeginCycle, ListRecords, SaveBatch,
      EndCycle, Crash, chatVars
<1> QED BY <1>1, <1>2, <1>3, <1>4 DEF Next, PollStep

(* While records are classified the cooldown is anchored by the stored end;   *)
(* ends only come to be known after the batch.                              *)
AnchorIsStored == pc \in {"announce", "classify"} => mem.lastEnd = sub.lastEnd

LEMMA AnchorStep ==
    ASSUME TypeOK, DuePending, AnchorIsStored, [Next]_vars
    PROVE  AnchorIsStored'
<1> USE DEF AnchorIsStored
<1>1. CASE Environment \/ BeginCycle \/ SaveBatch \/ EndCycle \/ Crash
  BY <1>1
  DEF Environment, Tick, StartConference, EndConference, BeginCycle, SaveBatch, EndCycle, Crash
<1>2. CASE Announce
  <2>1. PICK c \in Conf, i \in Instance : AnnounceComesTo(c, i)
    BY <1>2, AnnounceCases
  <2> QED BY <2>1 DEF AnnounceComesTo, AnnounceLeaves
<1>3. CASE ListRecords
  <2>1. mem'.lastEnd = mem.lastEnd
    BY <1>3 DEF ListRecords, TypeOK, Subscription
  <2> QED BY <1>3, <2>1 DEF ListRecords
<1>4. CASE Classify
  <2>1. PICK c \in Conf : ClassifyComesTo(c)
    BY <1>4, ClassifyCases
  <2> QED BY <2>1 DEF ClassifyComesTo
<1>5. CASE (\E c \in Conf : ResolveEnd(c)) \/ BeginMarking \/ Mark
  BY <1>5, PassesCases DEF PassesLeave, QuietEffect
<1>6. CASE UNCHANGED vars
  BY <1>6 DEF vars
<1> QED BY <1>1, <1>2, <1>3, <1>4, <1>5, <1>6 DEF Next, PollStep

(* Of the ends known, the one that anchors the cooldown is the latest not     *)
(* after the record's start; a stored end in between would have silenced it. *)
LEMMA StoredEndSilences ==
    ASSUME TypeOK, NEW c \in Conf, NEW d \in Conf, NEW kinds, PostUnscheduled(c, kinds),
           RejoinOf(c, d)
    PROVE  mem.lastEnd < end[d] \/ mem.lastEnd > start[c]
<1>1. /\ start[c] \in Nat /\ end[d] \in Nat /\ mem.lastEnd \in Nat
      /\ \A e \in Conf : endTimes[e] \in Nat
  BY DEF TypeOK, Time, Subscription
<1> SUFFICES ASSUME end[d] <= mem.lastEnd, mem.lastEnd <= start[c]
             PROVE  FALSE
  BY <1>1
<1>2. PICK anchor \in KnownEndsBefore(c) :
          IsLatest(anchor, KnownEndsBefore(c)) /\ ~Suppresses(anchor, c)
  BY DEF PostUnscheduled
<1>3. mem.lastEnd \in KnownEndsBefore(c)
  BY DEF KnownEndsBefore, KnownEnds
<1>4. mem.lastEnd <= anchor
  BY <1>2, <1>3 DEF IsLatest
<1>5. anchor \in Nat
  BY <1>1 DEF KnownEndsBefore, KnownEnds
<1>6. end[d] # 0 /\ start[c] - end[d] < Cooldown /\ end[d] <= start[c]
  BY DEF RejoinOf
<1>7. anchor # 0 /\ start[c] - anchor < Cooldown /\ Cooldown > 0
  BY <1>1, <1>4, <1>5, <1>6, DurationsAssumption
<1> QED BY <1>2, <1>7 DEF Suppresses

(* Whatever fails, a conference no event schedules is announced within the    *)
(* cooldown of another one's end only if that end is not stored yet, or if   *)
(* the stored end is later than its own start.                              *)
THEOREM StoredEndsAreRespected == Spec => CooldownOnStoredEnds
<1>1. Init => TypeInv /\ AnchorIsStored
  BY TypeInit DEF TypeInv, Init, DuePending, AnchorIsStored
<1>2. TypeInv /\ AnchorIsStored /\ [Next]_vars => (TypeInv /\ AnchorIsStored)'
  BY TypeStep, AnchorStep DEF TypeInv
<1>3. ASSUME TypeInv, AnchorIsStored, [Next]_vars, NEW p \in DOMAIN posts' \ DOMAIN posts,
             posts'[p].inst = NoInstance
      PROVE  \A d \in Conf \ {posts'[p].conf} : RejoinOf(posts'[p].conf, d) =>
                 sub.lastEnd < end[d] \/ sub.lastEnd > start[posts'[p].conf]
  <2>1. Next
    BY <1>3 DEF vars
  <2>2. ASSUME NEW c \in Conf, NEW i \in Instance
        PROVE  ~PostFor(c, i)
    <3>1. CreatePost(c, i) => posts'[p].inst = i
      BY <1>3, CreatedPost DEF TypeInv, TypeOK
    <3> QED BY <1>3, <3>1, NoInstanceAssumption DEF PostFor
  <2>3. PICK c \in Conf : PostBesides(c)
    BY <1>3, <2>1, <2>2, PostsMade DEF TypeInv
  <2>4. posts'[p].conf = c
    BY <1>3, <2>3, CreatedPost DEF TypeInv, TypeOK, PostBesides
  <2>5. PICK kinds : PostUnscheduled(c, kinds)
    BY <2>3 DEF PostBesides
  <2>6. mem.lastEnd = sub.lastEnd
    BY <1>3, <2>3 DEF PostBesides, AnchorIsStored
  <2>7. \A d \in Conf : RejoinOf(c, d) => sub.lastEnd < end[d] \/ sub.lastEnd > start[c]
    BY <1>3, <2>5, <2>6, StoredEndSilences DEF TypeInv
  <2> QED BY <2>4, <2>7 DEF RejoinOf
<1>4. TypeInv /\ AnchorIsStored /\ [Next]_vars
          => [\A p \in DOMAIN posts' \ DOMAIN posts : posts'[p].inst = NoInstance =>
                \A d \in Conf \ {posts'[p].conf} : RejoinOf(posts'[p].conf, d) =>
                   sub.lastEnd < end[d] \/ sub.lastEnd > start[posts'[p].conf]]_vars
  BY <1>3
<1> QED BY <1>1, <1>2, <1>4, PTL DEF Spec, CooldownOnStoredEnds

-----------------------------------------------------------------------------
(* Posts, the states that name them and the bindings that hold them *)

(* What an announcement or a classification does to the conference's state    *)
(* and to the event's binding.                                              *)
KeepsStates(c) ==
    /\ kv' = kv /\ mem'.bindings = mem.bindings
    /\ \/ posts' = posts
       \/ MayFail("kvstate") /\ \E i \in Instance \cup {NoInstance} : CreatePost(c, i)

StoresSilence(c) ==
    kv' = [kv EXCEPT ![c] = SuppressedState] /\ mem'.bindings = mem.bindings /\ posts' = posts

StoresPosted(c, p) ==
    kv' = [kv EXCEPT ![c] = PostedState(p)] /\ (c \in mem'.active \/ MayFail("kvread"))

Joins(c, i, p) ==
    /\ StoresPosted(c, p) /\ posts' = posts
    /\ p # 0 /\ p = mem.bindings[i].post /\ mem'.bindings = JoinBinding(i, c)

Opens(c, i, p) ==
    /\ StoresPosted(c, p) /\ CreatePost(c, i) /\ p = Len(posts) + 1
    /\ mem.bindings[i].post = 0
    /\ mem'.bindings = [mem.bindings EXCEPT ![i] = NewBinding(c, p)]

Stands(c, p) ==
    /\ StoresPosted(c, p) /\ CreatePost(c, NoInstance) /\ p = Len(posts) + 1
    /\ mem'.bindings = mem.bindings

PostingCase(c) ==
    \/ KeepsStates(c) \/ StoresSilence(c)
    \/ \E i \in Instance : \E p \in Nat : Joins(c, i, p) \/ Opens(c, i, p)
    \/ \E p \in Nat : Stands(c, p)

Posting(c) ==
    /\ UNCHANGED <<now, start, end, endedPosts, sub, pc, resolved, pruned>>
    /\ pc # "idle" /\ mem.active \subseteq mem'.active
    /\ changed' = TRUE \/ (mem' = mem /\ changed' = changed)
    /\ PostingCase(c)

LEMMA PostingAnnounce ==
    ASSUME TypeOK, DuePending, Announce
    PROVE  \E c \in Conf : Posting(c)
<1>1. PICK c \in Conf, i \in Instance : AnnounceComesTo(c, i)
  BY AnnounceCases
<1>2. PICK p \in Nat : AnnounceCase(c, i, p)
  BY <1>1 DEF AnnounceComesTo
<1>3. /\ UNCHANGED <<now, start, end, endedPosts, sub, pc, resolved, pruned>> /\ pc # "idle"
  BY <1>1 DEF AnnounceComesTo, AnnounceLeaves
<1>4. CASE StaysPending(c, i)
  <2>1. KeepsStates(c)
    BY <1>4 DEF StaysPending, KeepsStates
  <2> QED BY <1>3, <1>4, <2>1 DEF StaysPending, Posting, PostingCase
<1>5. CASE GivenUp(c)
  <2>1. KeepsStates(c)
    BY <1>5 DEF GivenUp, KeepsStates
  <2> QED BY <1>3, <1>5, <2>1 DEF GivenUp, Posting, PostingCase
<1>6. CASE FoundOver(c)
  <2>1. StoresSilence(c)
    BY <1>6 DEF FoundOver, StoresSilence
  <2> QED BY <1>3, <1>6, <2>1 DEF FoundOver, Posting, PostingCase
<1>7. CASE JoinsPost(c, i, p)
  <2>1. Joins(c, i, p)
    BY <1>7 DEF JoinsPost, Joins, StoresPosted
  <2> QED BY <1>3, <1>7, <2>1 DEF JoinsPost, Posting, PostingCase
<1>8. CASE OpensPost(c, i, p)
  <2>1. Opens(c, i, p)
    BY <1>8 DEF OpensPost, Opens, StoresPosted
  <2> QED BY <1>3, <1>8, <2>1 DEF OpensPost, Posting, PostingCase
<1> QED BY <1>2, <1>4, <1>5, <1>6, <1>7, <1>8 DEF AnnounceCase

LEMMA PostingClassify ==
    ASSUME TypeOK, Classify
    PROVE  \E c \in Conf : Posting(c)
<1>1. PICK c \in Conf : ClassifyComesTo(c)
  BY ClassifyCases
<1>2. /\ UNCHANGED <<now, start, end, endedPosts, sub, pc, resolved, pruned>> /\ pc # "idle"
      /\ PostAllowed(c)
  BY <1>1 DEF ClassifyComesTo
<1>3. CASE StaysUnhandled(c)
  <2>1. KeepsStates(c)
    BY <1>3 DEF StaysUnhandled, KeepsStates, PostAllowed
  <2> QED BY <1>2, <1>3, <2>1 DEF StaysUnhandled, Posting, PostingCase
<1>4. CASE SeenAgain(c)
  <2>1. KeepsStates(c)
    BY <1>4 DEF SeenAgain, KeepsStates
  <2> QED BY <1>2, <1>4, <2>1 DEF SeenAgain, Posting, PostingCase
<1>5. ASSUME NEW i \in Instance, Deferred(c, i)
      PROVE  Posting(c)
  <2>1. KeepsStates(c)
    BY <1>5 DEF Deferred, KeepsStates
  <2> QED BY <1>2, <1>5, <2>1 DEF Deferred, Posting, PostingCase
<1>6. ASSUME NEW state, NEW b, DecisionStored(c, state, b)
      PROVE  /\ changed' = TRUE /\ mem.active \subseteq mem'.active
             /\ kv' = [kv EXCEPT ![c] = state] /\ mem'.bindings = b
             /\ state.kind = "posted" => c \in mem'.active \/ MayFail("kvread")
  BY <1>6 DEF DecisionStored
<1>7. \A p : PostedState(p).kind = "posted"
  BY DEF PostedState
<1>8. CASE Silenced(c)
  <2>1. StoresSilence(c) /\ changed' = TRUE /\ mem.active \subseteq mem'.active
    BY <1>8 DEF Silenced, DecisionStored, StoresSilence, SuppressedState
  <2> QED BY <1>2, <2>1 DEF Posting, PostingCase
<1>9. ASSUME NEW i \in Instance, NEW p \in Nat, BoundTo(c, i, p)
      PROVE  Posting(c)
  <2>1. Joins(c, i, p) /\ changed' = TRUE /\ mem.active \subseteq mem'.active
    BY <1>6, <1>7, <1>9 DEF BoundTo, Joins, StoresPosted
  <2> QED BY <1>2, <2>1 DEF Posting, PostingCase
<1>10. ASSUME NEW i \in Instance, NEW p \in Nat, PostedAndBound(c, i, p)
       PROVE  Posting(c)
  <2>1. Opens(c, i, p) /\ changed' = TRUE /\ mem.active \subseteq mem'.active
    BY <1>6, <1>7, <1>10 DEF PostedAndBound, Opens, StoresPosted
  <2> QED BY <1>2, <2>1 DEF Posting, PostingCase
<1>11. ASSUME NEW p \in Nat, PostedUnbound(c, p)
       PROVE  Posting(c)
  <2>1. Stands(c, p) /\ changed' = TRUE /\ mem.active \subseteq mem'.active
    BY <1>6, <1>7, <1>11 DEF PostedUnbound, Stands, StoresPosted
  <2> QED BY <1>2, <2>1 DEF Posting, PostingCase
<1> QED BY <1>1, <1>3, <1>4, <1>5, <1>8, <1>9, <1>10, <1>11 DEF ClassifyComesTo, ClassifyCase

(* A stored state or a binding names a post that was made, and no two events  *)
(* hold the same post.                                                      *)
StatesNamePosts ==
    \A c \in Conf : /\ kv[c].post <= Len(posts)
                    /\ kv[c].kind = "posted" => kv[c].post # 0

BindingsNamePosts(s) == \A i \in Instance : s.bindings[i].post <= Len(posts)

BindingsApart(s) ==
    \A i, j \in Instance :
        s.bindings[i].post # 0 /\ s.bindings[i].post = s.bindings[j].post => i = j

PostsInv ==
    /\ StatesNamePosts
    /\ BindingsNamePosts(sub) /\ BindingsNamePosts(mem)
    /\ BindingsApart(sub) /\ BindingsApart(mem)

LEMMA PostsInit == Init => PostsInv
BY DEF Init, PostsInv, StatesNamePosts, BindingsNamePosts, BindingsApart, NoState,
       NewSubscription, NoBinding

LEMMA PostsPosting ==
    ASSUME TypeOK, PostsInv, NEW c \in Conf, Posting(c)
    PROVE  PostsInv'
<1>1. /\ kv \in [Conf -> ConferencePostState] /\ mem \in Subscription /\ Len(posts) \in Nat
      /\ mem.bindings \in [Instance -> EventPostBinding]
      /\ \A d \in Conf : kv[d].post \in Nat
      /\ \A i \in Instance : mem.bindings[i].post \in Nat /\ sub.bindings[i].post \in Nat
  BY DEF TypeOK, Subscription, EventPostBinding, ConferencePostState, PostId
<1>2. sub' = sub
  BY DEF Posting
<1>3. ASSUME NEW i \in Instance \cup {NoInstance}, CreatePost(c, i)
      PROVE  Len(posts') = Len(posts) + 1
  BY <1>3, CreatedPost
<1>4. CASE KeepsStates(c)
  <2>1. Len(posts') = Len(posts) \/ Len(posts') = Len(posts) + 1
    BY <1>3, <1>4 DEF KeepsStates
  <2> QED BY <1>1, <1>2, <1>4, <2>1
          DEF KeepsStates, PostsInv, StatesNamePosts, BindingsNamePosts, BindingsApart
<1>5. CASE StoresSilence(c)
  <2>1. kv'[c] = SuppressedState /\ \A d \in Conf : d # c => kv'[d] = kv[d]
    BY <1>1, <1>5 DEF StoresSilence
  <2> QED BY <1>1, <1>2, <1>5, <2>1
          DEF StoresSilence, SuppressedState, PostsInv, StatesNamePosts, BindingsNamePosts,
              BindingsApart
<1>6. ASSUME NEW p \in Nat, StoresPosted(c, p)
      PROVE  /\ kv'[c].post = p
             /\ \A d \in Conf : d # c => kv'[d] = kv[d]
  BY <1>1, <1>6 DEF StoresPosted, PostedState
<1>7. ASSUME NEW i \in Instance, NEW p \in Nat, Joins(c, i, p)
      PROVE  PostsInv'
  <2>1. \A j \in Instance : mem'.bindings[j].post = mem.bindings[j].post
    BY <1>1, <1>7 DEF Joins, JoinBinding, EventPostBinding
  <2>2. kv'[c].post = p /\ \A d \in Conf : d # c => kv'[d] = kv[d]
    BY <1>6, <1>7 DEF Joins
  <2>3. p # 0 /\ p <= Len(posts) /\ posts' = posts
    BY <1>7 DEF Joins, PostsInv, BindingsNamePosts
  <2>4. StatesNamePosts'
    BY <2>2, <2>3 DEF PostsInv, StatesNamePosts
  <2>5. BindingsNamePosts(sub)' /\ BindingsNamePosts(mem)'
    BY <1>2, <2>1, <2>3 DEF PostsInv, BindingsNamePosts
  <2>6. BindingsApart(sub)' /\ BindingsApart(mem)'
    BY <1>2, <2>1 DEF PostsInv, BindingsApart
  <2> QED BY <2>4, <2>5, <2>6 DEF PostsInv
<1>8. ASSUME NEW i \in Instance, NEW p \in Nat, Opens(c, i, p)
      PROVE  PostsInv'
  <2>1. /\ mem'.bindings[i].post = p
        /\ \A j \in Instance : j # i => mem'.bindings[j] = mem.bindings[j]
    BY <1>1, <1>8 DEF Opens, NewBinding
  <2>2. kv'[c].post = p /\ \A d \in Conf : d # c => kv'[d] = kv[d]
    BY <1>6, <1>8 DEF Opens
  <2>3. p = Len(posts) + 1 /\ Len(posts') = Len(posts) + 1
    BY <1>3, <1>8 DEF Opens
  <2>4. StatesNamePosts'
    BY <1>1, <2>2, <2>3 DEF PostsInv, StatesNamePosts
  <2>5. BindingsNamePosts(sub)' /\ BindingsNamePosts(mem)'
    BY <1>1, <1>2, <2>1, <2>3 DEF PostsInv, BindingsNamePosts
  <2>6. BindingsApart(sub)' /\ BindingsApart(mem)'
    BY <1>1, <1>2, <2>1, <2>3 DEF PostsInv, BindingsApart, BindingsNamePosts
  <2> QED BY <2>4, <2>5, <2>6 DEF PostsInv
<1>9. ASSUME NEW p \in Nat, Stands(c, p)
      PROVE  PostsInv'
  <2>1. kv'[c].post = p /\ \A d \in Conf : d # c => kv'[d] = kv[d]
    BY <1>6, <1>9 DEF Stands
  <2>2. p = Len(posts) + 1 /\ Len(posts') = Len(posts) + 1 /\ mem'.bindings = mem.bindings
    BY <1>3, <1>9 DEF Stands
  <2>3. StatesNamePosts'
    BY <1>1, <2>1, <2>2 DEF PostsInv, StatesNamePosts
  <2> QED BY <1>1, <1>2, <2>2, <2>3 DEF PostsInv, BindingsNamePosts, BindingsApart
<1> QED BY <1>4, <1>5, <1>7, <1>8, <1>9 DEF Posting, PostingCase

(* Every other step copies the bindings between the two copies, and empties   *)
(* some.                                                                    *)
CopiedFrom(t, s) ==
    \A i \in Instance : t.bindings[i] = s.bindings[i] \/ t.bindings[i] = NoBinding

Copying == Environment \/ BeginCycle \/ ListRecords \/ SaveBatch \/ EndCycle \/ Crash

LEMMA CopyingCases ==
    ASSUME TypeOK, Copying
    PROVE  /\ posts' = posts /\ kv' = kv /\ (now' = now \/ now' = now + 1)
           /\ CopiedFrom(sub', sub) \/ CopiedFrom(sub', mem)
           /\ CopiedFrom(mem', sub) \/ CopiedFrom(mem', mem)
<1> USE DEF CopiedFrom
<1>1. mem \in Subscription
  BY DEF TypeOK
<1>2. CASE Environment \/ BeginCycle \/ Crash
  BY <1>2
  DEF Environment, Tick, StartConference, EndConference, BeginCycle, Crash, chatVars
<1>3. CASE ListRecords
  <2>1. mem'.bindings = PruneExpiredEventBindings(mem.bindings)
    BY <1>1, <1>3 DEF ListRecords, Subscription
  <2> QED BY <1>3, <2>1 DEF ListRecords, chatVars, PruneExpiredEventBindings
<1>4. CASE SaveBatch
  <2>1. mem'.bindings = mem.bindings
    BY <1>1, <1>4 DEF SaveBatch, Subscription
  <2> QED BY <1>4, <2>1, SaveBatchFacts DEF SaveBatch, chatVars
<1>5. CASE EndCycle
  <2>1. sub' = sub \/ sub'.bindings = mem.bindings
    BY <1>1, <1>5 DEF EndCycle, WriteBack, Subscription
  <2> QED BY <1>5, <2>1 DEF EndCycle, chatVars
<1> QED BY <1>2, <1>3, <1>4, <1>5 DEF Copying

LEMMA PostsStep == TypeInv /\ PostsInv /\ [Next]_vars => PostsInv'
<1> SUFFICES ASSUME TypeOK, DuePending, PostsInv, [Next]_vars
             PROVE  PostsInv'
  BY DEF TypeInv
<1>1. CASE Announce \/ Classify
  BY <1>1, PostingAnnounce, PostingClassify, PostsPosting
<1>2. CASE Copying
  <2>1. ASSUME NEW t, NEW s, BindingsNamePosts(s), BindingsApart(s), CopiedFrom(t, s)
        PROVE  BindingsNamePosts(t) /\ BindingsApart(t)
    BY <2>1 DEF BindingsNamePosts, BindingsApart, CopiedFrom, NoBinding, TypeOK
  <2>2. posts' = posts /\ kv' = kv
    BY <1>2, CopyingCases
  <2>3. /\ BindingsNamePosts(sub') /\ BindingsApart(sub')
        /\ BindingsNamePosts(mem') /\ BindingsApart(mem')
    BY <1>2, <2>1, CopyingCases DEF PostsInv
  <2> QED BY <2>2, <2>3 DEF PostsInv, StatesNamePosts, BindingsNamePosts, BindingsApart
<1>3. CASE (\E c \in Conf : ResolveEnd(c)) \/ BeginMarking \/ Mark
  <2>1. /\ posts' = posts /\ sub' = sub
        /\ \A i \in Instance : mem'.bindings[i].post = mem.bindings[i].post
        /\ \A d \in Conf : kv'[d].post = kv[d].post /\ kv'[d].kind = kv[d].kind
    BY <1>3, PassesCases DEF PassesLeave, QuietEffect
  <2> QED BY <2>1 DEF PostsInv, StatesNamePosts, BindingsNamePosts, BindingsApart
<1>4. CASE UNCHANGED vars
  BY <1>4 DEF vars, PostsInv, StatesNamePosts, BindingsNamePosts, BindingsApart
<1> QED BY <1>1, <1>2, <1>3, <1>4 DEF Next, PollStep, Copying

-----------------------------------------------------------------------------
(* A post is marked ended when its meeting is over *)

(* Pass 2 works with the ends Google recorded. *)
ResolvedAreReal == \A c \in Conf : resolved[c] \in {0, end[c]}

LEMMA ResolvedStep ==
    ASSUME TypeOK, DuePending, TimesInOrder, EndsAreReal, ResolvedAreReal, [Next]_vars
    PROVE  ResolvedAreReal'
<1>1. CASE UNCHANGED vars
  BY <1>1 DEF vars, ResolvedAreReal
<1>2. CASE \E c \in Conf : ResolveEnd(c)
  <2>1. PICK c \in Conf : ResolveEnd(c)
    BY <1>2
  <2>2. PICK known \in {0, endTimes[c], end[c]} :
            resolved' = resolved \/ resolved' = [resolved EXCEPT ![c] = known]
    BY <2>1 DEF ResolveEnd
  <2>3. known \in {0, end[c]} /\ end' = end
    BY <2>1, <2>2 DEF EndsAreReal, ResolveEnd, googleVars
  <2>4. \A d \in Conf : resolved'[d] \in {resolved[d], 0, end[d]}
    BY <2>2, <2>3 DEF TypeOK
  <2> QED BY <2>3, <2>4 DEF ResolvedAreReal
<1>3. CASE Next /\ ~(\E c \in Conf : ResolveEnd(c))
  <2>1. resolved' = resolved \/ resolved' = NoTimes
    <3>1. CASE Announce \/ Classify
      BY <3>1, PostingAnnounce, PostingClassify DEF Posting
    <3>2. CASE Copying \/ BeginMarking \/ Mark
      BY <3>2
      DEF Copying, Environment, Tick, StartConference, EndConference, BeginCycle, ListRecords,
          SaveBatch, EndCycle, Crash, BeginMarking, Mark, MarkUnboundEnded, FlagBoundEnded,
          MarkBindingEnded, PassOver, markUnchanged, markVars
    <3> QED BY <1>3, <3>1, <3>2 DEF Next, PollStep, Copying
  <2>2. \A c \in Conf : end[c] # 0 => end'[c] = end[c]
    BY <1>3, TimesStable
  <2> QED BY <2>1, <2>2 DEF ResolvedAreReal, NoTimes
<1> QED BY <1>1, <1>2, <1>3

(* The steps that rewrite a post as ended. *)
LEMMA EndedBy ==
    ASSUME TypeOK, DuePending, Next, NEW p \in endedPosts' \ endedPosts
    PROVE  \E c \in Conf :
              /\ pc = "mark" /\ CanEnd(c) /\ p = Get(c).post
              /\ \/ BindingsOf(p) = {}
                 \/ \E i \in Instance : MarkBindingEnded(c, i)
<1>1. CASE Mark
  <2>1. PICK c \in Conf : \/ MarkUnboundEnded(c)
                          \/ \E i \in Instance : FlagBoundEnded(c, i) \/ MarkBindingEnded(c, i)
                          \/ PassOver(c)
    BY <1>1 DEF Mark
  <2>2. \/ MarkUnboundEnded(c)
        \/ \E i \in Instance : MarkBindingEnded(c, i)
    BY <2>1 DEF FlagBoundEnded, PassOver
  <2> QED BY <2>2 DEF MarkUnboundEnded, MarkBindingEnded, Marking
<1>2. CASE Announce \/ Classify
  BY <1>2, PostingAnnounce, PostingClassify DEF Posting
<1>3. CASE Copying \/ BeginMarking \/ \E c \in Conf : ResolveEnd(c)
  BY <1>3
  DEF Copying, Environment, Tick, StartConference, EndConference, BeginCycle, ListRecords,
      SaveBatch, EndCycle, Crash, BeginMarking, ResolveEnd, chatVars
<1> QED BY <1>1, <1>2, <1>3 DEF Next, PollStep, Copying

LEMMA EndKnownIsOver ==
    ASSUME TypeOK, ResolvedAreReal, NEW c \in Conf, CanEnd(c)
    PROVE  PostOf(c) = Get(c).post /\ OverFor(0, c) /\ Live(c)
<1>1. end[c] \in Nat /\ now \in Nat /\ resolved[c] = end[c] /\ end[c] # 0 /\ end[c] <= now
  BY DEF TypeOK, Time, ResolvedAreReal, CanEnd, EndKnown
<1>2. Get(c).kind = "posted"
  BY DEF CanEnd
<1> QED BY <1>1, <1>2, LiveIsPosted DEF PostOf, OverFor

EndsInv == TypeInv /\ LostInv /\ SuppressionInv /\ ResolvedAreReal

LEMMA EndsInvariant == Spec => []EndsInv
<1>1. Init => EndsInv
  BY TypeInit, LostInit, SuppressionInit
  DEF EndsInv, TypeInv, Init, DuePending, ResolvedAreReal, NoTimes
<1>2. EndsInv /\ [Next]_vars => EndsInv'
  BY TypeStep, LostStep, SuppressionStep, ResolvedStep
  DEF EndsInv, TypeInv, LostInv, SuppressionInv
<1> QED BY <1>1, <1>2, PTL DEF Spec

(* Whatever fails, a post that is rewritten as ended announces a conference   *)
(* that Google says has ended: the first half of EndedOnlyWhenOver.          *)
THEOREM EndedPostsHaveEnded ==
    Spec => [][\A p \in endedPosts' \ endedPosts :
                  \E c \in Conf : PostOf(c) = p /\ OverFor(0, c)]_vars
<1>1. ASSUME EndsInv, Next, NEW p \in endedPosts' \ endedPosts
      PROVE  \E c \in Conf : PostOf(c) = p /\ OverFor(0, c)
  <2>1. PICK c \in Conf : CanEnd(c) /\ p = Get(c).post
    BY <1>1, EndedBy DEF EndsInv, TypeInv
  <2> QED BY <1>1, <2>1, EndKnownIsOver DEF EndsInv, TypeInv
<1>2. EndsInv /\ [Next]_vars
          => [\A p \in endedPosts' \ endedPosts :
                 \E c \in Conf : PostOf(c) = p /\ OverFor(0, c)]_vars
  BY <1>1
<1> QED BY <1>2, EndsInvariant, PTL DEF Spec

(* The cycle's copy holds nothing that a cycle begun next would not read: what *)
(* it changed it will write.  True as long as neither a write back nor the   *)
(* node fails.                                                              *)
NothingUnsaved == mem = sub \/ (changed /\ pc # "idle")

LEMMA UnsavedStep ==
    ASSUME ~MayFail("kvsub"), ~MayFail("crash"),
           TypeOK, DuePending, NothingUnsaved, [Next]_vars
    PROVE  NothingUnsaved'
<1> USE DEF NothingUnsaved
<1>2. ~Crash
  BY DEF Crash, Fail, MayFail
<1>3. CASE Environment \/ BeginCycle \/ UNCHANGED vars
  BY <1>3 DEF Environment, Tick, StartConference, EndConference, BeginCycle, vars
<1>4. CASE Announce \/ Classify
  BY <1>4, PostingAnnounce, PostingClassify DEF Posting
<1>5. CASE ListRecords
  <2>1. CASE mem'.bindings = mem.bindings
    <3>1. mem' = mem
      BY <1>5, <2>1 DEF ListRecords, TypeOK, Subscription
    <3> QED BY <1>5, <3>1 DEF ListRecords
  <2> QED BY <1>5, <2>1 DEF ListRecords
<1>6. CASE SaveBatch
  <2>1. CASE changed \/ mem' # mem
    BY <1>6, <2>1 DEF SaveBatch, WriteBack, Fail, MayFail
  <2>2. CASE ~changed /\ mem' = mem
    BY <1>6, <2>2 DEF SaveBatch
  <2> QED BY <2>1, <2>2
<1>7. CASE (\E c \in Conf : ResolveEnd(c)) \/ BeginMarking \/ Mark
  BY <1>7, PassesCases DEF PassesLeave, QuietEffect
<1>8. CASE EndCycle
  BY <1>8 DEF EndCycle
<1> QED BY <1>2, <1>3, <1>4, <1>5, <1>6, <1>7, <1>8 DEF Next, PollStep

(* Then the steps that copy the record keep every binding until it expires,   *)
(* and every tracked conference until pass 2 left it out.                    *)
LEMMA CopyingKeeps ==
    ASSUME ~MayFail("kvsub"), ~MayFail("crash"),
           TypeOK, NothingUnsaved, Copying
    PROVE  /\ mem.active \ pruned \subseteq mem'.active
           /\ \A i \in Instance :
                 \/ mem'.bindings[i] = mem.bindings[i]
                 \/ mem'.bindings[i] = NoBinding /\ InstEnd[i] + Retention <= now
<1>1. mem \in Subscription
  BY DEF TypeOK
<1>2. ~Crash
  BY DEF Crash, Fail, MayFail
<1>3. CASE Environment \/ BeginCycle
  BY <1>3 DEF Environment, Tick, StartConference, EndConference, BeginCycle, NothingUnsaved
<1>4. CASE ListRecords
  <2>1. mem'.bindings = PruneExpiredEventBindings(mem.bindings) /\ mem'.active = mem.active
    BY <1>1, <1>4 DEF ListRecords, Subscription
  <2> QED BY <2>1 DEF PruneExpiredEventBindings
<1>5. CASE SaveBatch
  BY <1>1, <1>5 DEF SaveBatch, Subscription
<1>6. CASE EndCycle
  <2>1. mem' = mem \/ mem' = [mem EXCEPT !.active = @ \ pruned]
    BY <1>6 DEF EndCycle, WriteBack, Fail, MayFail, NothingUnsaved
  <2> QED BY <1>1, <2>1 DEF Subscription
<1> QED BY <1>2, <1>3, <1>4, <1>5, <1>6 DEF Copying

(* A live conference is tracked, and listed by its event's binding. *)
LiveAreActive == \A c \in Conf : Live(c) => c \in mem.active

BoundAreNamed ==
    \A i \in Instance, c \in Conf :
        mem.bindings[i].post # 0 /\ Live(c) /\ kv[c].post = mem.bindings[i].post
            => c \in mem.bindings[i].names

NamesInv == NothingUnsaved /\ LiveAreActive /\ BoundAreNamed

LEMMA NamesPosting ==
    ASSUME ~MayFail("kvread"), TypeOK, PostsInv, LiveAreActive, BoundAreNamed,
           NEW c \in Conf, Posting(c)
    PROVE  LiveAreActive' /\ BoundAreNamed'
<1>1. /\ kv \in [Conf -> ConferencePostState] /\ Len(posts) \in Nat
      /\ mem.bindings \in [Instance -> EventPostBinding]
      /\ \A d \in Conf : kv[d].post \in Nat
      /\ \A i \in Instance : mem.bindings[i].post \in Nat
  BY DEF TypeOK, Subscription, EventPostBinding, ConferencePostState, PostId
<1>2. mem.active \subseteq mem'.active /\ now' = now
  BY DEF Posting
<1>3. CASE KeepsStates(c)
  BY <1>2, <1>3 DEF KeepsStates, LiveAreActive, BoundAreNamed, Live
<1>4. CASE StoresSilence(c)
  <2>1. ~Live(c)' /\ \A d \in Conf : d # c => kv'[d] = kv[d]
    BY <1>1, <1>4 DEF StoresSilence, SuppressedState, Live
  <2> QED BY <1>2, <1>4, <2>1 DEF StoresSilence, LiveAreActive, BoundAreNamed, Live
<1>5. ASSUME NEW p \in Nat, StoresPosted(c, p)
      PROVE  /\ LiveAreActive' /\ kv'[c].post = p
             /\ \A d \in Conf : d # c => kv'[d] = kv[d] /\ (Live(d)' <=> Live(d))
  <2>1. kv'[c].post = p /\ \A d \in Conf : d # c => kv'[d] = kv[d]
    BY <1>1, <1>5 DEF StoresPosted, PostedState
  <2>2. \A d \in Conf : d # c => (Live(d)' <=> Live(d))
    BY <1>2, <2>1 DEF Live
  <2>3. c \in mem'.active
    BY <1>5 DEF StoresPosted
  <2> QED BY <1>2, <2>1, <2>2, <2>3 DEF LiveAreActive
<1>6. ASSUME NEW i \in Instance, NEW p \in Nat, Joins(c, i, p)
      PROVE  LiveAreActive' /\ BoundAreNamed'
  <2>1. /\ LiveAreActive' /\ kv'[c].post = p
        /\ \A d \in Conf : d # c => kv'[d] = kv[d] /\ (Live(d)' <=> Live(d))
    BY <1>5, <1>6 DEF Joins
  <2>2. /\ mem'.bindings[i].post = p /\ p = mem.bindings[i].post /\ p # 0
        /\ mem'.bindings[i].names = mem.bindings[i].names \cup {c}
        /\ \A j \in Instance : j # i => mem'.bindings[j] = mem.bindings[j]
    BY <1>1, <1>6 DEF Joins, JoinBinding, EventPostBinding
  <2>3. \A j \in Instance : mem.bindings[j].post = p => j = i
    BY <2>2 DEF PostsInv, BindingsApart
  <2> QED BY <2>1, <2>2, <2>3 DEF BoundAreNamed
<1>7. ASSUME NEW i \in Instance, NEW p \in Nat, Opens(c, i, p)
      PROVE  LiveAreActive' /\ BoundAreNamed'
  <2>1. /\ LiveAreActive' /\ kv'[c].post = p
        /\ \A d \in Conf : d # c => kv'[d] = kv[d] /\ (Live(d)' <=> Live(d))
    BY <1>5, <1>7 DEF Opens
  <2>2. /\ mem'.bindings[i].post = p /\ mem'.bindings[i].names = {c}
        /\ \A j \in Instance : j # i => mem'.bindings[j] = mem.bindings[j]
    BY <1>1, <1>7 DEF Opens, NewBinding
  <2>3. /\ \A d \in Conf : kv[d].post # p
        /\ \A j \in Instance : mem.bindings[j].post # p
    BY <1>1, <1>7 DEF Opens, PostsInv, StatesNamePosts, BindingsNamePosts
  <2> QED BY <2>1, <2>2, <2>3 DEF BoundAreNamed
<1>8. ASSUME NEW p \in Nat, Stands(c, p)
      PROVE  LiveAreActive' /\ BoundAreNamed'
  <2>1. /\ LiveAreActive' /\ kv'[c].post = p
        /\ \A d \in Conf : d # c => kv'[d] = kv[d] /\ (Live(d)' <=> Live(d))
    BY <1>5, <1>8 DEF Stands
  <2>2. mem'.bindings = mem.bindings
    BY <1>8 DEF Stands
  <2>3. \A j \in Instance : mem.bindings[j].post # p
    BY <1>1, <1>8 DEF Stands, PostsInv, BindingsNamePosts
  <2> QED BY <2>1, <2>2, <2>3 DEF BoundAreNamed
<1> QED BY <1>3, <1>4, <1>6, <1>7, <1>8 DEF Posting, PostingCase

LEMMA NamesStep ==
    ASSUME ~MayFail("kvread"), ~MayFail("kvsub"), ~MayFail("crash"),
           TypeOK, DuePending, TrackingInv, PostsInv, NamesInv, [Next]_vars
    PROVE  NamesInv'
<1> USE DEF NamesInv
<1>1. NothingUnsaved'
  BY UnsavedStep
<1>2. CASE Announce \/ Classify
  BY <1>1, <1>2, PostingAnnounce, PostingClassify, NamesPosting
<1>3. CASE Copying
  <2>1. /\ kv' = kv /\ (now' = now \/ now' = now + 1)
        /\ mem.active \ pruned \subseteq mem'.active
        /\ \A i \in Instance :
              mem'.bindings[i] = mem.bindings[i] \/ mem'.bindings[i] = NoBinding
    BY <1>3, CopyingCases, CopyingKeeps
  <2>2. \A c \in Conf : Live(c)' => Live(c)
    BY <2>1 DEF Live, TypeOK, ConferencePostState
  <2>3. LiveAreActive'
    BY <2>1, <2>2 DEF LiveAreActive, TrackingInv, PrunedAreGone
  <2>4. BoundAreNamed'
    BY <2>1, <2>2 DEF BoundAreNamed, NoBinding
  <2> QED BY <1>1, <2>3, <2>4
<1>4. CASE (\E c \in Conf : ResolveEnd(c)) \/ BeginMarking \/ Mark
  <2>1. PassesLeave
    BY <1>4, PassesCases
  <2>2. \A c \in Conf : Live(c)' => Live(c)
    BY <2>1, LiveOnlyBefore
  <2> QED BY <1>1, <2>1, <2>2 DEF PassesLeave, LiveAreActive, BoundAreNamed
<1>5. CASE UNCHANGED vars
  BY <1>1, <1>5 DEF vars, LiveAreActive, BoundAreNamed, Live
<1> QED BY <1>2, <1>3, <1>4, <1>5 DEF Next, PollStep, Copying

(* The binding's meeting is over when every conference its post announces has *)
(* been over for the rejoin grace: none of them escapes the binding's names, *)
(* or the list of tracked conferences.                                      *)
LEMMA BindingOverIsOver ==
    ASSUME TypeOK, TrackingInv, PostsInv, NamesInv, ResolvedAreReal,
           NEW c \in Conf, NEW i \in Instance, MarkBindingEnded(c, i),
           NEW d \in Conf, PostOf(d) = mem.bindings[i].post
    PROVE  OverFor(Grace, d)
<1>1. Live(c) /\ Get(c) = kv[c] /\ mem.bindings[i].post = kv[c].post
  BY EndKnownIsOver, LiveIsPosted DEF MarkBindingEnded, BindingsOf
<1>2. mem.bindings[i].post # 0
  BY <1>1 DEF PostsInv, StatesNamePosts, Live
<1>3. Live(d) /\ kv[d].post = mem.bindings[i].post
  BY <1>2, LiveIsPosted
<1>4. d \in mem.bindings[i].names /\ d \in mem.active /\ d \notin pruned
  BY <1>2, <1>3 DEF NamesInv, LiveAreActive, BoundAreNamed, TrackingInv, PrunedAreGone
<1>5. resolved[d] # 0 /\ resolved[d] + Grace <= now
  BY <1>4 DEF MarkBindingEnded, BindingOver, Tracked
<1> QED BY <1>5 DEF ResolvedAreReal, OverFor

(* With the subscription's writes and the post states' reads succeeding and   *)
(* the node staying up, a post is marked ended only when its meeting is      *)
(* over, all of an event's records included; Google, the calendar,           *)
(* Mattermost and the post states' writes may fail at will.                  *)
THEOREM EndedWhenOver ==
    ASSUME ~MayFail("kvread"), ~MayFail("kvsub"), ~MayFail("crash")
    PROVE  Spec => EndedOnlyWhenOver
<1> DEFINE Inv == EndsInv /\ TrackingInv /\ PostsInv /\ NamesInv
<1>1. Init => Inv
  <2>1. Init => NamesInv
    BY DEF Init, NamesInv, NothingUnsaved, LiveAreActive, BoundAreNamed, Live, NoState
  <2>2. Init => EndsInv
    BY TypeInit, LostInit, SuppressionInit
    DEF EndsInv, TypeInv, Init, DuePending, ResolvedAreReal, NoTimes
  <2> QED BY <2>1, <2>2, TrackingInit, PostsInit
<1>2. Inv /\ [Next]_vars => Inv'
  <2> SUFFICES ASSUME Inv, [Next]_vars
               PROVE  Inv'
    OBVIOUS
  <2>1. EndsInv'
    BY TypeStep, LostStep, SuppressionStep, ResolvedStep
    DEF EndsInv, TypeInv, LostInv, SuppressionInv
  <2>2. TrackingInv' /\ PostsInv'
    BY TrackingStep, PostsStep DEF EndsInv
  <2>3. NamesInv'
    BY NamesStep DEF EndsInv, TypeInv
  <2> QED BY <2>1, <2>2, <2>3
<1>3. ASSUME Inv, Next, NEW p \in endedPosts' \ endedPosts
      PROVE  /\ \E c \in Conf : PostOf(c) = p /\ OverFor(0, c)
             /\ BindingsOf(p) # {} => \A c \in Conf : PostOf(c) = p => OverFor(Grace, c)
  <2>1. PICK c \in Conf :
            /\ CanEnd(c) /\ p = Get(c).post
            /\ BindingsOf(p) = {} \/ \E i \in Instance : MarkBindingEnded(c, i)
    BY <1>3, EndedBy DEF EndsInv, TypeInv
  <2>2. PostOf(c) = p /\ OverFor(0, c)
    BY <1>3, <2>1, EndKnownIsOver DEF EndsInv, TypeInv
  <2>3. ASSUME NEW i \in Instance, MarkBindingEnded(c, i), NEW d \in Conf, PostOf(d) = p
        PROVE  OverFor(Grace, d)
    <3>1. mem.bindings[i].post = p
      BY <2>1, <2>3 DEF MarkBindingEnded, BindingsOf
    <3> QED BY <1>3, <2>3, <3>1, BindingOverIsOver DEF EndsInv, TypeInv
  <2> QED BY <2>1, <2>2, <2>3
<1>4. Inv /\ [Next]_vars
          => [\A p \in endedPosts' \ endedPosts :
                 /\ \E c \in Conf : PostOf(c) = p /\ OverFor(0, c)
                 /\ BindingsOf(p) # {} =>
                       \A c \in Conf : PostOf(c) = p => OverFor(Grace, c)]_vars
  BY <1>3
<1> QED BY <1>1, <1>2, <1>4, PTL DEF Spec, EndedOnlyWhenOver

-----------------------------------------------------------------------------
(* An event is announced once *)

(* An event that was announced keeps its binding until it expires. *)
EventPostKept ==
    \A p \in DOMAIN posts : posts[p].inst # NoInstance =>
        \/ mem.bindings[posts[p].inst].post # 0
        \/ InstEnd[posts[p].inst] + Retention <= now

LEMMA MadePosts ==
    ASSUME TypeOK
    PROVE  \A p \in DOMAIN posts :
               posts[p].inst \in Instance \cup {NoInstance} /\ posts[p].conf \in Conf
<1>1. posts \in Seq(Post)
  BY DEF TypeOK
<1>2. \A p \in DOMAIN posts : posts[p] \in Post
  BY <1>1
<1> QED BY <1>2 DEF Post

LEMMA EventPostPosting ==
    ASSUME ~MayFail("kvstate"), TypeOK, EventPostKept, NEW c \in Conf, Posting(c)
    PROVE  EventPostKept'
<1>1. /\ mem.bindings \in [Instance -> EventPostBinding] /\ Len(posts) \in Nat
      /\ \A q \in DOMAIN posts : posts[q].inst \in Instance \cup {NoInstance}
  BY MadePosts DEF TypeOK, Subscription
<1>2. now' = now
  BY DEF Posting
<1>3. ASSUME posts' = posts,
             \A i \in Instance : mem.bindings[i].post # 0 => mem'.bindings[i].post # 0
      PROVE  EventPostKept'
  BY <1>1, <1>2, <1>3 DEF EventPostKept
<1>4. CASE KeepsStates(c) \/ StoresSilence(c)
  BY <1>3, <1>4 DEF KeepsStates, StoresSilence
<1>5. ASSUME NEW i \in Instance, NEW p \in Nat, Joins(c, i, p)
      PROVE  EventPostKept'
  <2>1. \A j \in Instance : mem'.bindings[j].post = mem.bindings[j].post
    BY <1>1, <1>5 DEF Joins, JoinBinding, EventPostBinding
  <2> QED BY <1>3, <1>5, <2>1 DEF Joins
<1>6. ASSUME NEW i \in Instance, NEW p \in Nat, Opens(c, i, p)
      PROVE  EventPostKept'
  <2>1. /\ mem'.bindings[i].post # 0
        /\ \A j \in Instance : j # i => mem'.bindings[j] = mem.bindings[j]
    BY <1>1, <1>6 DEF Opens, NewBinding
  <2>2. \A q \in DOMAIN posts' : \/ posts'[q].inst = i
                                 \/ q \in DOMAIN posts /\ posts'[q] = posts[q]
    BY <1>1, <1>6, CreatedPost DEF Opens
  <2> QED BY <1>1, <1>2, <2>1, <2>2 DEF EventPostKept
<1>7. ASSUME NEW p \in Nat, Stands(c, p)
      PROVE  EventPostKept'
  <2>1. \A q \in DOMAIN posts' : \/ posts'[q].inst = NoInstance
                                 \/ q \in DOMAIN posts /\ posts'[q] = posts[q]
    BY <1>1, <1>7, CreatedPost DEF Stands
  <2> QED BY <1>1, <1>2, <1>7, <2>1 DEF EventPostKept, Stands
<1> QED BY <1>4, <1>5, <1>6, <1>7 DEF Posting, PostingCase

InstanceInv == NothingUnsaved /\ EventPostKept /\ OnePostPerInstance

LEMMA EventPostStep ==
    ASSUME ~MayFail("kvstate"), ~MayFail("kvsub"), ~MayFail("crash"),
           TypeOK, DuePending, NothingUnsaved, EventPostKept, [Next]_vars
    PROVE  EventPostKept'
<1>1. CASE Announce \/ Classify
  BY <1>1, PostingAnnounce, PostingClassify, EventPostPosting
<1>2. ASSUME posts' = posts, now' = now \/ now' = now + 1,
             \A i \in Instance : \/ mem'.bindings[i].post = mem.bindings[i].post
                                 \/ InstEnd[i] + Retention <= now
      PROVE  EventPostKept'
  <2>1. \A p \in DOMAIN posts : posts[p].inst \in Instance \cup {NoInstance}
    BY MadePosts
  <2>2. /\ now \in Nat /\ Retention \in Nat
        /\ \A i \in Instance : InstEnd[i] \in Nat
    BY DurationsAssumption, CalendarAssumption DEF TypeOK
  <2> QED BY <1>2, <2>1, <2>2 DEF EventPostKept
<1>3. CASE Copying
  BY <1>2, <1>3, CopyingCases, CopyingKeeps
<1>4. CASE (\E c \in Conf : ResolveEnd(c)) \/ BeginMarking \/ Mark
  BY <1>2, <1>4, PassesCases DEF PassesLeave, QuietEffect
<1>5. CASE UNCHANGED vars
  BY <1>2, <1>5 DEF vars
<1> QED BY <1>1, <1>3, <1>4, <1>5 DEF Next, PollStep, Copying

LEMMA InstanceStep ==
    ASSUME TypeOK, DuePending, EventPostKept, OnePostPerInstance, [Next]_vars
    PROVE  OnePostPerInstance'
<1>1. CASE posts' = posts
  BY <1>1 DEF OnePostPerInstance
<1>2. ASSUME NEW c \in Conf, NEW i \in Instance \cup {NoInstance}, CreatePost(c, i),
             i = NoInstance \/ mem.bindings[i].post = 0
      PROVE  OnePostPerInstance'
  <2> SUFFICES ASSUME NEW p \in DOMAIN posts', NEW q \in DOMAIN posts', p < q,
                      posts'[p].inst = posts'[q].inst, posts'[p].inst # NoInstance
               PROVE  posts'[q].at >= InstEnd[posts'[q].inst] + Retention
    BY DEF OnePostPerInstance
  <2>1. /\ DOMAIN posts = 1..Len(posts) /\ DOMAIN posts' = 1..(Len(posts) + 1)
        /\ Len(posts) \in Nat
        /\ posts'[Len(posts) + 1].inst = i /\ posts'[Len(posts) + 1].at = now
        /\ \A r \in DOMAIN posts : posts'[r] = posts[r]
    BY <1>2, CreatedPost DEF TypeOK
  <2>2. p \in DOMAIN posts /\ (q \in DOMAIN posts \/ q = Len(posts) + 1)
    BY <2>1
  <2>3. CASE q \in DOMAIN posts
    BY <2>1, <2>2, <2>3 DEF OnePostPerInstance
  <2>4. CASE q = Len(posts) + 1
    <3>1. posts[p].inst = i /\ i \in Instance /\ posts'[q].inst = i
      BY <2>1, <2>2, <2>4
    <3>2. InstEnd[i] + Retention <= now
      BY <1>2, <2>2, <3>1 DEF EventPostKept
    <3>3. now \in Nat /\ InstEnd[i] + Retention \in Nat
      BY <3>1, DurationsAssumption, CalendarAssumption DEF TypeOK
    <3> QED BY <2>1, <2>4, <3>1, <3>2, <3>3
  <2> QED BY <2>2, <2>3, <2>4
<1>3. ASSUME posts' # posts
      PROVE  \E c \in Conf : \E i \in Instance \cup {NoInstance} :
                 CreatePost(c, i) /\ (i = NoInstance \/ mem.bindings[i].post = 0)
  BY <1>3, PostsMade DEF PostFor, PostBesides, vars
<1> QED BY <1>1, <1>2, <1>3

(* With the plugin's own writes succeeding and the node staying up, an event  *)
(* is announced by one post; a second one can come only after its binding    *)
(* expired.  Google, the calendar, Mattermost and the post states' reads may *)
(* fail at will.                                                            *)
THEOREM EventsAreAnnouncedOnce ==
    ASSUME ~MayFail("kvstate"), ~MayFail("kvsub"), ~MayFail("crash")
    PROVE  Spec => []OnePostPerInstance
<1>1. Init => TypeInv /\ InstanceInv
  BY TypeInit
  DEF TypeInv, Init, DuePending, InstanceInv, NothingUnsaved, EventPostKept, OnePostPerInstance
<1>2. TypeInv /\ InstanceInv /\ [Next]_vars => (TypeInv /\ InstanceInv)'
  BY TypeStep, UnsavedStep, EventPostStep, InstanceStep DEF TypeInv, InstanceInv
<1>3. InstanceInv => OnePostPerInstance
  BY DEF InstanceInv
<1> QED BY <1>1, <1>2, <1>3, PTL DEF Spec

-----------------------------------------------------------------------------
(* A conference is announced once *)

HasPost(c) == \E p \in DOMAIN posts : posts[p].conf = c

LEMMA HasPostAfter ==
    ASSUME TypeOK, NEW c \in Conf, NEW i \in Instance \cup {NoInstance}, CreatePost(c, i),
           NEW d \in Conf
    PROVE  HasPost(d)' <=> (HasPost(d) \/ d = c)
<1>1. /\ DOMAIN posts = 1..Len(posts) /\ DOMAIN posts' = 1..(Len(posts) + 1)
      /\ Len(posts) \in Nat /\ posts'[Len(posts) + 1].conf = c
      /\ \A p \in DOMAIN posts : posts'[p] = posts[p]
  BY CreatedPost DEF TypeOK
<1> QED BY <1>1 DEF HasPost

(* One more post is harmless when its conference had none. *)
LEMMA OneMorePost ==
    ASSUME TypeOK, OnePostPerConference, NEW c \in Conf, ~HasPost(c),
           NEW i \in Instance \cup {NoInstance}, CreatePost(c, i)
    PROVE  OnePostPerConference'
<1>1. /\ DOMAIN posts = 1..Len(posts) /\ DOMAIN posts' = 1..(Len(posts) + 1)
      /\ Len(posts) \in Nat /\ posts'[Len(posts) + 1].conf = c
      /\ \A p \in DOMAIN posts : posts'[p] = posts[p]
  BY CreatedPost DEF TypeOK
<1>2. \A p \in DOMAIN posts : posts[p].conf # c
  BY DEF HasPost
<1> QED BY <1>1, <1>2 DEF OnePostPerConference

(* While neither a write back nor the node fails, a step that copies the      *)
(* record keeps its announcements, and moves the watermark only forward.     *)
LEMMA CopyingKeepsPending ==
    ASSUME ~MayFail("kvsub"), ~MayFail("crash"), TypeOK, NothingUnsaved, Copying
    PROVE  /\ mem'.announcements = mem.announcements
           /\ ~SaveBatch => mem'.lastSeen = mem.lastSeen
           /\ mem.lastSeen <= mem'.lastSeen
<1>1. mem \in Subscription /\ mem.lastSeen \in Nat /\ candidate \in Nat
  BY DEF TypeOK, Subscription, Time
<1>2. ~Crash
  BY DEF Crash, Fail, MayFail
<1>3. CASE Environment \/ BeginCycle
  BY <1>1, <1>3
  DEF Environment, Tick, StartConference, EndConference, BeginCycle, NothingUnsaved
<1>4. CASE ListRecords
  BY <1>1, <1>4 DEF ListRecords, Subscription
<1>5. CASE SaveBatch
  BY <1>1, <1>5, SaveBatchFacts DEF Later, NextWatermark
<1>6. CASE EndCycle
  <2>1. mem' = mem \/ mem' = [mem EXCEPT !.active = @ \ pruned]
    BY <1>6 DEF EndCycle, WriteBack, Fail, MayFail, NothingUnsaved
  <2> QED BY <1>1, <2>1 DEF Subscription
<1> QED BY <1>2, <1>3, <1>4, <1>5, <1>6 DEF Copying

(* First argument: when only Google's services fail, a conference is handled  *)
(* in the batch that lists it, so that one announced or deferred is never    *)
(* listed again.                                                            *)
Passed(c) ==
    /\ Started(c)
    /\ \/ start[c] <= mem.lastSeen
       \/ pc = "classify" /\ c \notin todo /\ start[c] <= candidate

PostedArePassed ==
    \A c \in Conf : HasPost(c) => Passed(c) /\ mem.announcements[c] = NoInstance

PendingArePassed == \A c \in Conf : mem.announcements[c] # NoInstance => Passed(c)

BatchGoesWell == pc = "classify" => ~hadFailure

PassedInv ==
    PostedArePassed /\ PendingArePassed /\ BatchGoesWell /\ OnePostPerConference

LEMMA PassedAnnounce ==
    ASSUME ~MayFail("post"), ~MayFail("kvstate"), TypeOK, DuePending, PassedInv, Announce
    PROVE  PassedInv'
<1> USE DEF PassedInv
<1>1. PICK c \in Conf, i \in Instance : AnnounceComesTo(c, i)
  BY AnnounceCases
<1>2. PICK p \in Nat : AnnounceCase(c, i, p)
  BY <1>1 DEF AnnounceComesTo
<1>3. /\ pc = "announce" /\ pc' = "announce" /\ c \in todo
      /\ start' = start /\ mem'.lastSeen = mem.lastSeen
  BY <1>1 DEF AnnounceComesTo, AnnounceLeaves
<1>4. /\ mem.announcements \in [Conf -> Instance \cup {NoInstance}]
      /\ mem.announcements[c] # NoInstance
  BY <1>3 DEF DuePending, TypeOK, Subscription
<1>5. \A d \in Conf : Passed(d)' <=> Passed(d)
  BY <1>3 DEF Passed, Started
<1>6. ~HasPost(c) /\ Passed(c)
  BY <1>4 DEF PostedArePassed, PendingArePassed
<1>7. BatchGoesWell'
  BY <1>3 DEF BatchGoesWell
<1>8. /\ mem'.announcements = mem.announcements \/ mem'.announcements[c] = NoInstance
      /\ \A d \in Conf : d # c => mem'.announcements[d] = mem.announcements[d]
      /\ posts' = posts \/ (mem'.announcements[c] = NoInstance /\ CreatePost(c, i))
  BY <1>2, <1>4
  DEF AnnounceCase, StaysPending, GivenUp, FoundOver, JoinsPost, OpensPost, AnnouncementGone
<1>9. PendingArePassed'
  BY <1>5, <1>8 DEF PendingArePassed
<1>10. CASE posts' = posts
  BY <1>5, <1>6, <1>7, <1>8, <1>9, <1>10 DEF PostedArePassed, HasPost, OnePostPerConference
<1>11. CASE mem'.announcements[c] = NoInstance /\ CreatePost(c, i)
  <2>1. OnePostPerConference'
    BY <1>6, <1>11, OneMorePost
  <2>2. \A d \in Conf : HasPost(d)' <=> (HasPost(d) \/ d = c)
    BY <1>11, HasPostAfter
  <2>3. PostedArePassed'
    BY <1>5, <1>6, <1>8, <1>11, <2>2 DEF PostedArePassed
  <2> QED BY <1>7, <1>9, <2>1, <2>3
<1> QED BY <1>8, <1>10, <1>11

LEMMA PassedClassify ==
    ASSUME ~MayFail("post"), ~MayFail("kvread"), ~MayFail("kvstate"),
           TypeOK, LostInv, TrackingInv, PassedInv, Classify
    PROVE  PassedInv'
<1> USE DEF PassedInv
<1>1. PICK c \in Conf : ClassifyComesTo(c)
  BY ClassifyCases
<1>2. /\ pc = "classify" /\ pc' = "classify" /\ c \in todo /\ todo' = todo \ {c}
      /\ start' = start /\ mem'.lastSeen = mem.lastSeen /\ ~hadFailure
  BY <1>1 DEF ClassifyComesTo, BatchGoesWell
<1>3. /\ mem.announcements \in [Conf -> Instance \cup {NoInstance}]
      /\ start \in [Conf -> Nat] /\ candidate \in Nat /\ mem.lastSeen \in Nat
  BY DEF TypeOK, Subscription, Time
<1>4. ~Passed(c) /\ Started(c)
  BY <1>2, <1>3 DEF Passed, TrackingInv, BatchIsNew, LostInv, BatchStarted
<1>5. ~HasPost(c) /\ mem.announcements[c] = NoInstance
  BY <1>4 DEF PostedArePassed, PendingArePassed
<1>6. ~StaysUnhandled(c)
  BY DEF StaysUnhandled
<1>7. /\ Handled(c)
      /\ \A d \in Conf : d # c => mem'.announcements[d] = mem.announcements[d]
      /\ \/ posts' = posts
         \/ /\ mem'.announcements = mem.announcements
            /\ \E i \in Instance \cup {NoInstance} : CreatePost(c, i)
  <2>1. CASE SeenAgain(c)
    BY <2>1 DEF SeenAgain
  <2>2. ASSUME NEW i \in Instance, Deferred(c, i)
        PROVE  <1>7!:
    BY <1>3, <2>2 DEF Deferred
  <2>3. ASSUME NEW state, NEW b, DecisionStored(c, state, b)
        PROVE  Handled(c) /\ mem'.announcements = mem.announcements
    BY <2>3 DEF DecisionStored
  <2>4. CASE Silenced(c)
    BY <2>4 DEF Silenced, DecisionStored
  <2>5. CASE \E i \in Instance : \E p \in Nat : BoundTo(c, i, p) \/ PostedAndBound(c, i, p)
    BY <2>3, <2>5 DEF BoundTo, PostedAndBound
  <2>6. CASE \E p \in Nat : PostedUnbound(c, p)
    BY <2>6 DEF PostedUnbound, DecisionStored
  <2> QED BY <1>1, <1>6, <2>1, <2>2, <2>4, <2>5, <2>6 DEF ClassifyComesTo, ClassifyCase
<1>8. /\ hadFailure' = hadFailure /\ candidate <= candidate' /\ start[c] <= candidate'
      /\ candidate' \in Nat
  BY <1>3, <1>7 DEF Handled, Later
<1>9. Passed(c)' /\ \A d \in Conf : Passed(d) => Passed(d)'
  BY <1>2, <1>3, <1>4, <1>8 DEF Passed, Started
<1>10. BatchGoesWell'
  BY <1>2, <1>8 DEF BatchGoesWell
<1>11. PendingArePassed'
  BY <1>7, <1>9 DEF PendingArePassed
<1>12. CASE posts' = posts
  BY <1>5, <1>7, <1>9, <1>10, <1>11, <1>12
  DEF PostedArePassed, HasPost, OnePostPerConference
<1>13. ASSUME NEW i \in Instance \cup {NoInstance}, CreatePost(c, i),
              mem'.announcements = mem.announcements
       PROVE  PassedInv'
  <2>1. OnePostPerConference'
    BY <1>5, <1>13, OneMorePost
  <2>2. \A d \in Conf : HasPost(d)' <=> (HasPost(d) \/ d = c)
    BY <1>13, HasPostAfter
  <2>3. PostedArePassed'
    BY <1>5, <1>9, <1>13, <2>2 DEF PostedArePassed
  <2> QED BY <1>10, <1>11, <2>1, <2>3
<1> QED BY <1>7, <1>12, <1>13

LEMMA PassedStep ==
    ASSUME ~MayFail("post"), ~MayFail("kvread"), ~MayFail("kvstate"),
           ~MayFail("kvsub"), ~MayFail("crash"),
           TypeOK, DuePending, LostInv, TrackingInv, NothingUnsaved, PassedInv, [Next]_vars
    PROVE  PassedInv'
<1> USE DEF PassedInv
<1>1. ASSUME posts' = posts, mem'.announcements = mem.announcements, BatchGoesWell',
             \A c \in Conf : Passed(c) => Passed(c)'
      PROVE  PassedInv'
  BY <1>1 DEF PostedArePassed, PendingArePassed, HasPost, OnePostPerConference
<1>2. CASE Copying
  <2>1. /\ posts' = posts /\ mem'.announcements = mem.announcements
        /\ ~SaveBatch => mem'.lastSeen = mem.lastSeen
        /\ mem.lastSeen <= mem'.lastSeen
    BY <1>2, CopyingCases, CopyingKeepsPending
  <2>2. start \in [Conf -> Nat] /\ mem.lastSeen \in Nat /\ candidate \in Nat
    BY DEF TypeOK, Subscription, Time
  <2>3. BatchGoesWell'
    BY <1>2 DEF BatchGoesWell, Copying, Environment, Tick, StartConference, EndConference,
                BeginCycle, ListRecords, SaveBatch, EndCycle, Crash
  <2>4. ASSUME NEW c \in Conf, Passed(c)
        PROVE  Passed(c)'
    <3>1. start'[c] = start[c] /\ Started(c) /\ Started(c)'
      BY <1>2, <2>4, TimesStable DEF Passed, Started, LostInv, Next, PollStep, Copying
    <3>2. CASE start[c] <= mem.lastSeen
      <4>1. TypeOK'
        BY TypeStep DEF TypeInv
      <4>2. mem'.lastSeen \in Nat
        BY <4>1 DEF TypeOK, Subscription, Time
      <4> QED BY <2>1, <2>2, <3>1, <3>2, <4>2 DEF Passed
    <3>3. CASE pc = "classify" /\ c \notin todo /\ start[c] <= candidate
      <4>1. CASE Environment
        BY <3>1, <3>3, <4>1 DEF Passed, Environment, Tick, StartConference, EndConference
      <4>2. CASE SaveBatch
        <5>1. mem'.lastSeen = Later(mem.lastSeen, candidate)
          BY <3>3, <4>2, SaveBatchFacts DEF NextWatermark, BatchGoesWell
        <5>2. start[c] <= mem'.lastSeen
          BY <2>2, <3>3, <5>1 DEF Later
        <5> QED BY <3>1, <5>2 DEF Passed
      <4>3. ~BeginCycle /\ ~ListRecords /\ ~EndCycle /\ ~Crash
        BY <3>3 DEF BeginCycle, ListRecords, EndCycle, Crash, Fail, MayFail
      <4> QED BY <1>2, <4>1, <4>2, <4>3 DEF Copying
    <3> QED BY <2>4, <3>2, <3>3 DEF Passed
  <2> QED BY <1>1, <2>1, <2>3, <2>4
<1>3. CASE (\E c \in Conf : ResolveEnd(c)) \/ BeginMarking \/ Mark
  <2>1. /\ posts' = posts /\ mem'.announcements = mem.announcements /\ start' = start
        /\ mem'.lastSeen = mem.lastSeen /\ pc # "classify" /\ pc' # "classify"
    BY <1>3, PassesCases DEF PassesLeave, QuietEffect
  <2> QED BY <1>1, <2>1 DEF BatchGoesWell, Passed, Started
<1>4. CASE UNCHANGED vars
  BY <1>1, <1>4 DEF vars, BatchGoesWell, Passed, Started
<1> QED BY <1>2, <1>3, <1>4, PassedAnnounce, PassedClassify DEF Next, PollStep, Copying

(* Whatever Google's services do, a conference is announced by one post, as   *)
(* long as the plugin's own reads and writes and Mattermost's succeed and    *)
(* the node stays up: even if states expire, a conference is not listed      *)
(* again once it was handled.                                               *)
THEOREM AnnouncedOnceWhateverGoogle ==
    ASSUME ~MayFail("post"), ~MayFail("kvread"), ~MayFail("kvstate"),
           ~MayFail("kvsub"), ~MayFail("crash")
    PROVE  Spec => []OnePostPerConference
<1> DEFINE Inv == TracedInv /\ NothingUnsaved /\ PassedInv
<1>1. Init => Inv
  <2>1. Init => NothingUnsaved /\ PassedInv
    BY DEF Init, NothingUnsaved, PassedInv, PostedArePassed, PendingArePassed, BatchGoesWell,
           OnePostPerConference, HasPost, NewSubscription
  <2>2. Init => TracedInv
    BY TypeInit, LostInit, TrackingInit DEF TracedInv, TypeInv, Init, DuePending
  <2> QED BY <2>1, <2>2
<1>2. Inv /\ [Next]_vars => Inv'
  BY TypeStep, LostStep, TrackingStep, UnsavedStep, PassedStep DEF TracedInv, TypeInv
<1>3. Inv => OnePostPerConference
  BY DEF PassedInv
<1> QED BY <1>1, <1>2, <1>3, PTL DEF Spec

(* Second argument: when Google, the calendar and the KV store's writes do    *)
(* not fail and no state expires, the stored state of a conference that has  *)
(* a post keeps it from being announced again; an announcement still pending *)
(* for it finds the event's post, and is carried out in the next cycle,      *)
(* before the binding can be pruned.                                        *)
StateStands(c) == kv[c].kind # "none" /\ MaxTime < kv[c].exp

PendingFindsPost(c) ==
    mem.announcements[c] # NoInstance =>
        /\ mem.bindings[mem.announcements[c]].post # 0
        /\ InstStart[mem.announcements[c]] <= now
        /\ pc = "announce" => c \in todo

PostedStands == \A c \in Conf : HasPost(c) => StateStands(c) /\ PendingFindsPost(c)

StandingInv == PostedStands /\ OnePostPerConference

LEMMA StandingIsRead ==
    ASSUME TypeOK, NEW c \in Conf, StateStands(c)
    PROVE  Get(c).kind # "none"
<1>1. now < kv[c].exp
  BY BoundsAssumption DEF TypeOK, StateStands, ConferencePostState
<1> QED BY <1>1 DEF StateStands, Get

LEMMA StoredStands ==
    ASSUME StateTTL >= MaxTime, TypeOK, NEW c \in Conf, NEW state,
           state = SuppressedState \/ \E p \in Nat : state = PostedState(p),
           kv' = [kv EXCEPT ![c] = state]
    PROVE  StateStands(c)' /\ \A d \in Conf : d # c => kv'[d] = kv[d]
<1>1. Expiry = MaxTime + 1
  BY BoundsAssumption, DurationsAssumption DEF Expiry, TypeOK
<1>2. state.kind # "none" /\ state.exp = Expiry
  BY DEF SuppressedState, PostedState
<1>3. kv'[c] = state /\ \A d \in Conf : d # c => kv'[d] = kv[d]
  BY DEF TypeOK
<1> QED BY <1>1, <1>2, <1>3, BoundsAssumption DEF StateStands

(* A conference besides the calendar has no announcement pending: an event    *)
(* that scheduled it still does.                                            *)
LEMMA BesidesIsNotPending ==
    ASSUME ~MayFail("calendar"), SuppressionInv, NEW c \in Conf, NEW kinds,
           PostUnscheduled(c, kinds)
    PROVE  mem.announcements[c] = NoInstance
<1>1. kinds # {"calendar"}
  BY DEF PostUnscheduled, Recorded, NotRecorded, Fail, MayFail
<1>2. CalendarSync => FindScheduledInstance(start[c]) = NoInstance
  BY <1>1 DEF PostUnscheduled, CooldownApplies
<1> QED BY <1>2, NoInstanceAssumption
        DEF SuppressionInv, AnnouncementsScheduled, ScheduledFor

LEMMA StandingAnnounce ==
    ASSUME StateTTL >= MaxTime, ~MayFail("google"), ~MayFail("kvstate"),
           TypeOK, DuePending, StandingInv, Announce
    PROVE  StandingInv'
<1> USE DEF StandingInv
<1>1. PICK c \in Conf, i \in Instance : AnnounceComesTo(c, i)
  BY AnnounceCases
<1>2. PICK p \in Nat : AnnounceCase(c, i, p)
  BY <1>1 DEF AnnounceComesTo
<1>3. /\ pc = "announce" /\ pc' = "announce" /\ c \in todo /\ todo' = todo \ {c}
      /\ now' = now /\ i = mem.announcements[c]
  BY <1>1 DEF AnnounceComesTo, AnnounceLeaves
<1>4. /\ mem.announcements \in [Conf -> Instance \cup {NoInstance}]
      /\ mem.bindings \in [Instance -> EventPostBinding]
      /\ i # NoInstance
  BY NoInstanceAssumption DEF TypeOK, Subscription
<1>5. HasPost(c) => mem.bindings[i].post # 0
  BY <1>3, <1>4 DEF PostedStands, PendingFindsPost
(* What the step leaves to the other conferences. *)
<1>6. ASSUME \A d \in Conf : d # c => /\ kv'[d] = kv[d]
                                      /\ mem'.announcements[d] = mem.announcements[d],
             \A j \in Instance : mem.bindings[j].post # 0 => mem'.bindings[j].post # 0,
             NEW d \in Conf, d # c, HasPost(d)
      PROVE  StateStands(d)' /\ PendingFindsPost(d)'
  <2>1. StateStands(d) /\ PendingFindsPost(d)
    BY <1>6 DEF PostedStands
  <2>2. StateStands(d)'
    BY <1>6, <2>1 DEF StateStands
  <2>3. PendingFindsPost(d)'
    <3>1. CASE mem.announcements[d] = NoInstance
      BY <1>6, <3>1 DEF PendingFindsPost
    <3>2. CASE mem.announcements[d] # NoInstance
      <4>1. mem.announcements[d] \in Instance
        BY <1>4, <3>2
      <4> QED BY <1>3, <1>6, <2>1, <3>2, <4>1 DEF PendingFindsPost
    <3> QED BY <3>1, <3>2
  <2> QED BY <2>2, <2>3
<1>7. CASE StaysPending(c, i)
  <2>1. mem' = mem /\ kv' = kv /\ posts' = posts /\ mem.bindings[i].post = 0
    BY <1>7 DEF StaysPending
  <2>2. \A d \in Conf : HasPost(d)' => d # c /\ HasPost(d)
    BY <1>5, <2>1 DEF HasPost
  <2>3. PostedStands'
    BY <1>6, <2>1, <2>2 DEF PostedStands
  <2> QED BY <2>1, <2>3 DEF OnePostPerConference
<1>8. ASSUME AnnouncementGone(c)
      PROVE  /\ mem'.announcements[c] = NoInstance /\ PendingFindsPost(c)'
             /\ \A d \in Conf : d # c => mem'.announcements[d] = mem.announcements[d]
  BY <1>4, <1>8 DEF AnnouncementGone, PendingFindsPost
<1>9. CASE GivenUp(c)
  <2>1. /\ kv' = kv /\ posts' = posts /\ mem'.bindings = mem.bindings /\ AnnouncementGone(c)
    BY <1>9 DEF GivenUp
  <2>2. \A d \in Conf : HasPost(d)' => HasPost(d)
    BY <2>1 DEF HasPost
  <2>3. HasPost(c) => StateStands(c)'
    BY <2>1 DEF PostedStands, StateStands
  <2>4. PostedStands'
    BY <1>6, <1>8, <2>1, <2>2, <2>3 DEF PostedStands
  <2> QED BY <2>1, <2>4 DEF OnePostPerConference
<1>10. CASE FoundOver(c)
  <2>1. /\ kv' = [kv EXCEPT ![c] = SuppressedState]
        /\ posts' = posts /\ mem'.bindings = mem.bindings /\ AnnouncementGone(c)
    BY <1>10 DEF FoundOver
  <2>2. StateStands(c)' /\ \A d \in Conf : d # c => kv'[d] = kv[d]
    BY <2>1, StoredStands
  <2>3. \A d \in Conf : HasPost(d)' => HasPost(d)
    BY <2>1 DEF HasPost
  <2>4. PostedStands'
    BY <1>6, <1>8, <2>1, <2>2, <2>3 DEF PostedStands
  <2> QED BY <2>1, <2>4 DEF OnePostPerConference
<1>11. CASE JoinsPost(c, i, p)
  <2>1. /\ kv' = [kv EXCEPT ![c] = PostedState(p)] /\ posts' = posts
        /\ mem'.bindings = JoinBinding(i, c) /\ AnnouncementGone(c)
    BY <1>11 DEF JoinsPost
  <2>2. StateStands(c)' /\ \A d \in Conf : d # c => kv'[d] = kv[d]
    BY <2>1, StoredStands
  <2>3. \A j \in Instance : mem'.bindings[j].post = mem.bindings[j].post
    BY <1>4, <2>1 DEF JoinBinding, EventPostBinding
  <2>4. \A d \in Conf : HasPost(d)' => HasPost(d)
    BY <2>1 DEF HasPost
  <2>5. PostedStands'
    BY <1>6, <1>8, <2>1, <2>2, <2>3, <2>4 DEF PostedStands
  <2> QED BY <2>1, <2>5 DEF OnePostPerConference
<1>12. CASE OpensPost(c, i, p)
  <2>1. /\ kv' = [kv EXCEPT ![c] = PostedState(p)] /\ CreatePost(c, i) /\ p = Len(posts) + 1
        /\ mem'.bindings = [mem.bindings EXCEPT ![i] = NewBinding(c, p)]
        /\ mem.bindings[i].post = 0 /\ AnnouncementGone(c)
    BY <1>12 DEF OpensPost
  <2>2. StateStands(c)' /\ \A d \in Conf : d # c => kv'[d] = kv[d]
    BY <2>1, StoredStands
  <2>3. \A j \in Instance : mem.bindings[j].post # 0 => mem'.bindings[j].post # 0
    BY <1>4, <2>1
  <2>4. \A d \in Conf : HasPost(d)' <=> (HasPost(d) \/ d = c)
    BY <2>1, HasPostAfter
  <2>5. OnePostPerConference'
    BY <1>5, <2>1, OneMorePost
  <2>6. PostedStands'
    BY <1>6, <1>8, <2>1, <2>2, <2>3, <2>4 DEF PostedStands
  <2> QED BY <2>5, <2>6
<1> QED BY <1>2, <1>7, <1>9, <1>10, <1>11, <1>12 DEF AnnounceCase

LEMMA StandingClassify ==
    ASSUME StateTTL >= MaxTime, ~MayFail("calendar"), ~MayFail("kvstate"),
           TypeOK, SuppressionInv, StandingInv, Classify
    PROVE  StandingInv'
<1> USE DEF StandingInv
<1>1. PICK c \in Conf : ClassifyComesTo(c)
  BY ClassifyCases
<1>2. pc' = "classify" /\ now' = now
  BY <1>1 DEF ClassifyComesTo
<1>3. /\ mem.announcements \in [Conf -> Instance \cup {NoInstance}]
      /\ mem.bindings \in [Instance -> EventPostBinding] /\ Len(posts) \in Nat
  BY DEF TypeOK, Subscription
<1>4. Get(c).kind = "none" => ~HasPost(c)
  BY StandingIsRead DEF PostedStands
<1>5. ASSUME \A d \in Conf : d # c => /\ kv'[d] = kv[d]
                                      /\ mem'.announcements[d] = mem.announcements[d],
             \A j \in Instance : mem.bindings[j].post # 0 => mem'.bindings[j].post # 0,
             NEW d \in Conf, d # c, HasPost(d)
      PROVE  StateStands(d)' /\ PendingFindsPost(d)'
  <2>1. StateStands(d) /\ PendingFindsPost(d)
    BY <1>5 DEF PostedStands
  <2>2. StateStands(d)'
    BY <1>5, <2>1 DEF StateStands
  <2>3. PendingFindsPost(d)'
    <3>1. CASE mem.announcements[d] = NoInstance
      BY <1>5, <3>1 DEF PendingFindsPost
    <3>2. CASE mem.announcements[d] # NoInstance
      <4>1. mem.announcements[d] \in Instance
        BY <1>3, <3>2
      <4> QED BY <1>2, <1>5, <2>1, <3>2, <4>1 DEF PendingFindsPost
    <3> QED BY <3>1, <3>2
  <2> QED BY <2>2, <2>3
(* Nothing is posted, and no state that stands is touched. *)
<1>6. ASSUME posts' = posts, mem'.bindings = mem.bindings, kv' = kv,
             \A d \in Conf : mem'.announcements[d] = mem.announcements[d] \/ ~HasPost(d)
      PROVE  StandingInv'
  <2>1. \A d \in Conf : HasPost(d)' => HasPost(d) /\ StateStands(d) /\ PendingFindsPost(d)
    BY <1>6 DEF HasPost, PostedStands
  <2>2. ASSUME NEW d \in Conf, HasPost(d)'
        PROVE  StateStands(d)' /\ PendingFindsPost(d)'
    BY <1>2, <1>6, <2>1, <2>2 DEF StateStands, PendingFindsPost
  <2> QED BY <1>6, <2>2 DEF PostedStands, OnePostPerConference
<1>7. CASE StaysUnhandled(c)
  BY <1>6, <1>7 DEF StaysUnhandled
<1>8. CASE SeenAgain(c)
  BY <1>6, <1>8 DEF SeenAgain
<1>9. ASSUME NEW i \in Instance, Deferred(c, i)
      PROVE  StandingInv'
  <2>1. ~HasPost(c) /\ \A d \in Conf : d # c => mem'.announcements[d] = mem.announcements[d]
    BY <1>3, <1>4, <1>9 DEF Deferred
  <2> QED BY <1>6, <1>9, <2>1 DEF Deferred
<1>10. CASE Silenced(c)
  <2>1. /\ ~HasPost(c) /\ posts' = posts /\ mem'.bindings = mem.bindings
        /\ mem'.announcements = mem.announcements /\ kv' = [kv EXCEPT ![c] = SuppressedState]
    BY <1>4, <1>10 DEF Silenced, DecisionStored
  <2>2. \A d \in Conf : d # c => kv'[d] = kv[d]
    BY <2>1, StoredStands
  <2>3. \A d \in Conf : HasPost(d)' => d # c /\ HasPost(d)
    BY <2>1 DEF HasPost
  <2>4. PostedStands'
    BY <1>5, <2>1, <2>2, <2>3 DEF PostedStands
  <2> QED BY <2>1, <2>4 DEF OnePostPerConference
<1>11. ASSUME NEW i \in Instance, NEW p \in Nat, BoundTo(c, i, p)
       PROVE  StandingInv'
  <2>1. /\ ~HasPost(c) /\ posts' = posts /\ mem'.bindings = JoinBinding(i, c)
        /\ mem'.announcements = mem.announcements /\ kv' = [kv EXCEPT ![c] = PostedState(p)]
    BY <1>4, <1>11 DEF BoundTo, DecisionStored
  <2>2. \A d \in Conf : d # c => kv'[d] = kv[d]
    BY <2>1, StoredStands
  <2>3. \A j \in Instance : mem'.bindings[j].post = mem.bindings[j].post
    BY <1>3, <2>1 DEF JoinBinding, EventPostBinding
  <2>4. \A d \in Conf : HasPost(d)' => d # c /\ HasPost(d)
    BY <2>1 DEF HasPost
  <2>5. PostedStands'
    BY <1>5, <2>1, <2>2, <2>3, <2>4 DEF PostedStands
  <2> QED BY <2>1, <2>5 DEF OnePostPerConference
(* A post is made: its conference had none, and what is pending finds it. *)
<1>12. ASSUME NEW i \in Instance \cup {NoInstance}, CreatePost(c, i), ~HasPost(c),
              NEW p \in Nat, kv' = [kv EXCEPT ![c] = PostedState(p)],
              mem'.announcements = mem.announcements, PendingFindsPost(c)',
              \A j \in Instance : mem.bindings[j].post # 0 => mem'.bindings[j].post # 0
       PROVE  StandingInv'
  <2>1. StateStands(c)' /\ \A d \in Conf : d # c => kv'[d] = kv[d]
    BY <1>12, StoredStands
  <2>2. \A d \in Conf : HasPost(d)' <=> (HasPost(d) \/ d = c)
    BY <1>12, HasPostAfter
  <2>3. OnePostPerConference'
    BY <1>12, OneMorePost
  <2>4. PostedStands'
    BY <1>5, <1>12, <2>1, <2>2 DEF PostedStands
  <2> QED BY <2>3, <2>4
<1>13. ASSUME NEW i \in Instance, NEW p \in Nat, PostedAndBound(c, i, p)
       PROVE  StandingInv'
  <2>1. /\ ~HasPost(c) /\ CreatePost(c, i) /\ kv' = [kv EXCEPT ![c] = PostedState(p)]
        /\ mem'.announcements = mem.announcements /\ p = Len(posts) + 1
        /\ mem'.bindings = [mem.bindings EXCEPT ![i] = NewBinding(c, p)]
        /\ ScheduledFor(c, i) /\ now >= InstStart[i]
    BY <1>4, <1>13 DEF PostedAndBound, DecisionStored
  <2>2. mem.announcements[c] # NoInstance => mem.announcements[c] = i
    BY <2>1 DEF SuppressionInv, AnnouncementsScheduled, ScheduledFor
  <2>3. /\ mem'.bindings[i].post # 0
        /\ \A j \in Instance : mem.bindings[j].post # 0 => mem'.bindings[j].post # 0
    BY <1>3, <2>1 DEF NewBinding
  <2>4. now \in Nat /\ InstStart[i] \in Nat
    BY CalendarAssumption DEF TypeOK
  <2>5. PendingFindsPost(c)'
    BY <1>2, <2>1, <2>2, <2>3, <2>4 DEF PendingFindsPost
  <2> QED BY <1>12, <2>1, <2>3, <2>5
<1>14. ASSUME NEW p \in Nat, PostedUnbound(c, p)
       PROVE  StandingInv'
  <2>1. /\ ~HasPost(c) /\ CreatePost(c, NoInstance) /\ kv' = [kv EXCEPT ![c] = PostedState(p)]
        /\ mem'.announcements = mem.announcements /\ mem'.bindings = mem.bindings
        /\ \E kinds : PostUnscheduled(c, kinds)
    BY <1>4, <1>14 DEF PostedUnbound, DecisionStored
  <2>2. mem.announcements[c] = NoInstance
    BY <2>1, BesidesIsNotPending
  <2>3. PendingFindsPost(c)'
    BY <2>1, <2>2 DEF PendingFindsPost
  <2> QED BY <1>12, <2>1, <2>3
<1> QED BY <1>1, <1>7, <1>8, <1>9, <1>10, <1>11, <1>13, <1>14
        DEF ClassifyComesTo, ClassifyCase

LEMMA StandingStep ==
    ASSUME StateTTL >= MaxTime, ~MayFail("google"), ~MayFail("calendar"),
           ~MayFail("kvstate"), ~MayFail("kvsub"), ~MayFail("crash"),
           TypeOK, DuePending, SuppressionInv, NothingUnsaved, StandingInv, [Next]_vars
    PROVE  StandingInv'
<1> USE DEF StandingInv
<1>1. /\ now \in Nat /\ Len(posts) \in Nat
      /\ mem.announcements \in [Conf -> Instance \cup {NoInstance}]
      /\ \A i \in Instance : InstStart[i] \in Nat
  BY CalendarAssumption DEF TypeOK, Subscription
<1>2. ASSUME posts' = posts, \A c \in Conf : HasPost(c) => StateStands(c)',
             \A c \in Conf : HasPost(c) => PendingFindsPost(c)'
      PROVE  StandingInv'
  BY <1>2 DEF PostedStands, HasPost, OnePostPerConference
<1>3. CASE Copying
  <2>1. /\ posts' = posts /\ kv' = kv /\ (now' = now \/ now' = now + 1)
        /\ mem'.announcements = mem.announcements
    BY <1>3, CopyingCases, CopyingKeepsPending
  <2>2. \A c \in Conf : HasPost(c) => StateStands(c)'
    BY <2>1 DEF PostedStands, StateStands
  <2>3. ASSUME NEW c \in Conf, HasPost(c)
        PROVE  PendingFindsPost(c)'
    <3> SUFFICES ASSUME mem.announcements[c] # NoInstance
                 PROVE  PendingFindsPost(c)'
      BY <2>1 DEF PendingFindsPost
    <3> PICK i \in Instance : i = mem.announcements[c]
      BY <1>1
    <3>1. /\ mem.bindings[i].post # 0 /\ InstStart[i] <= now
          /\ pc = "announce" => c \in todo
      BY <2>3 DEF PostedStands, PendingFindsPost
    <3>2. InstStart[i] <= now'
      BY <1>1, <2>1, <3>1
    <3>3. mem'.bindings[i] = mem.bindings[i] /\ (pc' = "announce" => c \in todo')
      <4>1. CASE Environment
        BY <3>1, <4>1 DEF Environment, Tick, StartConference, EndConference
      <4>2. CASE BeginCycle
        <5>1. sub = mem
          BY <4>2 DEF NothingUnsaved, BeginCycle
        <5> QED BY <3>1, <4>2, <5>1 DEF BeginCycle
      <4>3. ~ListRecords
        BY <3>1 DEF ListRecords
      <4>4. CASE SaveBatch
        BY <4>4 DEF SaveBatch, TypeOK, Subscription
      <4>5. CASE EndCycle
        <5>1. mem' = mem \/ mem' = [mem EXCEPT !.active = @ \ pruned]
          BY <4>5 DEF EndCycle, WriteBack, Fail, MayFail, NothingUnsaved
        <5> QED BY <4>5, <5>1 DEF EndCycle, TypeOK, Subscription
      <4>6. ~Crash
        BY DEF Crash, Fail, MayFail
      <4> QED BY <1>3, <4>1, <4>2, <4>3, <4>4, <4>5, <4>6 DEF Copying
    <3> QED BY <2>1, <3>1, <3>2, <3>3 DEF PendingFindsPost
  <2> QED BY <1>2, <2>1, <2>2, <2>3
<1>4. CASE (\E c \in Conf : ResolveEnd(c)) \/ BeginMarking \/ Mark
  <2>1. PassesLeave
    BY <1>4, PassesCases
  <2>2. /\ posts' = posts /\ now' = now /\ pc' # "announce"
        /\ mem'.announcements = mem.announcements
        /\ \A i \in Instance : mem'.bindings[i].post = mem.bindings[i].post
        /\ \A c \in Conf : /\ kv'[c].kind = kv[c].kind
                           /\ kv'[c].exp = kv[c].exp \/ kv'[c].exp = Expiry
    BY <2>1 DEF PassesLeave, QuietEffect
  <2>3. MaxTime < Expiry
    BY BoundsAssumption, DurationsAssumption DEF Expiry, TypeOK
  <2>4. \A c \in Conf : HasPost(c) => StateStands(c)'
    BY <2>2, <2>3 DEF PostedStands, StateStands
  <2>5. \A c \in Conf : HasPost(c) => PendingFindsPost(c)'
    BY <1>1, <2>2 DEF PostedStands, PendingFindsPost
  <2> QED BY <1>2, <2>2, <2>4, <2>5
<1>5. CASE UNCHANGED vars
  BY <1>2, <1>5 DEF vars, PostedStands, StateStands, PendingFindsPost
<1> QED BY <1>3, <1>4, <1>5, StandingAnnounce, StandingClassify DEF Next, PollStep, Copying

(* With Google, the calendar and the KV store's writes reliable, no state     *)
(* expiring and the node staying up, a conference is announced by one post,  *)
(* however often Mattermost and the reads of the post states fail: a retry   *)
(* finds the state stored, and a pending announcement the event's post.      *)
THEOREM AnnouncedOnceWhateverMattermost ==
    ASSUME StateTTL >= MaxTime, ~MayFail("google"), ~MayFail("calendar"),
           ~MayFail("kvstate"), ~MayFail("kvsub"), ~MayFail("crash")
    PROVE  Spec => []OnePostPerConference
<1> DEFINE Inv == TypeInv /\ LostInv /\ SuppressionInv /\ NothingUnsaved /\ StandingInv
<1>1. Init => Inv
  <2>1. Init => NothingUnsaved /\ StandingInv
    BY DEF Init, NothingUnsaved, StandingInv, PostedStands, OnePostPerConference, HasPost
  <2>2. Init => TypeInv
    BY TypeInit DEF TypeInv, Init, DuePending
  <2> QED BY <2>1, <2>2, LostInit, SuppressionInit
<1>2. Inv /\ [Next]_vars => Inv'
  BY TypeStep, LostStep, SuppressionStep, UnsavedStep, StandingStep DEF TypeInv
<1>3. Inv => OnePostPerConference
  BY DEF StandingInv
<1> QED BY <1>1, <1>2, <1>3, PTL DEF Spec

-----------------------------------------------------------------------------
(* Every duplicate has its failure *)

(* What a step's failures add to the count. *)
LEMMA FailureCounted ==
    ASSUME TypeOK, NEW kinds, Fail(kinds)
    PROVE  /\ faults' >= faults
           /\ \A kind \in kinds : faults' >= faults + 1
<1>1. kinds \in SUBSET AllFaultKinds
  BY FaultsAssumption DEF Fail
<1>2. Cardinality(kinds) \in Nat
  BY <1>1, FaultKindsFinite
<1>3. ASSUME NEW kind \in kinds
      PROVE  Cardinality(kinds) # 0
  <2>1. IsFiniteSet(AllFaultKinds)
    BY AllKindsFinite
  <2>2. IsFiniteSet(kinds)
    BY <1>1, <2>1, FS_Subset
  <2> QED BY <1>3, <2>2, FS_EmptySet
<1> QED BY <1>2, <1>3 DEF Fail, TypeOK

LEMMA RecordingFailures ==
    ASSUME TypeOK, NEW c \in Conf, NEW kinds,
           \/ \E state, s : Recorded(c, state, s, kinds)
           \/ NotRecorded(kinds \cup {"kvstate"}) \/ NotRecorded(kinds \cup {"post"})
    PROVE  faults' >= faults /\ (Handled(c) \/ faults' >= faults + 1)
<1>1. \/ Fail(kinds) /\ Handled(c)
      \/ \E kind : Fail(kinds \cup {kind})
  BY DEF Recorded, NotRecorded
<1>2. CASE Fail(kinds) /\ Handled(c)
  BY <1>2, FailureCounted
<1>3. ASSUME NEW kind, Fail(kinds \cup {kind})
      PROVE  faults' >= faults /\ faults' >= faults + 1
  <2>1. kind \in kinds \cup {kind}
    OBVIOUS
  <2> QED BY <1>3, <2>1, FailureCounted
<1> QED BY <1>1, <1>2, <1>3

(* An announcement that is due goes, or something failed. *)
LEMMA AnnounceFailures ==
    ASSUME TypeOK, DuePending, Announce
    PROVE  /\ faults' >= faults
           /\ mem' = mem => faults' >= faults + 1
<1>1. PICK c \in Conf : AnnouncementRefreshFails(c) \/ DropAnnouncement(c) \/ AnnounceDue(c)
  BY DEF Announce
<1>2. /\ mem \in Subscription /\ faults \in Nat /\ mem.announcements[c] # NoInstance
  BY <1>1
  DEF TypeOK, AnnouncementRefreshFails, DropAnnouncement, AnnounceDue, DuePending
<1>3. NoFailure => faults' >= faults
  BY <1>2 DEF NoFailure
<1>4. CASE AnnouncementRefreshFails(c)
  BY <1>4, FailureCounted DEF AnnouncementRefreshFails
<1>5. CASE DropAnnouncement(c)
  <2>1. mem' = [mem EXCEPT !.announcements[c] = NoInstance]
    BY <1>5 DEF DropAnnouncement
  <2>2. mem'.announcements[c] = NoInstance
    BY <1>2, <2>1 DEF Subscription
  <2>3. faults' >= faults
    BY <1>3, <1>5, FailureCounted DEF DropAnnouncement
  <2> QED BY <1>2, <2>2, <2>3
<1>6. CASE AnnounceDue(c)
  <2>1. \/ Fail({"post"}) \/ Fail({"kvstate"})
        \/ NoFailure /\ \E b : mem' = Announced([mem EXCEPT !.bindings = b], c)
    <3>1. ASSUME NEW b
          PROVE  /\ [mem EXCEPT !.bindings[mem.announcements[c]].names = @ \cup {c}]
                      = [mem EXCEPT !.bindings = JoinBinding(mem.announcements[c], c)]
                 /\ [mem EXCEPT !.bindings[mem.announcements[c]] = b]
                      = [mem EXCEPT !.bindings = [mem.bindings EXCEPT ![mem.announcements[c]] = b]]
      BY <1>2, UpdateFacts DEF JoinBinding
    <3> QED BY <1>6, <3>1 DEF AnnounceDue
  <2>2. ASSUME NEW b, mem' = Announced([mem EXCEPT !.bindings = b], c)
        PROVE  mem'.announcements[c] = NoInstance
    BY <1>2, <2>2 DEF Announced, Subscription
  <2> QED BY <1>2, <1>3, <2>1, <2>2, FailureCounted
<1> QED BY <1>1, <1>4, <1>5, <1>6

(* A record of the batch is handled, and posted only if it has no state, or   *)
(* something failed.                                                        *)
LEMMA ClassifyFailures ==
    ASSUME TypeOK, Classify
    PROVE  \E c \in todo :
              /\ todo' = todo \ {c} /\ faults' >= faults
              /\ \/ /\ hadFailure' = hadFailure /\ candidate' = Later(candidate, start[c])
                    /\ posts' # posts => Get(c).kind = "none"
                 \/ faults' >= faults + 1
<1> USE DEF Unclassified, Classifying
<1>1. NoFailure => faults' >= faults
  BY DEF NoFailure, TypeOK
<1>2. ASSUME NEW c \in Conf, ReadStateFails(c) \/ SeenBefore(c)
      PROVE  /\ c \in todo /\ todo' = todo \ {c} /\ faults' >= faults
             /\ (Handled(c) /\ (posts' # posts => Get(c).kind = "none")) \/ faults' >= faults + 1
  BY <1>1, <1>2, FailureCounted DEF ReadStateFails, SeenBefore, TypeOK
<1>3. ASSUME NEW c \in Conf, NEW i \in Instance,
             BindToAnnounced(c, i) \/ Defer(c, i) \/ PostScheduled(c, i)
      PROVE  /\ c \in todo /\ todo' = todo \ {c} /\ faults' >= faults
             /\ (Handled(c) /\ (posts' # posts => Get(c).kind = "none")) \/ faults' >= faults + 1
  <2>1. CASE BindToAnnounced(c, i)
    <3>1. \/ \E state, s : Recorded(c, state, s, {})
          \/ NotRecorded({} \cup {"kvstate"})
      <4>1. {} \cup {"kvstate"} = {"kvstate"}
        OBVIOUS
      <4> QED BY <2>1, <4>1 DEF BindToAnnounced
    <3>2. faults' >= faults /\ (Handled(c) \/ faults' >= faults + 1)
      BY <3>1, RecordingFailures
    <3> QED BY <2>1, <3>2 DEF BindToAnnounced
  <2>2. CASE Defer(c, i)
    BY <1>1, <2>2 DEF Defer
  <2>3. CASE PostScheduled(c, i)
    <3>1. \/ \E state, s : Recorded(c, state, s, {})
          \/ NotRecorded({} \cup {"kvstate"}) \/ NotRecorded({} \cup {"post"})
      <4>1. {} \cup {"kvstate"} = {"kvstate"} /\ {} \cup {"post"} = {"post"}
        OBVIOUS
      <4> QED BY <2>3, <4>1 DEF PostScheduled
    <3>2. faults' >= faults /\ (Handled(c) \/ faults' >= faults + 1)
      BY <3>1, RecordingFailures
    <3> QED BY <2>3, <3>2 DEF PostScheduled
  <2> QED BY <1>3, <2>1, <2>2, <2>3
<1>4. ASSUME NEW c \in Conf, NEW kinds, Suppress(c, kinds) \/ PostUnscheduled(c, kinds)
      PROVE  /\ c \in todo /\ todo' = todo \ {c} /\ faults' >= faults
             /\ (Handled(c) /\ (posts' # posts => Get(c).kind = "none")) \/ faults' >= faults + 1
  <2>1. \/ \E state, s : Recorded(c, state, s, kinds)
        \/ NotRecorded(kinds \cup {"kvstate"}) \/ NotRecorded(kinds \cup {"post"})
    BY <1>4 DEF Suppress, PostUnscheduled
  <2>2. faults' >= faults /\ (Handled(c) \/ faults' >= faults + 1)
    BY <2>1, RecordingFailures
  <2> QED BY <1>4, <2>2 DEF Suppress, PostUnscheduled
<1> QED BY <1>2, <1>3, <1>4 DEF Classify, Handled

LEMMA AnnouncingFinite ==
    ASSUME TypeOK, NEW c \in Conf
    PROVE  /\ IsFiniteSet(PostsAnnouncing(c)) /\ Cardinality(PostsAnnouncing(c)) \in Nat
           /\ PostsAnnouncing(c) \subseteq 1..Len(posts) /\ Len(posts) \in Nat
<1>1. DOMAIN posts = 1..Len(posts) /\ Len(posts) \in Nat
  BY DEF TypeOK
<1>2. IsFiniteSet(1..Len(posts))
  BY <1>1, FS_Interval
<1> QED BY <1>1, <1>2, FS_Subset, FS_CardinalityType DEF PostsAnnouncing

LEMMA AnnouncedOnceMore ==
    ASSUME TypeOK, NEW c \in Conf, NEW i \in Instance \cup {NoInstance}, CreatePost(c, i)
    PROVE  /\ Cardinality(PostsAnnouncing(c)') = Cardinality(PostsAnnouncing(c)) + 1
           /\ \A d \in Conf : d # c => PostsAnnouncing(d)' = PostsAnnouncing(d)
<1>1. /\ DOMAIN posts = 1..Len(posts) /\ DOMAIN posts' = 1..(Len(posts) + 1)
      /\ Len(posts) \in Nat /\ posts'[Len(posts) + 1].conf = c
      /\ \A p \in DOMAIN posts : posts'[p] = posts[p]
  BY CreatedPost DEF TypeOK
<1>2. PostsAnnouncing(c)' = PostsAnnouncing(c) \cup {Len(posts) + 1}
  BY <1>1 DEF PostsAnnouncing
<1>3. Len(posts) + 1 \notin PostsAnnouncing(c)
  BY <1>1 DEF PostsAnnouncing
<1>4. \A d \in Conf : d # c => PostsAnnouncing(d)' = PostsAnnouncing(d)
  BY <1>1 DEF PostsAnnouncing
<1> QED BY <1>2, <1>3, <1>4, AnnouncingFinite, FS_AddElement

(* The posts a conference may still get are counted with those it has.  In    *)
(* the cycle: one if it is listed or will be, one more if a failure of the   *)
(* batch makes it listed again after this visit, one for its announcement.   *)
One(b) == IF b THEN 1 ELSE 0

PostCount(c) == Cardinality(PostsAnnouncing(c))

PassedOver(c) ==
    /\ Started(c)
    /\ \/ start[c] <= mem.lastSeen
       \/ pc = "classify" /\ ~hadFailure /\ c \notin todo /\ start[c] <= candidate

StillToPost(c) ==
    One(~PassedOver(c)) + One(pc = "classify" /\ hadFailure /\ c \in todo)
        + One(mem.announcements[c] # NoInstance)

(* The same for the stored record, which a cycle begun after a crash reads.   *)
StoredToPost(c) ==
    One(~(Started(c) /\ start[c] <= sub.lastSeen)) + One(sub.announcements[c] # NoInstance)

(* The cycle may have posted what the record does not know of, once.          *)
AheadOfRecord(c) ==
    \/ pc = "announce" /\ c \notin todo /\ StateStands(c)
    \/ pc = "classify" /\ (c \notin todo \/ StateStands(c))

CycleCounts(c) == pc # "idle" => PostCount(c) + StillToPost(c) <= 1 + faults

RecordCounts(c) == PostCount(c) + StoredToPost(c) <= 1 + faults + One(AheadOfRecord(c))

ChangesNoted ==
    pc \in {"announce", "classify"} =>
        changed \/ (mem.lastSeen = sub.lastSeen /\ mem.announcements = sub.announcements)

DuplicatesInv == ChangesNoted /\ \A c \in Conf : CycleCounts(c) /\ RecordCounts(c)

LEMMA CountTypes ==
    ASSUME TypeOK, NEW c \in Conf
    PROVE  /\ PostCount(c) \in Nat /\ StillToPost(c) \in Nat /\ StoredToPost(c) \in Nat
           /\ faults \in Nat
BY AnnouncingFinite DEF PostCount, StillToPost, StoredToPost, One, TypeOK

LEMMA DuplicatesInit == Init => DuplicatesInv
<1> SUFFICES ASSUME Init PROVE DuplicatesInv
  OBVIOUS
<1>1. ASSUME NEW c \in Conf
      PROVE  CycleCounts(c) /\ RecordCounts(c)
  <2>1. PostsAnnouncing(c) = {}
    BY DEF Init, PostsAnnouncing
  <2>2. PostCount(c) = 0
    BY <2>1, FS_EmptySet DEF PostCount
  <2>3. StoredToPost(c) <= 1 /\ StoredToPost(c) \in Nat
    BY DEF Init, StoredToPost, One, Started, NewSubscription, NoTimes
  <2>4. One(AheadOfRecord(c)) = 0 /\ faults = 0 /\ pc = "idle"
    BY DEF Init, One, AheadOfRecord
  <2> QED BY <2>2, <2>3, <2>4 DEF CycleCounts, RecordCounts
<1> QED BY <1>1 DEF DuplicatesInv, Init, ChangesNoted

(* A step that fails may post, and the count of failures makes up for it.     *)
LEMMA DuplicatesAnnounce ==
    ASSUME StateTTL >= MaxTime, TypeOK, DuePending, DuplicatesInv, Announce
    PROVE  DuplicatesInv'
<1>1. PICK c \in Conf, i \in Instance : AnnounceComesTo(c, i)
  BY AnnounceCases
<1>2. PICK p \in Nat : AnnounceCase(c, i, p)
  BY <1>1 DEF AnnounceComesTo
<1>3. faults \in Nat /\ faults' \in Nat /\ faults' >= faults
      /\ (mem' = mem => faults' >= faults + 1)
  <2>1. TypeOK'
    BY TypeStep DEF TypeInv, Next, PollStep
  <2> QED BY <2>1, AnnounceFailures DEF TypeOK
<1>4. /\ pc = "announce" /\ pc' = "announce" /\ c \in todo /\ todo' = todo \ {c}
      /\ start' = start /\ sub' = sub /\ mem'.lastSeen = mem.lastSeen
  BY <1>1 DEF AnnounceComesTo, AnnounceLeaves
<1>5. /\ mem.announcements \in [Conf -> Instance \cup {NoInstance}]
      /\ mem.announcements[c] # NoInstance
  BY <1>4 DEF DuePending, TypeOK, Subscription
<1>6. \A d \in Conf : PassedOver(d)' <=> PassedOver(d)
  BY <1>4 DEF PassedOver, Started
<1>7. \A d \in Conf : StoredToPost(d)' = StoredToPost(d)
  BY <1>4 DEF StoredToPost, Started
<1>8. ASSUME NEW d \in Conf
      PROVE  /\ PostCount(d) \in Nat /\ StillToPost(d) \in Nat /\ StoredToPost(d) \in Nat
             /\ PostCount(d) + StillToPost(d) <= 1 + faults
             /\ PostCount(d) + StoredToPost(d) <= 1 + faults + One(AheadOfRecord(d))
  BY <1>4, CountTypes DEF DuplicatesInv, CycleCounts, RecordCounts
<1>9. ~AheadOfRecord(c)
  BY <1>4 DEF AheadOfRecord
<1>10. StaysPending(c, i) => mem' = mem /\ kv' = kv /\ changed' \in {changed, TRUE}
  BY DEF StaysPending
<1>11. AnnouncementGone(c)
          => /\ mem'.announcements[c] = NoInstance
             /\ \A d \in Conf : d # c => mem'.announcements[d] = mem.announcements[d]
  BY <1>5 DEF AnnouncementGone
<1>12. /\ \A d \in Conf : d # c => mem'.announcements[d] = mem.announcements[d]
       /\ mem' = mem \/ mem'.announcements[c] = NoInstance
       /\ posts' = posts \/ CreatePost(c, i)
       /\ kv' = kv \/ \E state : /\ state = SuppressedState \/ \E q \in Nat : state = PostedState(q)
                                 /\ kv' = [kv EXCEPT ![c] = state]
       /\ changed' = TRUE \/ (mem' = mem /\ changed' = changed)
       /\ mem' = mem \/ posts' = posts \/ kv' = [kv EXCEPT ![c] = PostedState(p)]
  BY <1>2, <1>10, <1>11
  DEF AnnounceCase, StaysPending, GivenUp, FoundOver, JoinsPost, OpensPost
<1>13. /\ \A d \in Conf : d # c => kv'[d] = kv[d]
       /\ mem' = mem \/ posts' = posts \/ StateStands(c)'
  BY <1>12, StoredStands
<1>14. /\ PostCount(c)' = PostCount(c) \/ (CreatePost(c, i) /\ PostCount(c)' = PostCount(c) + 1)
       /\ posts' = posts => PostCount(c)' = PostCount(c)
       /\ \A d \in Conf : d # c => PostCount(d)' = PostCount(d)
  <2>1. CASE posts' = posts
    BY <2>1 DEF PostCount, PostsAnnouncing
  <2>2. CASE CreatePost(c, i)
    <3>1. posts' # posts
      BY <2>2, CreatedPost DEF TypeOK
    <3> QED BY <2>2, <3>1, AnnouncedOnceMore DEF PostCount
  <2> QED BY <1>12, <2>1, <2>2
<1>15. ChangesNoted'
  BY <1>4, <1>12 DEF ChangesNoted, DuplicatesInv
<1>16. ASSUME NEW d \in Conf, d # c
       PROVE  CycleCounts(d)' /\ RecordCounts(d)'
  <2>1. StillToPost(d)' = StillToPost(d)
    BY <1>4, <1>6, <1>12, <1>16 DEF StillToPost
  <2>2. AheadOfRecord(d)' <=> AheadOfRecord(d)
    BY <1>4, <1>13, <1>16 DEF AheadOfRecord, StateStands
  <2>3. PostCount(d)' = PostCount(d) /\ One(AheadOfRecord(d)') = One(AheadOfRecord(d))
    BY <1>14, <1>16, <2>2 DEF One
  <2> QED BY <1>3, <1>7, <1>8, <2>1, <2>3 DEF CycleCounts, RecordCounts, One
<1>17. CycleCounts(c)' /\ RecordCounts(c)'
  <2>1. One(AheadOfRecord(c)) = 0 /\ One(AheadOfRecord(c)') \in {0, 1}
    BY <1>9 DEF One
  <2>2. CASE mem' = mem
    <3>1. StillToPost(c)' = StillToPost(c)
      BY <1>4, <1>6, <2>2 DEF StillToPost
    <3>2. PostCount(c)' <= PostCount(c) + 1 /\ PostCount(c)' \in Nat /\ faults' >= faults + 1
      BY <1>3, <1>8, <1>14, <2>2
    <3> QED BY <1>3, <1>7, <1>8, <2>1, <3>1, <3>2 DEF CycleCounts, RecordCounts
  <2>3. CASE mem' # mem
    <3>1. StillToPost(c)' = StillToPost(c) - 1
      BY <1>4, <1>5, <1>6, <1>12, <2>3 DEF StillToPost, One
    <3>2. posts' # posts => AheadOfRecord(c)'
      BY <1>4, <1>13, <2>3 DEF AheadOfRecord
    <3>3. PostCount(c)' = PostCount(c) \/ (PostCount(c)' = PostCount(c) + 1 /\ One(AheadOfRecord(c)') = 1)
      BY <1>14, <3>2 DEF One
    <3> QED BY <1>3, <1>7, <1>8, <2>1, <3>1, <3>3 DEF CycleCounts, RecordCounts
  <2> QED BY <2>2, <2>3
<1> QED BY <1>15, <1>16, <1>17 DEF DuplicatesInv

(* A record is no longer listed once it was handled in a batch without        *)
(* failure; the first failure of a batch has all its records listed again.   *)
LEMMA DuplicatesClassify ==
    ASSUME TypeOK, TrackingInv, DuplicatesInv, Classify
    PROVE  DuplicatesInv'
<1>1. PICK c \in Conf : ClassifyComesTo(c)
  BY ClassifyCases
<1>2. /\ pc = "classify" /\ pc' = "classify" /\ c \in todo /\ todo' = todo \ {c}
      /\ start' = start /\ sub' = sub /\ mem'.lastSeen = mem.lastSeen
  BY <1>1 DEF ClassifyComesTo
<1>3. /\ faults' >= faults
      /\ \/ /\ hadFailure' = hadFailure /\ candidate' = Later(candidate, start[c])
            /\ posts' # posts => Get(c).kind = "none"
         \/ faults' >= faults + 1
  <2>1. PICK d \in todo : /\ todo' = todo \ {d} /\ faults' >= faults
                         /\ \/ /\ hadFailure' = hadFailure
                               /\ candidate' = Later(candidate, start[d])
                               /\ posts' # posts => Get(d).kind = "none"
                            \/ faults' >= faults + 1
    BY ClassifyFailures
  <2>2. c \in todo /\ todo \ {c} = todo \ {d}
    BY <1>2, <2>1
  <2>3. d = c
    BY <2>2
  <2> QED BY <2>1, <2>3
<1>4. TypeOK'
  BY <1>2, TypeStep DEF TypeInv, DuePending, Next, PollStep
<1>5. /\ faults \in Nat /\ faults' \in Nat
      /\ mem.announcements \in [Conf -> Instance \cup {NoInstance}]
      /\ start \in [Conf -> Nat] /\ candidate \in Nat /\ candidate' \in Nat
      /\ mem.lastSeen \in Nat /\ hadFailure \in BOOLEAN /\ hadFailure' \in BOOLEAN
  <2>1. faults' \in Nat /\ candidate' \in Nat /\ hadFailure' \in BOOLEAN
    BY <1>4 DEF TypeOK, Time
  <2>2. /\ faults \in Nat /\ start \in [Conf -> Nat] /\ candidate \in Nat
        /\ hadFailure \in BOOLEAN
    BY DEF TypeOK, Time
  <2>3. mem.announcements \in [Conf -> Instance \cup {NoInstance}] /\ mem.lastSeen \in Nat
    BY DEF TypeOK, Subscription, Time
  <2> QED BY <2>1, <2>2, <2>3
<1>6. /\ \A d \in Conf : d # c => kv'[d] = kv[d] /\ mem'.announcements[d] = mem.announcements[d]
      /\ posts' = posts \/ \E i \in Instance \cup {NoInstance} : CreatePost(c, i)
      /\ posts' # posts => mem'.announcements = mem.announcements
      /\ changed' = TRUE \/ (mem'.announcements = mem.announcements /\ changed' = changed)
  <2>1. posts' = posts \/ \E i \in Instance \cup {NoInstance} : CreatePost(c, i)
    BY <1>1 DEF ClassifyComesTo, PostAllowed
  <2>2. CASE StaysUnhandled(c) \/ SeenAgain(c)
    BY <2>1, <2>2 DEF StaysUnhandled, SeenAgain
  <2>3. ASSUME NEW i \in Instance, Deferred(c, i)
        PROVE  <1>6!:
    BY <1>5, <2>3 DEF Deferred
  <2>4. ASSUME NEW state, NEW b, DecisionStored(c, state, b)
        PROVE  <1>6!:
    BY <2>1, <2>4 DEF DecisionStored, TypeOK
  <2>5. CASE Silenced(c)
    BY <2>4, <2>5 DEF Silenced
  <2>6. CASE \E i \in Instance : \E p \in Nat : BoundTo(c, i, p) \/ PostedAndBound(c, i, p)
    BY <2>4, <2>6 DEF BoundTo, PostedAndBound
  <2>7. CASE \E p \in Nat : PostedUnbound(c, p)
    BY <2>4, <2>7 DEF PostedUnbound
  <2> QED BY <1>1, <2>2, <2>3, <2>5, <2>6, <2>7 DEF ClassifyComesTo, ClassifyCase
<1>7. \A d \in todo : mem.lastSeen < start[d] /\ ~PassedOver(d)
  BY <1>2, <1>5 DEF TrackingInv, BatchIsNew, PassedOver, TypeOK
<1>8. \A d \in Conf : StoredToPost(d)' = StoredToPost(d)
  BY <1>2 DEF StoredToPost, Started
<1>9. ASSUME NEW d \in Conf
      PROVE  /\ PostCount(d) \in Nat /\ StillToPost(d) \in Nat /\ StoredToPost(d) \in Nat
             /\ PostCount(d) + StillToPost(d) <= 1 + faults
             /\ PostCount(d) + StoredToPost(d) <= 1 + faults + One(AheadOfRecord(d))
  BY <1>2, CountTypes DEF DuplicatesInv, CycleCounts, RecordCounts
<1>10. /\ PostCount(c)' \in {PostCount(c), PostCount(c) + 1}
       /\ posts' = posts => PostCount(c)' = PostCount(c)
       /\ \A d \in Conf : d # c => PostCount(d)' = PostCount(d)
  <2>1. CASE posts' = posts
    BY <2>1 DEF PostCount, PostsAnnouncing
  <2>2. ASSUME NEW i \in Instance \cup {NoInstance}, CreatePost(c, i)
        PROVE  <1>10!:
    <3>1. posts' # posts
      BY <2>2, CreatedPost DEF TypeOK
    <3> QED BY <2>2, <3>1, AnnouncedOnceMore DEF PostCount
  <2> QED BY <1>6, <2>1, <2>2
<1>11. ChangesNoted'
  BY <1>2, <1>6 DEF ChangesNoted, DuplicatesInv
<1>12. ASSUME NEW d \in Conf
       PROVE  One(AheadOfRecord(d)') = IF d = c THEN 1 ELSE One(AheadOfRecord(d))
  BY <1>2, <1>6 DEF One, AheadOfRecord, StateStands
<1>13. CASE /\ hadFailure' = hadFailure /\ candidate' = Later(candidate, start[c])
            /\ posts' # posts => Get(c).kind = "none"
  <2>1. /\ hadFailure' = hadFailure /\ candidate <= candidate' /\ start[c] <= candidate'
        /\ posts' # posts => ~StateStands(c)
    BY <1>5, <1>13, StandingIsRead DEF Later
  <2>2. ASSUME NEW d \in Conf, d # c
        PROVE  CycleCounts(d)' /\ RecordCounts(d)'
    <3>1. PassedOver(d) => PassedOver(d)'
      BY <1>2, <1>5, <2>1 DEF PassedOver, Started
    <3>2. StillToPost(d)' <= StillToPost(d) /\ StillToPost(d)' \in Nat
      BY <1>2, <1>6, <2>1, <2>2, <3>1 DEF StillToPost, One
    <3>3. PostCount(d)' = PostCount(d) /\ One(AheadOfRecord(d)') = One(AheadOfRecord(d))
      BY <1>10, <1>12, <2>2
    <3> QED BY <1>3, <1>5, <1>8, <1>9, <3>2, <3>3 DEF CycleCounts, RecordCounts, One
  <2>3. CycleCounts(c)'
    <3>1. StillToPost(c) = 1 + One(hadFailure) + One(mem.announcements[c] # NoInstance)
      BY <1>2, <1>7 DEF StillToPost, One
    <3>2. hadFailure \/ PassedOver(c)'
      <4>1. Started(c)
        BY <1>2, <1>5, <1>7 DEF Started
      <4> QED BY <1>2, <2>1, <4>1 DEF PassedOver, Started
    <3>3. /\ StillToPost(c)' <= One(hadFailure) + One(mem'.announcements[c] # NoInstance)
          /\ StillToPost(c)' \in Nat
      BY <1>2, <3>2 DEF StillToPost, One
    <3>4. posts' = posts \/ One(mem'.announcements[c] # NoInstance) = One(mem.announcements[c] # NoInstance)
      BY <1>6 DEF One
    <3>5. \A b \in BOOLEAN : One(b) \in {0, 1}
      BY DEF One
    <3>6. /\ One(hadFailure) \in {0, 1} /\ One(mem.announcements[c] # NoInstance) \in {0, 1}
          /\ One(mem'.announcements[c] # NoInstance) \in {0, 1}
      BY DEF One
    <3>7. PostCount(c)' + StillToPost(c)' <= PostCount(c) + StillToPost(c)
      BY <1>9, <1>10, <3>1, <3>3, <3>4, <3>6
    <3> QED BY <1>3, <1>5, <1>9, <1>10, <3>3, <3>7 DEF CycleCounts
  <2>4. RecordCounts(c)'
    <3>1. posts' # posts => One(AheadOfRecord(c)) = 0
      BY <1>2, <2>1 DEF One, AheadOfRecord
    <3>2. One(AheadOfRecord(c)) \in {0, 1} /\ One(AheadOfRecord(c)') = 1
      BY <1>12 DEF One
    <3> QED BY <1>3, <1>5, <1>8, <1>9, <1>10, <3>1, <3>2 DEF RecordCounts
  <2> QED BY <1>11, <2>2, <2>3, <2>4 DEF DuplicatesInv
<1>14. CASE faults' >= faults + 1
  <2>1. ASSUME NEW d \in Conf, d # c
        PROVE  CycleCounts(d)' /\ RecordCounts(d)'
    <3>2. StillToPost(d)' <= StillToPost(d) + 1 /\ StillToPost(d)' \in Nat
      <4>1. CASE d \in todo
        BY <1>2, <1>6, <1>7, <2>1, <4>1 DEF StillToPost, One
      <4>2. CASE d \notin todo
        BY <1>2, <1>6, <2>1, <4>2 DEF StillToPost, One
      <4> QED BY <4>1, <4>2
    <3>3. PostCount(d)' = PostCount(d) /\ One(AheadOfRecord(d)') = One(AheadOfRecord(d))
      BY <1>10, <1>12, <2>1
    <3>4. One(AheadOfRecord(d)) \in {0, 1}
      BY DEF One
    <3> QED BY <1>5, <1>8, <1>9, <1>14, <3>2, <3>3, <3>4 DEF CycleCounts, RecordCounts
  <2>2. CycleCounts(c)' /\ RecordCounts(c)'
    <3>1. One(AheadOfRecord(c)) \in {0, 1} /\ One(AheadOfRecord(c)') = 1
      BY <1>12 DEF One
    <3>2. /\ One(mem.announcements[c] # NoInstance) \in {0, 1}
          /\ One(mem'.announcements[c] # NoInstance) \in {0, 1}
          /\ posts' = posts \/ One(mem'.announcements[c] # NoInstance) = One(mem.announcements[c] # NoInstance)
      BY <1>6 DEF One
    <3>3. 1 + One(mem.announcements[c] # NoInstance) <= StillToPost(c)
      BY <1>2, <1>7 DEF StillToPost, One
    <3>4. /\ StillToPost(c)' <= 1 + One(mem'.announcements[c] # NoInstance)
          /\ StillToPost(c)' \in Nat
      BY <1>2 DEF StillToPost, One
    <3> QED BY <1>5, <1>8, <1>9, <1>10, <1>14, <3>1, <3>2, <3>3, <3>4
            DEF CycleCounts, RecordCounts
  <2> QED BY <1>11, <2>1, <2>2 DEF DuplicatesInv
<1> QED BY <1>3, <1>13, <1>14

(* What the steps that copy the record do to the counts. *)
LEMMA CopyingFailures ==
    ASSUME TypeOK
    PROVE  /\ Copying => faults' >= faults
           /\ Crash => faults' >= faults + 1
           /\ SaveBatch => \/ sub' = mem'
                           \/ sub' = sub /\ faults' >= faults + 1
                           \/ sub' = sub /\ mem' = mem /\ ~changed
<1>1. NoFailure => faults' >= faults
  BY DEF TypeOK, NoFailure
<1>2. \A kind : Fail({kind}) => faults' >= faults + 1 /\ faults' >= faults
  <2> SUFFICES ASSUME NEW kind, Fail({kind})
               PROVE  faults' >= faults + 1 /\ faults' >= faults
    OBVIOUS
  <2> QED BY FailureCounted
<1>3. Crash => faults' >= faults + 1 /\ faults' >= faults
  BY <1>2 DEF Crash
<1>4. SaveBatch => /\ faults' >= faults
                   /\ \/ sub' = mem'
                      \/ sub' = sub /\ faults' >= faults + 1
                      \/ sub' = sub /\ mem' = mem /\ ~changed
  <2>1. SaveBatch => IF changed \/ mem' # mem THEN WriteBack(mem') ELSE NoFailure /\ UNCHANGED sub
    BY DEF SaveBatch
  <2>2. SaveBatch => \/ (NoFailure \/ Fail({"kvsub"}))
                        /\ (sub' = mem' \/ (Fail({"kvsub"}) /\ sub' = sub))
                     \/ NoFailure /\ sub' = sub /\ mem' = mem /\ ~changed
    BY <2>1 DEF WriteBack
  <2> QED BY <1>1, <1>2, <2>2 DEF TypeOK
<1>5. EndCycle => faults' >= faults
  <2>1. EndCycle => NoFailure \/ Fail({"kvsub"})
    BY DEF EndCycle, WriteBack
  <2> QED BY <1>1, <1>2, <2>1
<1>6. ListRecords => faults' >= faults
  BY <1>1, <1>2 DEF ListRecords
<1>7. Environment \/ BeginCycle => faults' >= faults
  BY <1>1 DEF Environment, Tick, StartConference, EndConference, BeginCycle, NoFailure
<1> QED BY <1>3, <1>4, <1>5, <1>6, <1>7 DEF Copying

LEMMA PassesFailures ==
    ASSUME TypeOK, (\E c \in Conf : ResolveEnd(c)) \/ BeginMarking \/ Mark
    PROVE  faults' >= faults
<1>1. NoFailure => faults' >= faults
  BY DEF TypeOK, NoFailure
<1>2. \A kinds : Fail(kinds) => faults' >= faults
  <2> SUFFICES ASSUME NEW kinds, Fail(kinds)
               PROVE  faults' >= faults
    OBVIOUS
  <2> QED BY FailureCounted
<1>3. (\E c \in Conf : ResolveEnd(c)) \/ BeginMarking => faults' >= faults
  <2>1. (\E c \in Conf : ResolveEnd(c)) => \E kinds : Fail(kinds)
    BY DEF ResolveEnd
  <2>2. BeginMarking => NoFailure
    BY DEF BeginMarking, NoFailure
  <2> QED BY <1>1, <1>2, <2>1, <2>2
<1>4. Mark => NoFailure \/ \E kinds : Fail(kinds)
  BY DEF Mark, MarkUnboundEnded, FlagBoundEnded, MarkBindingEnded, PassOver, FlagEnded
<1> QED BY <1>1, <1>2, <1>3, <1>4

LEMMA DuplicatesCopying ==
    ASSUME TypeOK, DuePending, LostInv, DuplicatesInv, Copying
    PROVE  DuplicatesInv'
<1>1. /\ \A c \in Conf : PostCount(c)' = PostCount(c)
      /\ kv' = kv
  BY CopyingCases DEF PostCount, PostsAnnouncing
<1>2. TypeOK'
  BY TypeStep DEF TypeInv, Copying, Next, PollStep
<1>3. /\ faults \in Nat /\ faults' \in Nat /\ faults' >= faults
  BY <1>2, CopyingFailures DEF TypeOK
<1>4. \A c \in Conf :
         /\ PostCount(c) \in Nat /\ StillToPost(c) \in Nat /\ StoredToPost(c) \in Nat
         /\ StillToPost(c)' \in Nat /\ StoredToPost(c)' \in Nat
         /\ pc # "idle" => PostCount(c) + StillToPost(c) <= 1 + faults
         /\ PostCount(c) + StoredToPost(c) <= 1 + faults + One(AheadOfRecord(c))
         /\ One(AheadOfRecord(c)) \in {0, 1} /\ One(AheadOfRecord(c)') \in {0, 1}
  <2>1. ASSUME NEW c \in Conf
        PROVE  /\ StillToPost(c)' \in Nat /\ StoredToPost(c)' \in Nat
               /\ One(AheadOfRecord(c)) \in {0, 1} /\ One(AheadOfRecord(c)') \in {0, 1}
    BY DEF StillToPost, StoredToPost, One
  <2> QED BY <2>1, CountTypes DEF DuplicatesInv, CycleCounts, RecordCounts
(* Counts that do not grow are enough. *)
<1>5. ASSUME ChangesNoted',
             \A c \in Conf :
                /\ pc' # "idle" => PostCount(c) + StillToPost(c)' <= 1 + faults'
                /\ PostCount(c) + StoredToPost(c)' <= 1 + faults' + One(AheadOfRecord(c)')
      PROVE  DuplicatesInv'
  BY <1>1, <1>5 DEF DuplicatesInv, CycleCounts, RecordCounts, One
<1>6. /\ start \in [Conf -> Nat] /\ mem.lastSeen \in Nat /\ candidate \in Nat
      /\ mem \in Subscription /\ sub \in Subscription
  BY DEF TypeOK, Subscription, Time
<1>7. CASE Environment
  <2>1. /\ UNCHANGED <<sub, mem, pc, todo, changed, hadFailure, candidate, faults>>
        /\ \A c \in Conf : start[c] # 0 => start'[c] = start[c]
    <3>1. UNCHANGED <<sub, mem, pc, todo, changed, hadFailure, candidate, faults>>
      BY <1>7 DEF Environment, Tick, StartConference, EndConference
    <3> QED BY <1>7, <3>1, TimesStable DEF LostInv, Next
  <2>2. ASSUME NEW c \in Conf
        PROVE  /\ StillToPost(c)' <= StillToPost(c) /\ StoredToPost(c)' <= StoredToPost(c)
               /\ One(AheadOfRecord(c)') = One(AheadOfRecord(c))
    <3>1. PassedOver(c) => PassedOver(c)'
      BY <2>1 DEF PassedOver, Started
    <3>2. Started(c) /\ start[c] <= sub.lastSeen => (Started(c) /\ start[c] <= sub.lastSeen)'
      BY <2>1 DEF Started
    <3>3. StillToPost(c)' <= StillToPost(c) /\ StoredToPost(c)' <= StoredToPost(c)
      BY <2>1, <3>1, <3>2 DEF StillToPost, StoredToPost, One
    <3> QED BY <1>1, <2>1, <3>3 DEF AheadOfRecord, StateStands, One
  <2>3. ChangesNoted'
    BY <2>1 DEF ChangesNoted, DuplicatesInv
  <2> QED BY <1>3, <1>4, <1>5, <2>1, <2>2, <2>3
<1>8. CASE BeginCycle
  <2>1. /\ pc = "idle" /\ pc' = "announce" /\ mem' = sub /\ sub' = sub /\ start' = start
    BY <1>8 DEF BeginCycle, googleVars
  <2>2. ASSUME NEW c \in Conf
        PROVE  /\ StillToPost(c)' = StoredToPost(c) /\ StoredToPost(c)' = StoredToPost(c)
               /\ One(AheadOfRecord(c)) = 0
    BY <2>1 DEF StillToPost, StoredToPost, PassedOver, Started, AheadOfRecord, One
  <2>3. ChangesNoted'
    BY <2>1 DEF ChangesNoted
  <2> QED BY <1>3, <1>4, <1>5, <2>2, <2>3
<1>9. CASE ListRecords
  <2>1. /\ pc = "announce" /\ pc' = "classify" /\ todo = {} /\ sub' = sub /\ start' = start
        /\ ~hadFailure' /\ mem'.lastSeen = mem.lastSeen
        /\ mem'.announcements = mem.announcements
        /\ changed => changed'
    BY <1>6, <1>9 DEF ListRecords, googleVars, Subscription
  <2>2. ASSUME NEW c \in Conf
        PROVE  /\ StillToPost(c)' <= StillToPost(c) /\ StoredToPost(c)' = StoredToPost(c)
               /\ AheadOfRecord(c) => AheadOfRecord(c)'
    <3>1. PassedOver(c) => PassedOver(c)'
      BY <2>1 DEF PassedOver, Started
    <3>2. StillToPost(c)' <= StillToPost(c)
      BY <2>1, <3>1 DEF StillToPost, One
    <3> QED BY <1>1, <2>1, <3>2 DEF StoredToPost, Started, AheadOfRecord, StateStands
  <2>3. \A c \in Conf : One(AheadOfRecord(c)) <= One(AheadOfRecord(c)')
    BY <2>2 DEF One
  <2>4. ChangesNoted'
    BY <2>1 DEF ChangesNoted, DuplicatesInv
  <2> QED BY <1>3, <1>4, <1>5, <2>1, <2>2, <2>3, <2>4
<1>10. CASE SaveBatch
  <2>1. /\ pc = "classify" /\ pc' = "resolve" /\ todo = {} /\ start' = start
        /\ mem'.announcements = mem.announcements
        /\ mem'.lastSeen = Later(mem.lastSeen, NextWatermark)
    BY <1>10, SaveBatchFacts DEF SaveBatch
  <2>2. ASSUME NEW c \in Conf
        PROVE  /\ StillToPost(c)' <= StillToPost(c)
               /\ sub' = mem' => StoredToPost(c)' = StillToPost(c)'
               /\ sub' = sub => StoredToPost(c)' = StoredToPost(c)
    <3>1. PassedOver(c) => PassedOver(c)'
      BY <1>6, <2>1 DEF PassedOver, Started, Later, NextWatermark
    <3>2. StillToPost(c)' <= StillToPost(c)
      BY <2>1, <3>1 DEF StillToPost, One
    <3>3. sub' = mem' => StoredToPost(c)' = StillToPost(c)'
      BY <2>1 DEF StoredToPost, StillToPost, PassedOver, Started, One
    <3> QED BY <2>1, <3>2, <3>3 DEF StoredToPost, Started
  <2>3. CASE sub' = mem'
    BY <1>3, <1>4, <1>5, <2>1, <2>2, <2>3 DEF ChangesNoted
  <2>4. CASE sub' = sub /\ faults' >= faults + 1
    BY <1>3, <1>4, <1>5, <2>1, <2>2, <2>4 DEF ChangesNoted
  <2>5. CASE sub' = sub /\ mem' = mem /\ ~changed
    <3>1. mem.lastSeen = sub.lastSeen /\ mem.announcements = sub.announcements
      BY <2>1, <2>5 DEF DuplicatesInv, ChangesNoted
    <3>2. \A c \in Conf : StoredToPost(c)' = StillToPost(c)'
      BY <2>1, <2>5, <3>1 DEF StoredToPost, StillToPost, PassedOver, Started, One
    <3> QED BY <1>3, <1>4, <1>5, <2>1, <2>2, <3>2 DEF ChangesNoted
  <2> QED BY <1>10, <2>3, <2>4, <2>5, CopyingFailures
<1>11. CASE EndCycle
  <2>1. /\ pc = "mark" /\ pc' = "idle" /\ start' = start
        /\ \/ sub' = sub
           \/ sub'.announcements = mem.announcements /\ sub'.lastSeen = mem.lastSeen
    BY <1>11, EndCycleFacts DEF EndCycle
  <2>2. ASSUME NEW c \in Conf
        PROVE  /\ StoredToPost(c)' \in {StoredToPost(c), StillToPost(c)}
               /\ One(AheadOfRecord(c)) = 0
    BY <2>1 DEF StillToPost, StoredToPost, PassedOver, Started, AheadOfRecord, One
  <2> QED BY <1>3, <1>4, <1>5, <2>1, <2>2 DEF ChangesNoted
<1>12. CASE Crash
  <2>1. pc' = "idle" /\ start' = start /\ sub' = sub /\ faults' >= faults + 1
    BY <1>12, CopyingFailures DEF Crash, googleVars
  <2>2. \A c \in Conf : StoredToPost(c)' = StoredToPost(c)
    BY <2>1 DEF StoredToPost, Started
  <2> QED BY <1>3, <1>4, <1>5, <2>1, <2>2 DEF ChangesNoted
<1> QED BY <1>7, <1>8, <1>9, <1>10, <1>11, <1>12 DEF Copying

LEMMA DuplicatesStep ==
    ASSUME StateTTL >= MaxTime, TypeOK, DuePending, LostInv, TrackingInv, DuplicatesInv,
           [Next]_vars
    PROVE  DuplicatesInv'
<1>1. CASE (\E c \in Conf : ResolveEnd(c)) \/ BeginMarking \/ Mark
  <2>1. /\ posts' = posts /\ mem'.announcements = mem.announcements /\ start' = start
        /\ mem'.lastSeen = mem.lastSeen /\ sub' = sub
        /\ pc \in {"resolve", "mark"} /\ pc' \in {"resolve", "mark"}
    BY <1>1, PassesCases DEF PassesLeave, QuietEffect
  <2>2. TypeOK'
    BY <1>1, TypeStep DEF TypeInv, Next, PollStep
  <2>3. faults \in Nat /\ faults' \in Nat /\ faults' >= faults
    BY <1>1, <2>2, PassesFailures DEF TypeOK
  <2>4. ASSUME NEW c \in Conf
        PROVE  CycleCounts(c)' /\ RecordCounts(c)'
    <3>1. /\ PostCount(c)' = PostCount(c) /\ StillToPost(c)' = StillToPost(c)
          /\ StoredToPost(c)' = StoredToPost(c)
          /\ One(AheadOfRecord(c)) = 0 /\ One(AheadOfRecord(c)') = 0
      BY <2>1 DEF PostCount, PostsAnnouncing, StillToPost, StoredToPost, PassedOver, Started,
                  AheadOfRecord, One
    <3>2. /\ PostCount(c) + StillToPost(c) <= 1 + faults
          /\ PostCount(c) + StoredToPost(c) <= 1 + faults
      BY <2>1, <3>1, CountTypes DEF DuplicatesInv, CycleCounts, RecordCounts
    <3> QED BY <2>3, <3>1, <3>2, CountTypes DEF CycleCounts, RecordCounts, One
  <2> QED BY <2>1, <2>4 DEF DuplicatesInv, ChangesNoted
<1>2. CASE UNCHANGED vars
  BY <1>2 DEF vars, DuplicatesInv, ChangesNoted, CycleCounts, RecordCounts, PostCount,
              PostsAnnouncing, StillToPost, StoredToPost, PassedOver, Started, AheadOfRecord,
              StateStands
<1> QED BY <1>1, <1>2, DuplicatesAnnounce, DuplicatesClassify, DuplicatesCopying
        DEF Next, PollStep, Copying

(* While no post state expires, every failure of any kind, at any point of    *)
(* any cycle, costs a conference at most one post more: announcing is at     *)
(* least once, and no more often than something failed.                      *)
THEOREM DuplicatesAreCounted ==
    ASSUME StateTTL >= MaxTime
    PROVE  Spec => []DuplicatesHaveFailures
<1>1. Init => TracedInv /\ DuplicatesInv
  BY TypeInit, LostInit, TrackingInit, DuplicatesInit DEF TracedInv, TypeInv, Init, DuePending
<1>2. TracedInv /\ DuplicatesInv /\ [Next]_vars => (TracedInv /\ DuplicatesInv)'
  BY TypeStep, LostStep, TrackingStep, DuplicatesStep DEF TracedInv, TypeInv
<1>3. TracedInv /\ DuplicatesInv => DuplicatesHaveFailures
  <2> SUFFICES ASSUME TracedInv, DuplicatesInv, NEW c \in Conf
               PROVE  PostCount(c) <= 1 + faults
    BY DEF DuplicatesHaveFailures, PostCount
  <2>1. /\ PostCount(c) \in Nat /\ StillToPost(c) \in Nat /\ StoredToPost(c) \in Nat
        /\ faults \in Nat
    BY CountTypes DEF TracedInv, TypeInv
  <2>2. pc = "idle" => One(AheadOfRecord(c)) = 0
    BY DEF AheadOfRecord, One
  <2> QED BY <2>1, <2>2 DEF DuplicatesInv, CycleCounts, RecordCounts
<1> QED BY <1>1, <1>2, <1>3, PTL DEF Spec

-----------------------------------------------------------------------------
(* Every second post of an event has its failure *)

LEMMA EventPostsFinite ==
    ASSUME TypeOK, NEW i \in Instance
    PROVE  /\ IsFiniteSet(PostsOfEvent(i)) /\ Cardinality(PostsOfEvent(i)) \in Nat
           /\ PostsOfEvent(i) \subseteq 1..Len(posts) /\ Len(posts) \in Nat
<1>1. DOMAIN posts = 1..Len(posts) /\ Len(posts) \in Nat
  BY DEF TypeOK
<1>2. IsFiniteSet(1..Len(posts))
  BY <1>1, FS_Interval
<1> QED BY <1>1, <1>2, FS_Subset, FS_CardinalityType DEF PostsOfEvent

LEMMA EventPostedOnceMore ==
    ASSUME TypeOK, NEW c \in Conf, NEW i \in Instance \cup {NoInstance}, CreatePost(c, i),
           NEW j \in Instance
    PROVE  \/ PostsOfEvent(j)' = PostsOfEvent(j)
           \/ /\ j = i /\ now < InstEnd[j] + Retention
              /\ Cardinality(PostsOfEvent(j)') = Cardinality(PostsOfEvent(j)) + 1
<1>1. /\ DOMAIN posts = 1..Len(posts) /\ DOMAIN posts' = 1..(Len(posts) + 1)
      /\ Len(posts) \in Nat
      /\ posts'[Len(posts) + 1].inst = i /\ posts'[Len(posts) + 1].at = now
      /\ \A p \in DOMAIN posts : posts'[p] = posts[p]
  BY CreatedPost DEF TypeOK
<1>2. CASE j = i /\ now < InstEnd[j] + Retention
  <2>1. PostsOfEvent(j)' = PostsOfEvent(j) \cup {Len(posts) + 1}
    BY <1>1, <1>2 DEF PostsOfEvent
  <2>2. Len(posts) + 1 \notin PostsOfEvent(j)
    BY <1>1 DEF PostsOfEvent
  <2> QED BY <1>2, <2>1, <2>2, EventPostsFinite, FS_AddElement
<1>3. CASE ~(j = i /\ now < InstEnd[j] + Retention)
  <2>1. PostsOfEvent(j)' = PostsOfEvent(j)
    BY <1>1, <1>3 DEF PostsOfEvent
  <2> QED BY <2>1
<1> QED BY <1>2, <1>3

(* A post made for an event is bound to it, or something failed. *)
PostBound(c, i) ==
    /\ CreatePost(c, i)
    /\ i # NoInstance => /\ mem.bindings[i].post = 0
                         /\ mem'.bindings[i].post # 0 \/ faults' >= faults + 1

LEMMA AnnouncedIsBound ==
    ASSUME TypeOK, DuePending, Announce
    PROVE  posts' = posts \/ \E c \in Conf : \E i \in Instance : PostBound(c, i)
<1>1. PICK c \in Conf, i \in Instance : AnnounceComesTo(c, i)
  BY AnnounceCases
<1>2. PICK p \in Nat : AnnounceCase(c, i, p)
  BY <1>1 DEF AnnounceComesTo
<1>3. CASE StaysPending(c, i)
  <2>1. faults' >= faults + 1
    BY <1>3, AnnounceFailures DEF StaysPending
  <2> QED BY <1>3, <2>1 DEF StaysPending, PostBound
<1>4. CASE OpensPost(c, i, p)
  <2>1. mem.bindings \in [Instance -> EventPostBinding] /\ Len(posts) + 1 # 0
    BY DEF TypeOK, Subscription
  <2>2. mem'.bindings[i].post # 0
    BY <1>4, <2>1 DEF OpensPost, NewBinding
  <2> QED BY <1>4, <2>2 DEF OpensPost, PostBound
<1>5. CASE GivenUp(c) \/ FoundOver(c) \/ JoinsPost(c, i, p)
  BY <1>5 DEF GivenUp, FoundOver, JoinsPost
<1> QED BY <1>2, <1>3, <1>4, <1>5 DEF AnnounceCase

LEMMA ClassifiedIsBound ==
    ASSUME TypeOK, Classify
    PROVE  posts' = posts \/ \E c \in Conf : \E i \in Instance \cup {NoInstance} : PostBound(c, i)
<1>1. ASSUME NEW c \in Conf, NEW i \in Instance, PostScheduled(c, i)
      PROVE  posts' = posts \/ PostBound(c, i)
  <2> DEFINE p == Len(posts) + 1
             s == [mem EXCEPT !.bindings[i] = NewBinding(c, p)]
  <2>1. /\ mem.bindings[i].post = 0
        /\ \/ posts' = posts
           \/ CreatePost(c, i) /\ (Recorded(c, PostedState(p), s, {}) \/ NotRecorded({"kvstate"}))
    BY <1>1 DEF PostScheduled
  <2>2. CASE CreatePost(c, i) /\ Recorded(c, PostedState(p), s, {})
    <3>1. /\ mem \in Subscription /\ p \in Nat /\ p # 0
          /\ s = [mem EXCEPT !.bindings = [mem.bindings EXCEPT ![i] = NewBinding(c, p)]]
      BY UpdateFacts DEF TypeOK
    <3>2. s.bindings = [mem.bindings EXCEPT ![i] = NewBinding(c, p)]
      BY <3>1 DEF Subscription
    <3>3. s.bindings[i].post = p
      BY <3>1, <3>2 DEF Subscription, NewBinding
    <3>4. Track(s, c, PostedState(p)).bindings = s.bindings
      BY <3>1 DEF Track, Subscription
    <3>5. mem' = s \/ mem' = Track(s, c, PostedState(p))
      BY <2>2 DEF Recorded
    <3>6. mem'.bindings[i].post # 0
      BY <3>1, <3>3, <3>4, <3>5
    <3> QED BY <2>1, <2>2, <3>6 DEF PostBound
  <2>3. CASE CreatePost(c, i) /\ NotRecorded({"kvstate"})
    <3>1. faults' >= faults + 1
      BY <2>3, FailureCounted DEF NotRecorded
    <3> QED BY <2>1, <2>3, <3>1 DEF PostBound
  <2> QED BY <2>1, <2>2, <2>3
<1>2. ASSUME NEW c \in Conf, NEW kinds, PostUnscheduled(c, kinds)
      PROVE  posts' = posts \/ PostBound(c, NoInstance)
  BY <1>2 DEF PostUnscheduled, PostBound
<1>3. PICK c \in Conf :
          \/ ReadStateFails(c) \/ SeenBefore(c)
          \/ \E i \in Instance : BindToAnnounced(c, i) \/ Defer(c, i) \/ PostScheduled(c, i)
          \/ \E kinds : Suppress(c, kinds) \/ PostUnscheduled(c, kinds)
  BY DEF Classify
<1>4. CASE \/ ReadStateFails(c) \/ SeenBefore(c)
           \/ \E i \in Instance : BindToAnnounced(c, i) \/ Defer(c, i)
           \/ \E kinds : Suppress(c, kinds)
  BY <1>4 DEF ReadStateFails, SeenBefore, BindToAnnounced, Defer, Suppress
<1> QED BY <1>1, <1>2, <1>3, <1>4

(* The posts an event may still get are counted with those it has: one while  *)
(* its binding has no post and has not expired, in the cycle's copy and in   *)
(* the stored record.  While the cycle has not saved its batch, it may have   *)
(* bound a post the record does not know of.                                *)
EventPostCount(i) == Cardinality(PostsOfEvent(i))

MayOpen(s, i) == s.bindings[i].post = 0 /\ now < InstEnd[i] + Retention

BoundAhead(i) == pc \in {"announce", "classify"} /\ mem.bindings[i].post # 0

CycleEventCounts(i) == pc # "idle" => EventPostCount(i) + One(MayOpen(mem, i)) <= 1 + faults

RecordEventCounts(i) ==
    EventPostCount(i) + One(MayOpen(sub, i)) <= 1 + faults + One(BoundAhead(i))

BindingsNoted == pc \in {"announce", "classify"} => changed \/ mem.bindings = sub.bindings

EventCountsInv ==
    BindingsNoted /\ \A i \in Instance : CycleEventCounts(i) /\ RecordEventCounts(i)

LEMMA EventCountTypes ==
    ASSUME TypeOK, NEW i \in Instance
    PROVE  EventPostCount(i) \in Nat /\ faults \in Nat
BY EventPostsFinite DEF EventPostCount, TypeOK

LEMMA OneOrNone == \A b : One(b) \in {0, 1} /\ (One(b) = 1 <=> b)
BY DEF One

LEMMA EventCountsInit == Init => EventCountsInv
<1> SUFFICES ASSUME Init, NEW i \in Instance
             PROVE  CycleEventCounts(i) /\ RecordEventCounts(i)
  BY DEF EventCountsInv, BindingsNoted, Init
<1>1. PostsOfEvent(i) = {} /\ pc = "idle" /\ faults = 0
  BY DEF Init, PostsOfEvent
<1>2. EventPostCount(i) = 0
  BY <1>1, FS_EmptySet DEF EventPostCount
<1> QED BY <1>1, <1>2 DEF CycleEventCounts, RecordEventCounts, One

LEMMA EventCountsPosting ==
    ASSUME TypeOK, DuePending, EventCountsInv, Announce \/ Classify
    PROVE  EventCountsInv'
<1>1. PICK c \in Conf : Posting(c)
  BY PostingAnnounce, PostingClassify
<1>2. /\ now' = now /\ sub' = sub /\ pc' = pc /\ pc \in {"announce", "classify"}
  <2>1. Announce => pc = "announce"
    BY DEF Announce, AnnouncementRefreshFails, DropAnnouncement, AnnounceDue
  <2>2. Classify => pc = "classify"
    BY ClassifyCases DEF ClassifyComesTo
  <2> QED BY <1>1, <2>1, <2>2 DEF Posting
<1>3. /\ faults \in Nat /\ faults' \in Nat /\ faults' >= faults
  <2>1. TypeOK'
    BY TypeStep DEF TypeInv, Next, PollStep
  <2>2. faults' >= faults
    BY AnnounceFailures, ClassifyFailures
  <2> QED BY <2>1, <2>2 DEF TypeOK
<1>4. BindingsNoted'
  BY <1>1, <1>2 DEF BindingsNoted, EventCountsInv, Posting
<1>5. \A i \in Instance : mem.bindings[i].post # 0 => mem'.bindings[i].post # 0
  <2>1. mem.bindings \in [Instance -> EventPostBinding]
    BY DEF TypeOK, Subscription
  <2>2. CASE \/ KeepsStates(c) \/ StoresSilence(c) \/ \E p \in Nat : Stands(c, p)
    BY <2>2 DEF KeepsStates, StoresSilence, Stands
  <2>3. ASSUME NEW i \in Instance, NEW p \in Nat, Joins(c, i, p)
        PROVE  \A j \in Instance : mem'.bindings[j].post = mem.bindings[j].post
    BY <2>1, <2>3 DEF Joins, JoinBinding, EventPostBinding
  <2>4. ASSUME NEW i \in Instance, NEW p \in Nat, Opens(c, i, p)
        PROVE  \A j \in Instance : mem.bindings[j].post # 0 => mem'.bindings[j].post # 0
    BY <2>1, <2>4 DEF Opens
  <2> QED BY <1>1, <2>2, <2>3, <2>4 DEF Posting, PostingCase
<1>6. posts' = posts \/ \E d \in Conf : \E i \in Instance \cup {NoInstance} : PostBound(d, i)
  BY AnnouncedIsBound, ClassifiedIsBound
<1>7. ASSUME NEW i \in Instance
      PROVE  CycleEventCounts(i)' /\ RecordEventCounts(i)'
  <2>1. /\ EventPostCount(i) \in Nat
        /\ EventPostCount(i) + One(MayOpen(mem, i)) <= 1 + faults
        /\ EventPostCount(i) + One(MayOpen(sub, i)) <= 1 + faults + One(BoundAhead(i))
    BY <1>2, EventCountTypes DEF EventCountsInv, CycleEventCounts, RecordEventCounts
  <2>2. /\ One(MayOpen(mem, i)) \in {0, 1} /\ One(MayOpen(mem, i)') \in {0, 1}
        /\ One(BoundAhead(i)) \in {0, 1} /\ One(BoundAhead(i)') \in {0, 1}
        /\ One(MayOpen(sub, i)') = One(MayOpen(sub, i)) /\ One(MayOpen(sub, i)) \in {0, 1}
        /\ One(MayOpen(mem, i)') <= One(MayOpen(mem, i))
        /\ One(BoundAhead(i)) <= One(BoundAhead(i)')
    BY <1>2, <1>5 DEF One, MayOpen, BoundAhead
  <2>3. CASE EventPostCount(i)' = EventPostCount(i)
    BY <1>3, <2>1, <2>2, <2>3 DEF CycleEventCounts, RecordEventCounts
  <2>4. CASE EventPostCount(i)' # EventPostCount(i)
    <3>1. posts' # posts
      BY <2>4 DEF EventPostCount, PostsOfEvent
    <3>2. PICK d \in Conf, j \in Instance \cup {NoInstance} : PostBound(d, j)
      BY <1>6, <3>1
    <3>3. /\ i = j /\ now < InstEnd[i] + Retention
          /\ EventPostCount(i)' = EventPostCount(i) + 1
      BY <2>4, <3>2, EventPostedOnceMore DEF PostBound, EventPostCount
    <3>4. mem.bindings[i].post = 0 /\ (mem'.bindings[i].post # 0 \/ faults' >= faults + 1)
      BY <3>2, <3>3, NoInstanceAssumption DEF PostBound
    <3>5. One(MayOpen(mem, i)) = 1 /\ One(BoundAhead(i)) = 0
      BY <3>3, <3>4 DEF MayOpen, BoundAhead, One
    <3>6. CASE mem'.bindings[i].post # 0
      <4>1. One(MayOpen(mem, i)') = 0 /\ One(BoundAhead(i)') = 1
        BY <1>2, <3>6 DEF MayOpen, BoundAhead, One
      <4> QED BY <1>3, <2>1, <2>2, <3>3, <3>5, <4>1 DEF CycleEventCounts, RecordEventCounts
    <3>7. CASE faults' >= faults + 1
      BY <1>3, <2>1, <2>2, <3>3, <3>5, <3>7 DEF CycleEventCounts, RecordEventCounts
    <3> QED BY <3>4, <3>6, <3>7
  <2> QED BY <2>3, <2>4
<1> QED BY <1>4, <1>7 DEF EventCountsInv

LEMMA EventCountsCopying ==
    ASSUME TypeOK, DuePending, EventCountsInv, Copying
    PROVE  EventCountsInv'
<1>1. posts' = posts /\ \A i \in Instance : EventPostCount(i)' = EventPostCount(i)
  BY CopyingCases DEF EventPostCount, PostsOfEvent
<1>2. /\ now \in Nat /\ Retention \in Nat /\ \A i \in Instance : InstEnd[i] \in Nat
      /\ mem \in Subscription
  BY DurationsAssumption, CalendarAssumption DEF TypeOK, Time
<1>3. /\ faults \in Nat /\ faults' \in Nat /\ faults' >= faults
  <2>1. TypeOK'
    BY TypeStep DEF TypeInv, Copying, Next, PollStep
  <2> QED BY <2>1, CopyingFailures DEF TypeOK
<1>4. \A i \in Instance :
         /\ EventPostCount(i) \in Nat
         /\ pc # "idle" => EventPostCount(i) + One(MayOpen(mem, i)) <= 1 + faults
         /\ EventPostCount(i) + One(MayOpen(sub, i)) <= 1 + faults + One(BoundAhead(i))
         /\ One(BoundAhead(i)) \in {0, 1} /\ One(BoundAhead(i)') \in {0, 1}
         /\ One(MayOpen(mem, i)) \in {0, 1} /\ One(MayOpen(sub, i)) \in {0, 1}
         /\ One(MayOpen(mem, i)') \in {0, 1} /\ One(MayOpen(sub, i)') \in {0, 1}
  BY EventCountTypes, OneOrNone DEF EventCountsInv, CycleEventCounts, RecordEventCounts
<1>5. ASSUME BindingsNoted',
             \A i \in Instance :
                /\ pc' # "idle" => EventPostCount(i) + One(MayOpen(mem, i)') <= 1 + faults'
                /\ EventPostCount(i) + One(MayOpen(sub, i)') <= 1 + faults' + One(BoundAhead(i)')
      PROVE  EventCountsInv'
  BY <1>1, <1>5 DEF EventCountsInv, CycleEventCounts, RecordEventCounts
<1>6. CASE Environment
  <2>1. UNCHANGED <<mem, sub, pc, changed>> /\ (now' = now \/ now' = now + 1)
    BY <1>6 DEF Environment, Tick, StartConference, EndConference
  <2>2. \A i \in Instance : /\ One(MayOpen(mem, i)') <= One(MayOpen(mem, i))
                            /\ One(MayOpen(sub, i)') <= One(MayOpen(sub, i))
                            /\ One(BoundAhead(i)') = One(BoundAhead(i))
    BY <1>2, <2>1 DEF One, MayOpen, BoundAhead
  <2>3. BindingsNoted'
    BY <2>1 DEF BindingsNoted, EventCountsInv
  <2> QED BY <1>3, <1>4, <1>5, <2>1, <2>2, <2>3
<1>7. CASE BeginCycle
  <2>1. pc = "idle" /\ now' = now /\ mem' = sub /\ sub' = sub
    BY <1>7 DEF BeginCycle
  <2>2. \A i \in Instance : /\ One(MayOpen(mem, i)') = One(MayOpen(sub, i))
                            /\ One(MayOpen(sub, i)') = One(MayOpen(sub, i))
                            /\ One(BoundAhead(i)) = 0
    BY <2>1 DEF One, MayOpen, BoundAhead
  <2>3. BindingsNoted'
    BY <2>1 DEF BindingsNoted
  <2> QED BY <1>3, <1>4, <1>5, <2>2, <2>3
<1>8. CASE ListRecords
  <2>1. /\ pc = "announce" /\ pc' = "classify" /\ now' = now /\ sub' = sub
        /\ mem'.bindings = PruneExpiredEventBindings(mem.bindings)
        /\ changed' = (changed \/ mem'.bindings # mem.bindings)
    BY <1>2, <1>8 DEF ListRecords, Subscription
  <2>2. ASSUME NEW i \in Instance
        PROVE  /\ One(MayOpen(mem, i)') = One(MayOpen(mem, i))
               /\ One(MayOpen(sub, i)') = One(MayOpen(sub, i))
               /\ \/ One(BoundAhead(i)') = One(BoundAhead(i))
                  \/ One(MayOpen(sub, i)) = 0
    <3>1. \/ mem'.bindings[i] = mem.bindings[i]
          \/ InstEnd[i] + Retention <= now
      BY <2>1 DEF PruneExpiredEventBindings
    <3> QED BY <1>2, <2>1, <3>1 DEF One, MayOpen, BoundAhead
  <2>3. BindingsNoted'
    BY <2>1 DEF BindingsNoted, EventCountsInv
  <2> QED BY <1>3, <1>4, <1>5, <2>1, <2>2, <2>3
<1>9. CASE SaveBatch
  <2>1. pc = "classify" /\ pc' = "resolve" /\ now' = now /\ mem'.bindings = mem.bindings
    BY <1>2, <1>9 DEF SaveBatch, Subscription
  <2>2. \A i \in Instance : /\ One(MayOpen(mem, i)') = One(MayOpen(mem, i))
                            /\ sub' = mem' => One(MayOpen(sub, i)') = One(MayOpen(mem, i))
                            /\ sub' = sub => One(MayOpen(sub, i)') = One(MayOpen(sub, i))
    BY <2>1 DEF One, MayOpen
  <2>3. BindingsNoted'
    BY <2>1 DEF BindingsNoted
  <2>4. CASE sub' = mem'
    BY <1>3, <1>4, <1>5, <2>1, <2>2, <2>3, <2>4
  <2>5. CASE sub' = sub /\ faults' >= faults + 1
    BY <1>3, <1>4, <1>5, <2>1, <2>2, <2>3, <2>5
  <2>6. CASE sub' = sub /\ ~changed
    <3>1. mem.bindings = sub.bindings
      BY <2>1, <2>6 DEF EventCountsInv, BindingsNoted
    <3>2. \A i \in Instance : One(MayOpen(sub, i)') = One(MayOpen(mem, i))
      BY <2>1, <2>6, <3>1 DEF One, MayOpen
    <3> QED BY <1>3, <1>4, <1>5, <2>1, <2>2, <2>3, <3>2
  <2> QED BY <1>9, <2>4, <2>5, <2>6, CopyingFailures
<1>10. CASE EndCycle
  <2>1. /\ pc = "mark" /\ pc' = "idle" /\ now' = now
        /\ sub' = sub \/ sub'.bindings = mem.bindings
    BY <1>2, <1>10 DEF EndCycle, WriteBack, Subscription
  <2>2. \A i \in Instance : /\ One(MayOpen(sub, i)') \in {One(MayOpen(sub, i)), One(MayOpen(mem, i))}
                            /\ One(BoundAhead(i)) = 0
    BY <2>1 DEF One, MayOpen, BoundAhead
  <2>3. BindingsNoted'
    BY <2>1 DEF BindingsNoted
  <2> QED BY <1>3, <1>4, <1>5, <2>1, <2>2, <2>3
<1>11. CASE Crash
  <2>1. pc' = "idle" /\ now' = now /\ sub' = sub /\ faults' >= faults + 1
    BY <1>11, CopyingFailures DEF Crash
  <2>2. \A i \in Instance : One(MayOpen(sub, i)') = One(MayOpen(sub, i))
    BY <2>1 DEF One, MayOpen
  <2>3. BindingsNoted'
    BY <2>1 DEF BindingsNoted
  <2> QED BY <1>3, <1>4, <1>5, <2>1, <2>2, <2>3
<1> QED BY <1>6, <1>7, <1>8, <1>9, <1>10, <1>11 DEF Copying

LEMMA EventCountsStep ==
    ASSUME TypeOK, DuePending, EventCountsInv, [Next]_vars
    PROVE  EventCountsInv'
<1>1. CASE (\E c \in Conf : ResolveEnd(c)) \/ BeginMarking \/ Mark
  <2>1. /\ posts' = posts /\ sub' = sub /\ now' = now
        /\ pc \in {"resolve", "mark"} /\ pc' \in {"resolve", "mark"}
        /\ \A i \in Instance : mem'.bindings[i].post = mem.bindings[i].post
    BY <1>1, PassesCases DEF PassesLeave, QuietEffect
  <2>2. TypeOK'
    BY <1>1, TypeStep DEF TypeInv, Next, PollStep
  <2>3. faults \in Nat /\ faults' \in Nat /\ faults' >= faults
    BY <1>1, <2>2, PassesFailures DEF TypeOK
  <2>4. ASSUME NEW i \in Instance
        PROVE  CycleEventCounts(i)' /\ RecordEventCounts(i)'
    <3>1. /\ EventPostCount(i)' = EventPostCount(i)
          /\ One(MayOpen(mem, i)') = One(MayOpen(mem, i))
          /\ One(MayOpen(sub, i)') = One(MayOpen(sub, i))
          /\ One(BoundAhead(i)) = 0 /\ One(BoundAhead(i)') = 0
          /\ One(MayOpen(mem, i)) \in {0, 1} /\ One(MayOpen(sub, i)) \in {0, 1}
      BY <2>1 DEF EventPostCount, PostsOfEvent, MayOpen, BoundAhead, One
    <3>2. /\ EventPostCount(i) \in Nat
          /\ EventPostCount(i) + One(MayOpen(mem, i)) <= 1 + faults
          /\ EventPostCount(i) + One(MayOpen(sub, i)) <= 1 + faults
      BY <2>1, <2>3, <3>1, EventCountTypes
      DEF EventCountsInv, CycleEventCounts, RecordEventCounts
    <3> QED BY <2>3, <3>1, <3>2 DEF CycleEventCounts, RecordEventCounts
  <2> QED BY <2>1, <2>4 DEF EventCountsInv, BindingsNoted
<1>2. CASE UNCHANGED vars
  BY <1>2 DEF vars, EventCountsInv, BindingsNoted, CycleEventCounts, RecordEventCounts,
              EventPostCount, PostsOfEvent, MayOpen, BoundAhead
<1> QED BY <1>1, <1>2, EventCountsPosting, EventCountsCopying DEF Next, PollStep, Copying

(* Whatever fails and whenever states expire, an event gets at most one post  *)
(* more for each failure, until its binding expires.                        *)
THEOREM EventDuplicatesAreCounted == Spec => []EventDuplicatesHaveFailures
<1>1. Init => TypeInv /\ EventCountsInv
  BY TypeInit, EventCountsInit DEF TypeInv, Init, DuePending
<1>2. TypeInv /\ EventCountsInv /\ [Next]_vars => (TypeInv /\ EventCountsInv)'
  BY TypeStep, EventCountsStep DEF TypeInv
<1>3. TypeInv /\ EventCountsInv => EventDuplicatesHaveFailures
  <2> SUFFICES ASSUME TypeInv, EventCountsInv, NEW i \in Instance
               PROVE  EventPostCount(i) <= 1 + faults
    BY DEF EventDuplicatesHaveFailures, EventPostCount
  <2>1. EventPostCount(i) \in Nat /\ faults \in Nat
    BY EventCountTypes DEF TypeInv
  <2>2. /\ One(MayOpen(mem, i)) \in {0, 1} /\ One(MayOpen(sub, i)) \in {0, 1}
        /\ pc = "idle" => One(BoundAhead(i)) = 0
    BY DEF One, BoundAhead
  <2> QED BY <2>1, <2>2 DEF EventCountsInv, CycleEventCounts, RecordEventCounts
<1> QED BY <1>1, <1>2, <1>3, PTL DEF Spec
=============================================================================
