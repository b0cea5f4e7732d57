--------------------------- MODULE ConferencePoll ---------------------------
(***************************************************************************)
(* One subscription of the plugin and the poll cycle that serves it         *)
(* (server/poll.go, pollSubscription and everything it calls): the          *)
(* conference records Google reports for the subscribed space, the          *)
(* calendar events that schedule them, the posts made in the channel, the   *)
(* subscription record and the per-conference post states in the KV store.  *)
(*                                                                          *)
(* A cycle works on a copy of the subscription (mem) and writes it back     *)
(* (sub) at two points.  One action is one iteration of one of its loops,   *)
(* with the calls to Google, Mattermost and the KV store that iteration     *)
(* makes; each call may fail, and the node may stop between two actions.    *)
(* The cluster mutex of runPollCycle admits one cycle at a time, so a       *)
(* single program counter is enough.                                        *)
(***************************************************************************)
EXTENDS Integers, FiniteSets, Sequences

CONSTANTS
    Conf,          \* conference records the space may ever have
    Instance,      \* calendar event instances whose conference ID is the space's code
    NoInstance,    \* "no calendar instance"
    InstStart,     \* [Instance -> Time], the scheduled start
    InstEnd,       \* [Instance -> Time], the scheduled end
    CalendarSync,  \* EnableCalendarScheduleSync
    Cooldown,      \* conferenceStartCooldown(), 0 when disabled
    Grace,         \* conferenceRejoinGrace
    Retention,     \* eventBindingRetention
    MatchWindow,   \* calendarMatchLead = calendarMatchTrail
    StateTTL,      \* conferencePostStateTTL
    Horizon,       \* bound: conferences start and end no later than this
    MaxTime,       \* bound: the clock stops here
    FaultKinds,    \* which calls may fail
    MaxFaults      \* bound: how many failures and crashes a behaviour has

AllFaultKinds ==
    { "google",    \* a call to the Meet API fails
      "calendar",  \* a call to the Calendar API fails
      "post",      \* creating or updating a Mattermost post fails
      "kvread",    \* GetConferencePostState fails
      "kvstate",   \* StoreConferencePostState fails
      "kvsub",     \* StoreSubscription fails
      "crash" }    \* the node stops in the middle of a cycle

ASSUME NoInstanceAssumption == NoInstance \notin Instance
ASSUME BoundsAssumption == /\ MaxTime \in Nat \ {0} /\ Horizon \in Nat
                           /\ MaxFaults \in Nat
                           /\ Horizon <= MaxTime
ASSUME DurationsAssumption == /\ Cooldown \in Nat /\ Grace \in Nat
                              /\ Retention \in Nat /\ MatchWindow \in Nat
                              /\ StateTTL \in Nat \ {0}
ASSUME CalendarAssumption == /\ InstStart \in [Instance -> 1..MaxTime]
                             /\ InstEnd \in [Instance -> Nat]
                             /\ CalendarSync \in BOOLEAN
ASSUME FaultsAssumption == FaultKinds \subseteq AllFaultKinds

VARIABLES
    now,          \* time.Now()
    start, end,   \* Google: the times of each record, 0 while not known
    posts,        \* Mattermost: the conference-started posts, a post's id is its place
    endedPosts,   \* Mattermost: ids of the posts rewritten as ended
    kv,           \* KV store: the ConferencePostState of each conference
    sub,          \* KV store: the Subscription record
    mem,          \* the cycle's copy of it (equal to sub between cycles)
    pc,           \* where the cycle is
    todo,         \* what the current loop has still to visit
    asOf,         \* the clock read once by processDueScheduledAnnouncements
    changed,      \* subChanged
    endTimes,     \* ends of the fetched records, 0 when unknown or not fetched
    hadFailure,   \* some record of the batch could not be handled
    candidate,    \* candidateLastSeen
    resolved,     \* resolvedEnd, 0 when unknown
    pruned,       \* conferences pass 2 left out of stillActive
    abandoned,    \* history: announcements given up for good
    faults        \* history: failures so far

googleVars == <<start, end>>
chatVars == <<posts, endedPosts>>
batchVars == <<endTimes, hadFailure, candidate>>
markVars == <<resolved, pruned>>
vars == <<now, start, end, posts, endedPosts, kv, sub, mem, pc, todo, asOf, changed,
          endTimes, hadFailure, candidate, resolved, pruned, abandoned, faults>>

-----------------------------------------------------------------------------
(* Data *)

Time == 0..MaxTime
PostId == Nat          \* 0 is the empty MeetingPostID

Post == [conf : Conf, inst : Instance \cup {NoInstance}, at : Time]

ConferencePostState ==
    [kind : {"none", "posted", "suppressed"}, post : PostId, ended : BOOLEAN, exp : Nat]

EventPostBinding == [post : PostId, names : SUBSET Conf, ended : BOOLEAN]

Subscription ==
    [lastSeen : Time, lastEnd : Time, active : SUBSET Conf,
     announcements : [Conf -> Instance \cup {NoInstance}],
     bindings : [Instance -> EventPostBinding]]

NoState == [kind |-> "none", post |-> 0, ended |-> FALSE, exp |-> 0]

(* When an entry stored now expires; all times the clock never reaches are one. *)
Expiry == IF now + StateTTL > MaxTime THEN MaxTime + 1 ELSE now + StateTTL

PostedStateInThePast(p) ==
    [kind |-> "posted", post |-> p, ended |-> FALSE, exp |-> now - StateTTL]

PostedState(p) ==
    [kind |-> "posted", post |-> p, ended |-> FALSE, exp |-> Expiry]

SuppressedState ==
    [kind |-> "suppressed", post |-> 0, ended |-> FALSE, exp |-> Expiry]

NoBinding == [post |-> 0, names |-> {}, ended |-> FALSE]

NewSubscription ==
    [lastSeen |-> 0, lastEnd |-> 0, active |-> {},
     announcements |-> [c \in Conf |-> NoInstance],
     bindings |-> [i \in Instance |-> NoBinding]]

NoTimes == [c \in Conf |-> 0]

(* GetConferencePostState: an entry past its expiry reads as missing. *)
Get(c) == IF kv[c].exp > now THEN kv[c] ELSE NoState

Later(t, u) == IF t < u THEN u ELSE t

IsLatest(t, S) == t \in S /\ \A u \in S : u <= t

(* The failures a step meets, each of a kind that may happen, within the bound. *)
Fail(kinds) == /\ kinds \subseteq FaultKinds
               /\ faults + Cardinality(kinds) <= MaxFaults
               /\ faults' = faults + Cardinality(kinds)

NoFailure == UNCHANGED faults

-----------------------------------------------------------------------------
Init ==
    /\ now = 1
    /\ start = NoTimes /\ end = NoTimes
    /\ posts = <<>> /\ endedPosts = {}
    /\ kv = [c \in Conf |-> NoState]
    /\ sub = NewSubscription /\ mem = NewSubscription
    /\ pc = "idle" /\ todo = {} /\ asOf = 0 /\ changed = FALSE
    /\ endTimes = NoTimes /\ hadFailure = FALSE /\ candidate = 0
    /\ resolved = NoTimes /\ pruned = {}
    /\ abandoned = {} /\ faults = 0

-----------------------------------------------------------------------------
(* The environment: the clock, and Google Meet, which hosts one conference   *)
(* of a space at a time.                                                    *)

Tick == /\ now < MaxTime
        /\ now' = now + 1
        /\ UNCHANGED <<start, end, posts, endedPosts, kv, sub, mem, pc, todo, asOf, changed,
                       endTimes, hadFailure, candidate, resolved, pruned, abandoned, faults>>

StartConference(c) ==
    /\ now <= Horizon
    /\ start[c] = 0
    /\ \A d \in Conf : start[d] # 0 => start[d] < now /\ end[d] # 0
    /\ start' = [start EXCEPT ![c] = now]
    /\ UNCHANGED <<now, end, posts, endedPosts, kv, sub, mem, pc, todo, asOf, changed,
                   endTimes, hadFailure, candidate, resolved, pruned, abandoned, faults>>

EndConference(c) ==
    /\ now <= Horizon
    /\ start[c] # 0 /\ end[c] = 0 /\ start[c] < now
    /\ end' = [end EXCEPT ![c] = now]
    /\ UNCHANGED <<now, start, posts, endedPosts, kv, sub, mem, pc, todo, asOf, changed,
                   endTimes, hadFailure, candidate, resolved, pruned, abandoned, faults>>

-----------------------------------------------------------------------------
(* The cycle loads the subscription and takes up the announcements now due.  *)

BeginCycle ==
    /\ pc = "idle"
    /\ pc' = "announce"
    /\ mem' = sub
    /\ asOf' = now
    /\ todo' = {c \in Conf : /\ sub.announcements[c] # NoInstance
                             /\ InstStart[sub.announcements[c]] <= now}
    /\ UNCHANGED <<now, googleVars, chatVars, kv, sub, changed, batchVars, markVars,
                   abandoned, faults>>

(* The record of a due announcement could not be refreshed: keep it, unless  *)
(* its event is long over.                                                  *)
AnnouncementRefreshFails(c) ==
    LET i == mem.announcements[c]
        expired == asOf > InstEnd[i] + Retention
    IN
    /\ pc = "announce" /\ c \in todo
    /\ Fail({"google"})
    /\ todo' = todo \ {c}
    /\ IF expired
       THEN /\ mem' = [mem EXCEPT !.announcements[c] = NoInstance]
            /\ abandoned' = abandoned \cup {c}
            /\ changed' = TRUE
       ELSE UNCHANGED <<mem, abandoned, changed>>
    /\ UNCHANGED <<now, googleVars, chatVars, kv, sub, pc, asOf, batchVars, markVars>>

EndedEarly(c, i) == end[c] # 0 /\ end[c] < InstStart[i]

(* The conference was over before its event began: nothing to announce.  A   *)
(* failure to store the suppressed state is only logged.                    *)
DropAnnouncement(c) ==
    /\ pc = "announce" /\ c \in todo
    /\ EndedEarly(c, mem.announcements[c])
    /\ todo' = todo \ {c}
    /\ changed' = TRUE
    /\ mem' = [mem EXCEPT !.announcements[c] = NoInstance]
    /\ \/ /\ NoFailure
          /\ kv' = [kv EXCEPT ![c] = SuppressedState]
          /\ UNCHANGED abandoned
       \/ /\ Fail({"kvstate"})
          /\ abandoned' = abandoned \cup {c}
          /\ UNCHANGED kv
    /\ UNCHANGED <<now, googleVars, chatVars, sub, pc, asOf, batchVars, markVars>>

CreatePost(c, i) == posts' = Append(posts, [conf |-> c, inst |-> i, at |-> now])

NewBinding(c, p) == [post |-> p, names |-> {c}, ended |-> FALSE]

AnnouncedUntracked(s, c) == [s EXCEPT !.announcements[c] = NoInstance]

(* What the subscription becomes once a deferred announcement is out: the    *)
(* announcement is gone and its conference is tracked for artifacts.        *)
Announced(s, c) == [s EXCEPT !.announcements[c] = NoInstance, !.active = @ \cup {c}]

(* A due announcement is made: its conference joins the post its event       *)
(* already has, or the event's post is created now.  After a failure the    *)
(* announcement stays, even if the post was created.                        *)
AnnounceDue(c) ==
    LET i == mem.announcements[c]
        p == mem.bindings[i].post
    IN
    /\ pc = "announce" /\ c \in todo
    /\ ~EndedEarly(c, i)
    /\ todo' = todo \ {c}
    /\ changed' = TRUE
    /\ \/ /\ p # 0
          /\ UNCHANGED posts
          /\ \/ /\ NoFailure
                /\ kv' = [kv EXCEPT ![c] = PostedState(p)]
                /\ mem' = Announced([mem EXCEPT !.bindings[i].names = @ \cup {c}], c)
             \/ /\ Fail({"kvstate"})
                /\ UNCHANGED <<kv, mem>>
       \/ /\ p = 0
          /\ \/ /\ NoFailure
                /\ CreatePost(c, i)
                /\ kv' = [kv EXCEPT ![c] = PostedState(Len(posts) + 1)]
                /\ mem' = Announced([mem EXCEPT !.bindings[i] = NewBinding(c, Len(posts) + 1)], c)
             \/ /\ Fail({"post"})
                /\ UNCHANGED <<posts, kv, mem>>
             \/ /\ Fail({"kvstate"})
                /\ CreatePost(c, i)
                /\ UNCHANGED <<kv, mem>>
    /\ UNCHANGED <<now, googleVars, endedPosts, sub, pc, asOf, batchVars, markVars, abandoned>>

-----------------------------------------------------------------------------
(* Fetching the batch: expired bindings are pruned, then the records that    *)
(* started strictly after the watermark are listed.                         *)

PruneAtScheduledEnd(bindings) ==
    [i \in Instance |-> IF InstEnd[i] <= now THEN NoBinding ELSE bindings[i]]

PruneExpiredEventBindings(bindings) ==
    [i \in Instance |-> IF InstEnd[i] + Retention <= now THEN NoBinding ELSE bindings[i]]

StartedAtOrAfter(t) == {c \in Conf : start[c] # 0 /\ start[c] >= t}

StartedSince(t) == {c \in Conf : start[c] > t}

ListRecords ==
    /\ pc = "announce" /\ todo = {}
    /\ pc' = "classify"
    /\ asOf' = 0
    /\ mem' = [mem EXCEPT !.bindings = PruneExpiredEventBindings(mem.bindings)]
    /\ changed' = (changed \/ mem'.bindings # mem.bindings)
    /\ hadFailure' = FALSE
    /\ candidate' = mem.lastSeen
    /\ \/ NoFailure /\ todo' = StartedSince(mem.lastSeen)
       \/ Fail({"google"}) /\ todo' = {}
    /\ endTimes' = [c \in Conf |-> IF c \in todo' THEN end[c] ELSE 0]
    /\ UNCHANGED <<now, googleVars, chatVars, kv, sub, markVars, abandoned>>

-----------------------------------------------------------------------------
(* Classifying one record of the batch.                                     *)

Classifying(c) == pc = "classify" /\ c \in todo

Unhandled == hadFailure' = TRUE /\ UNCHANGED candidate

Handled(c) == candidate' = Later(candidate, start[c]) /\ UNCHANGED hadFailure

classifyUnchanged ==
    <<now, googleVars, endedPosts, sub, pc, asOf, endTimes, markVars, abandoned>>

ReadStateFails(c) ==
    /\ Classifying(c)
    /\ Fail({"kvread"})
    /\ todo' = todo \ {c}
    /\ Unhandled
    /\ UNCHANGED <<posts, kv, mem, changed>> /\ UNCHANGED classifyUnchanged

Track(s, c, state) ==
    IF state.kind = "posted" THEN [s EXCEPT !.active = @ \cup {c}] ELSE s

(* The record was classified in an earlier cycle. *)
SeenBefore(c) ==
    /\ Classifying(c) /\ Get(c).kind # "none"
    /\ todo' = todo \ {c}
    /\ Handled(c)
    /\ mem' = Track(mem, c, Get(c))
    /\ changed' = (changed \/ mem' # mem)
    /\ NoFailure
    /\ UNCHANGED <<posts, kv>> /\ UNCHANGED classifyUnchanged

(* The decision was stored as state, with subscription s; the state is read  *)
(* back, and if that fails the record counts as unhandled.                  *)
Recorded(c, state, s, kinds) ==
    /\ kv' = [kv EXCEPT ![c] = state]
    /\ changed' = TRUE
    /\ \/ Fail(kinds) /\ Handled(c) /\ mem' = Track(s, c, state)
       \/ Fail(kinds \cup {"kvread"}) /\ Unhandled /\ mem' = s

(* The decision could not be carried out. *)
NotRecorded(kinds) == Fail(kinds) /\ Unhandled /\ UNCHANGED <<kv, mem, changed>>

Distance(t, i) == IF t < InstStart[i] THEN InstStart[i] - t ELSE t - InstStart[i]

Nearest(t) ==
    LET candidates == {i \in Instance : Distance(t, i) <= MatchWindow}
    IN  {i \in candidates : \A j \in candidates : Distance(t, i) <= Distance(t, j)}

FindScheduledInstance(t) ==
    IF Nearest(t) = {} THEN NoInstance ELSE CHOOSE i \in Nearest(t) : TRUE

UnclassifiedEvenIfStored(c) == Classifying(c)

Unclassified(c) == Classifying(c) /\ Get(c).kind = "none"

ScheduledFor(c, i) ==
    CalendarSync /\ i \in Instance /\ i = FindScheduledInstance(start[c])

(* The event was announced already: its post is the conference's post.       *)
BindToAnnounced(c, i) ==
    LET p == mem.bindings[i].post IN
    /\ Unclassified(c) /\ ScheduledFor(c, i) /\ p # 0
    /\ todo' = todo \ {c}
    /\ \/ Recorded(c, PostedState(p), [mem EXCEPT !.bindings[i].names = @ \cup {c}], {})
       \/ NotRecorded({"kvstate"})
    /\ UNCHANGED posts /\ UNCHANGED classifyUnchanged

(* The event has not begun: its announcement waits for the scheduled start.  *)
Defer(c, i) ==
    /\ Unclassified(c) /\ ScheduledFor(c, i) /\ mem.bindings[i].post = 0
    /\ now < InstStart[i]
    /\ todo' = todo \ {c}
    /\ Handled(c)
    /\ changed' = TRUE
    /\ mem' = IF mem.announcements[c] # NoInstance THEN mem
              ELSE [mem EXCEPT !.announcements[c] = i]
    /\ NoFailure
    /\ UNCHANGED <<posts, kv>> /\ UNCHANGED classifyUnchanged

(* The event has begun and has no post yet. *)
PostScheduled(c, i) ==
    LET p == Len(posts) + 1 IN
    /\ Unclassified(c) /\ ScheduledFor(c, i) /\ mem.bindings[i].post = 0
    /\ now >= InstStart[i]
    /\ todo' = todo \ {c}
    /\ \/ /\ CreatePost(c, i)
          /\ \/ Recorded(c, PostedState(p), [mem EXCEPT !.bindings[i] = NewBinding(c, p)], {})
             \/ NotRecorded({"kvstate"})
       \/ NotRecorded({"post"}) /\ UNCHANGED posts
    /\ UNCHANGED classifyUnchanged

(* latestConferenceEndBefore: the latest of the persisted end and the other  *)
(* fetched records' ends that are not after the record's start.  The guard   *)
(* on the persisted end keeps a record's own end from anchoring it.         *)
KnownEndsOfBatch(c) == {endTimes[d] : d \in Conf \ {c}}

KnownEnds(c) == {mem.lastEnd} \cup {endTimes[d] : d \in Conf \ {c}}

KnownEndsUnguarded(c) == {0, mem.lastEnd} \cup {t \in KnownEnds(c) : t <= start[c]}

KnownEndsBefore(c) == {0} \cup {t \in KnownEnds(c) : t <= start[c]}

Suppresses(anchor, c) == Cooldown > 0 /\ anchor # 0 /\ start[c] - anchor < Cooldown

(* The calendar has no say: sync is off, the lookup failed, or no event      *)
(* matches.                                                                 *)
CooldownApplies(c, kinds) ==
    \/ kinds = {} /\ (CalendarSync => FindScheduledInstance(start[c]) = NoInstance)
    \/ kinds = {"calendar"} /\ CalendarSync

Suppress(c, kinds) ==
    /\ Unclassified(c) /\ CooldownApplies(c, kinds)
    /\ \E anchor \in KnownEndsBefore(c) :
          IsLatest(anchor, KnownEndsBefore(c)) /\ Suppresses(anchor, c)
    /\ todo' = todo \ {c}
    /\ Recorded(c, SuppressedState, mem, kinds) \/ NotRecorded(kinds \cup {"kvstate"})
    /\ UNCHANGED posts /\ UNCHANGED classifyUnchanged

PostUnscheduled(c, kinds) ==
    /\ Unclassified(c) /\ CooldownApplies(c, kinds)
    /\ \E anchor \in KnownEndsBefore(c) :
          IsLatest(anchor, KnownEndsBefore(c)) /\ ~Suppresses(anchor, c)
    /\ todo' = todo \ {c}
    /\ \/ /\ CreatePost(c, NoInstance)
          /\ \/ Recorded(c, PostedState(Len(posts) + 1), mem, kinds)
             \/ NotRecorded(kinds \cup {"kvstate"})
       \/ NotRecorded(kinds \cup {"post"}) /\ UNCHANGED posts
    /\ UNCHANGED classifyUnchanged

(* The batch is done: the watermark moves only if every record was handled,  *)
(* the latest end is noted, and the subscription is written back.           *)
EagerWatermark == candidate

NextWatermark == IF hadFailure THEN mem.lastSeen ELSE candidate

WriteBack(s) == \/ NoFailure /\ sub' = s
                \/ Fail({"kvsub"}) /\ UNCHANGED sub

SaveBatch ==
    /\ pc = "classify" /\ todo = {}
    /\ pc' = "resolve"
    /\ \E latest \in {mem.lastEnd} \cup {endTimes[c] : c \in Conf} :
          /\ IsLatest(latest, {mem.lastEnd} \cup {endTimes[c] : c \in Conf})
          /\ mem' = [mem EXCEPT !.lastSeen = Later(@, NextWatermark), !.lastEnd = latest]
    /\ IF changed \/ mem' # mem THEN WriteBack(mem') ELSE NoFailure /\ UNCHANGED sub
    /\ changed' = FALSE
    /\ todo' = mem.active
    /\ hadFailure' = FALSE /\ candidate' = 0
    /\ UNCHANGED <<now, googleVars, chatVars, kv, asOf, endTimes, markVars, abandoned>>

-----------------------------------------------------------------------------
(* Pass 1: the end time of every tracked conference.  One that is not in the *)
(* batch is fetched, unless its post is already known to be marked ended.   *)

ReadState(c, kinds) == IF "kvread" \in kinds THEN NoState ELSE Get(c)

NeedsFetch(c, state) == endTimes[c] = 0 /\ state.kind = "posted" /\ ~state.ended

ResolveEnd(c) ==
    /\ pc = "resolve" /\ c \in todo
    /\ \E kinds \in SUBSET {"kvread", "google"} :
         LET state == ReadState(c, kinds)
             known == CASE endTimes[c] # 0 -> endTimes[c]
                        [] NeedsFetch(c, state) /\ "google" \notin kinds -> end[c]
                        [] OTHER -> 0
         IN /\ Fail(kinds)
            /\ "google" \in kinds => NeedsFetch(c, state)
            /\ IF state.kind = "suppressed"
               THEN UNCHANGED <<resolved, mem>>
               ELSE /\ resolved' = [resolved EXCEPT ![c] = known]
                    /\ mem' = [mem EXCEPT !.lastEnd = Later(@, known)]
    /\ todo' = todo \ {c}
    /\ changed' = (changed \/ mem' # mem)
    /\ UNCHANGED <<now, googleVars, chatVars, kv, sub, pc, asOf, batchVars, pruned, abandoned>>

BeginMarking ==
    /\ pc = "resolve" /\ todo = {}
    /\ pc' = "mark"
    /\ todo' = mem.active
    /\ endTimes' = NoTimes    \* not read again in this cycle
    /\ UNCHANGED <<now, googleVars, chatVars, kv, sub, mem, asOf, changed, hadFailure, candidate,
                   markVars, abandoned, faults>>

-----------------------------------------------------------------------------
(* Pass 2: mark what has ended and leave out what is no longer tracked.      *)

BindingsOf(p) == {i \in Instance : mem.bindings[i].post = p}

EndKnown(c) == resolved[c] # 0 /\ resolved[c] <= now

(* aggregateBindingEnd and the rejoin grace.  The code compacts the active   *)
(* list in place while pass 2 reads it, so a name left out earlier in the    *)
(* pass may (stale) or may not still be seen.                               *)
Tracked(stale) == (mem.active \ pruned) \cup stale

AnyBoundConferenceOver(i, stale) ==
    \E d \in mem.bindings[i].names \cap Tracked(stale) :
        resolved[d] # 0 /\ resolved[d] + Grace <= now

BindingOver(i, stale) ==
    \A d \in mem.bindings[i].names \cap Tracked(stale) :
        resolved[d] # 0 /\ resolved[d] + Grace <= now

(* pollConferenceArtifacts stores the state again after each artifact posted,  *)
(* which renews its expiry; there may be none to post.                      *)
ArtifactsPolled(c) ==
    \/ UNCHANGED kv
    \/ Get(c) # NoState /\ kv' = [kv EXCEPT ![c].exp = Expiry]

(* The state after pass 2 decided c's meeting is over: it is stored, or the  *)
(* failure is logged and the flag is lost.                                  *)
FlagEnded(c) ==
    /\ changed' = TRUE
    /\ \/ NoFailure /\ kv' = [kv EXCEPT ![c].ended = TRUE, ![c].exp = Expiry]
       \/ Fail({"kvstate"}) /\ ArtifactsPolled(c)

Marking(c) == pc = "mark" /\ c \in todo

markUnchanged ==
    <<now, googleVars, posts, sub, pc, asOf, batchVars, resolved, abandoned>>

CanEnd(c) == Get(c).kind = "posted" /\ ~Get(c).ended /\ EndKnown(c)

(* No binding: the record's own end decides. *)
MarkUnboundEnded(c) ==
    LET p == Get(c).post IN
    /\ Marking(c) /\ CanEnd(c) /\ BindingsOf(p) = {}
    /\ todo' = todo \ {c}
    /\ endedPosts' = endedPosts \cup {p}
    /\ FlagEnded(c)
    /\ UNCHANGED <<mem, pruned>> /\ UNCHANGED markUnchanged

(* The event's post is already marked: only the record's flag is missing.    *)
FlagBoundEnded(c, i) ==
    /\ Marking(c) /\ CanEnd(c) /\ i \in BindingsOf(Get(c).post)
    /\ mem.bindings[i].ended
    /\ todo' = todo \ {c}
    /\ FlagEnded(c)
    /\ UNCHANGED <<mem, pruned, endedPosts>> /\ UNCHANGED markUnchanged

(* Every tracked record of the event is over and nobody rejoined in time.    *)
MarkBindingEnded(c, i) ==
    LET p == Get(c).post IN
    /\ Marking(c) /\ CanEnd(c) /\ i \in BindingsOf(p)
    /\ ~mem.bindings[i].ended
    /\ \E stale \in SUBSET pruned : BindingOver(i, stale)
    /\ todo' = todo \ {c}
    /\ endedPosts' = endedPosts \cup {p}
    /\ mem' = [mem EXCEPT !.bindings[i].ended = TRUE]
    /\ FlagEnded(c)
    /\ UNCHANGED pruned /\ UNCHANGED markUnchanged

(* Nothing to mark, or marking fails: the conference stays tracked, unless   *)
(* its state is gone (expired) or turned out suppressed.  The state is read  *)
(* once to mark and once for the artifacts; either read may fail.           *)
PassOver(c) ==
    LET state == Get(c) IN
    /\ Marking(c)
    /\ todo' = todo \ {c}
    /\ \/ /\ \/ NoFailure /\ ~CanEnd(c)
             \/ NoFailure /\ CanEnd(c) /\ \E i \in BindingsOf(state.post) :
                   ~mem.bindings[i].ended /\ \E stale \in SUBSET pruned : ~BindingOver(i, stale)
             \/ Fail({"post"}) /\ CanEnd(c)
          /\ IF state.kind = "posted"
             THEN ArtifactsPolled(c) /\ UNCHANGED pruned
             ELSE UNCHANGED kv /\ pruned' = pruned \cup {c}
       \/ /\ Fail({"kvread"})
          /\ ArtifactsPolled(c)
          /\ \/ UNCHANGED pruned
             \/ state = NoState /\ pruned' = pruned \cup {c}
    /\ UNCHANGED <<mem, changed, endedPosts>> /\ UNCHANGED markUnchanged

EndCycle ==
    LET s == [mem EXCEPT !.active = @ \ pruned] IN
    /\ pc = "mark" /\ todo = {}
    /\ IF pruned # {} \/ changed THEN WriteBack(s) ELSE NoFailure /\ UNCHANGED sub
    /\ pc' = "idle"
    /\ mem' = sub'
    /\ changed' = FALSE
    /\ resolved' = NoTimes /\ pruned' = {}
    /\ UNCHANGED <<now, googleVars, chatVars, kv, todo, asOf, batchVars, abandoned>>

(* The node stops; the next cycle, here or on another node, starts over.     *)
Crash ==
    /\ pc # "idle"
    /\ Fail({"crash"})
    /\ pc' = "idle" /\ mem' = sub
    /\ todo' = {} /\ asOf' = 0 /\ changed' = FALSE
    /\ endTimes' = NoTimes /\ hadFailure' = FALSE /\ candidate' = 0
    /\ resolved' = NoTimes /\ pruned' = {}
    /\ UNCHANGED <<now, googleVars, chatVars, kv, sub, abandoned>>

-----------------------------------------------------------------------------
Announce == \E c \in Conf : \/ AnnouncementRefreshFails(c)
                            \/ DropAnnouncement(c)
                            \/ AnnounceDue(c)

Classify == \E c \in Conf :
    \/ ReadStateFails(c)
    \/ SeenBefore(c)
    \/ \E i \in Instance : BindToAnnounced(c, i) \/ Defer(c, i) \/ PostScheduled(c, i)
    \/ \E kinds \in {{}, {"calendar"}} : Suppress(c, kinds) \/ PostUnscheduled(c, kinds)

Mark == \E c \in Conf :
    \/ MarkUnboundEnded(c)
    \/ \E i \in Instance : FlagBoundEnded(c, i) \/ MarkBindingEnded(c, i)
    \/ PassOver(c)

PollStep == \/ BeginCycle \/ Announce
            \/ ListRecords \/ Classify \/ SaveBatch
            \/ (\E c \in Conf : ResolveEnd(c)) \/ BeginMarking \/ Mark \/ EndCycle

Environment == Tick \/ \E c \in Conf : StartConference(c) \/ EndConference(c)

Next == PollStep \/ Crash \/ Environment

Spec == Init /\ [][Next]_vars

(* The ticker keeps firing and a cycle that was begun goes on; time passes.  *)
(* Nothing makes a conference start or end.                                 *)
Fairness == WF_vars(PollStep) /\ WF_vars(Tick)

FairSpec == Spec /\ Fairness

-----------------------------------------------------------------------------
(* Properties.  The operators above that no action uses (EagerWatermark,     *)
(* AnnouncedUntracked, ...) are plausible mistakes: with one in place of the *)
(* definition below it, some property here fails.                           *)

TypeOK ==
    /\ now \in 1..MaxTime
    /\ start \in [Conf -> Time] /\ end \in [Conf -> Time]
    /\ posts \in Seq(Post) /\ endedPosts \subseteq PostId
    /\ kv \in [Conf -> ConferencePostState]
    /\ sub \in Subscription /\ mem \in Subscription
    /\ pc \in {"idle", "announce", "classify", "resolve", "mark"}
    /\ todo \subseteq Conf /\ asOf \in Time /\ changed \in BOOLEAN
    /\ endTimes \in [Conf -> Time] /\ hadFailure \in BOOLEAN /\ candidate \in Time
    /\ resolved \in [Conf -> Time] /\ pruned \subseteq Conf
    /\ abandoned \subseteq Conf /\ faults \in 0..MaxFaults

(* The watermark never passes over a conference: one that started at or      *)
(* before the stored LastSeenConferenceStart (and so is never listed again)  *)
(* has a stored post state, waits as an announcement, or was given up        *)
(* deliberately, whatever failed and wherever the node stopped.             *)
NoConferenceLost ==
    \A c \in Conf : start[c] # 0 /\ start[c] <= sub.lastSeen =>
        \/ kv[c].kind # "none"
        \/ sub.announcements[c] # NoInstance
        \/ c \in abandoned

(* A conference that was announced and is not listed again stays in          *)
(* ActiveConferenceIDs while its state lives, so its end and its artifacts   *)
(* are still looked for; an announcement still pending brings it back.       *)
TrackedUntilExpired ==
    \A c \in Conf :
        start[c] # 0 /\ start[c] <= sub.lastSeen /\ Get(c).kind = "posted" =>
            \/ c \in sub.active
            \/ sub.announcements[c] # NoInstance
            \/ c \in abandoned

RejoinOf(c, d) ==
    end[d] # 0 /\ end[d] <= start[c] /\ start[c] - end[d] < Cooldown

(* A conference is kept silent for one of two reasons only: another one on   *)
(* the space really ended less than the cooldown before it started, or it    *)
(* was over before the event it was scheduled for began.                    *)
SuppressionJustified ==
    \A c \in Conf : kv[c].kind = "suppressed" =>
        \/ \E d \in Conf \ {c} : RejoinOf(c, d)
        \/ \E i \in Instance : ScheduledFor(c, i) /\ EndedEarly(c, i)

(* A conference is announced once. *)
OnePostPerConference ==
    \A p, q \in DOMAIN posts : posts[p].conf = posts[q].conf => p = q

PostsAnnouncing(c) == {p \in DOMAIN posts : posts[p].conf = c}

(* Announcing is at least once, and no more often than something failed: a    *)
(* call that fails, or a node that stops, at any point of any cycle costs a  *)
(* conference at most one post more.                                        *)
DuplicatesHaveFailures ==
    \A c \in Conf : Cardinality(PostsAnnouncing(c)) <= 1 + faults

(* A calendar event instance has one post; only after its binding expired    *)
(* can another be made.                                                     *)
OnePostPerInstance ==
    \A p, q \in DOMAIN posts :
        p < q /\ posts[p].inst = posts[q].inst /\ posts[p].inst # NoInstance =>
            posts[q].at >= InstEnd[posts[q].inst] + Retention

(* The posts made for an event before its binding expires. *)
PostsOfEvent(i) ==
    {p \in DOMAIN posts : posts[p].inst = i /\ posts[p].at < InstEnd[i] + Retention}

(* A rejoined event is announced again no more often than something failed:   *)
(* until its binding expires, a call that fails, or a node that stops,       *)
(* before the binding is stored costs the event at most one post more.       *)
EventDuplicatesHaveFailures ==
    \A i \in Instance : Cardinality(PostsOfEvent(i)) <= 1 + faults

PostOf(c) == IF Get(c).kind = "posted" THEN Get(c).post ELSE 0

OverFor(grace, c) == end[c] # 0 /\ end[c] + grace <= now

(* A conference that no event schedules is not announced within the cooldown  *)
(* of another one's end that an earlier write has stored.  The exception: an *)
(* attempt to announce it failed and it ended meanwhile, so that the stored  *)
(* end is its own (or a later one) and no longer anchors the cooldown.       *)
CooldownOnStoredEnds ==
    [][\A p \in DOMAIN posts' \ DOMAIN posts : posts'[p].inst = NoInstance =>
          \A d \in Conf \ {posts'[p].conf} : RejoinOf(posts'[p].conf, d) =>
             sub.lastEnd < end[d] \/ sub.lastEnd > start[posts'[p].conf]]_vars

(* A conference that no event schedules is not announced within the cooldown  *)
(* of the previous one's end, wherever that end came to be known.            *)
CooldownRespected ==
    \A p \in DOMAIN posts : posts[p].inst = NoInstance =>
        \A d \in Conf \ {posts[p].conf} : ~RejoinOf(posts[p].conf, d)

(* When a post is rewritten as ended, a conference it announces has ended;   *)
(* if the post belongs to a calendar event, all of its conferences have, a   *)
(* rejoin grace ago or more.                                                *)
EndedOnlyWhenOver ==
    [][\A p \in endedPosts' \ endedPosts :
          /\ \E c \in Conf : PostOf(c) = p /\ OverFor(0, c)
          /\ BindingsOf(p) # {} =>
                \A c \in Conf : PostOf(c) = p => OverFor(Grace, c)]_vars

(* Every conference that starts is eventually announced, suppressed or given *)
(* up: nothing waits for ever.                                              *)
EveryConferenceSettled ==
    \A c \in Conf : start[c] # 0 ~> (kv[c].kind # "none" \/ c \in abandoned)

(* Once no conference is running any more, every announced conference's post *)
(* is eventually marked as ended.                                           *)
EveryPostEnds ==
    \A c \in Conf :
        <>[](\A d \in Conf : start[d] # 0 => end[d] # 0) =>
            <>[](kv[c].kind = "posted" => kv[c].post \in endedPosts)

-----------------------------------------------------------------------------
(* The inductive invariant behind the safety properties, in named parts.     *)

Started(c) == start[c] # 0

(* A conference that subscription s need not list again. *)
Kept(s, c) == \/ kv[c].kind # "none"
              \/ s.announcements[c] # NoInstance
              \/ c \in abandoned

(* Google hosts the space's conferences one after the other.                 *)
TimesInOrder ==
    /\ \A c \in Conf : start[c] <= now
    /\ \A c \in Conf : end[c] # 0 => Started(c) /\ start[c] < end[c]

(* A watermark is the start of some conference, so whatever starts later is  *)
(* listed.                                                                  *)
Watermark(t) == t = 0 \/ \E c \in Conf : start[c] = t

WatermarksAreStarts ==
    Watermark(sub.lastSeen) /\ Watermark(mem.lastSeen) /\ Watermark(candidate)

NothingSkipped(s) ==
    \A c \in Conf : Started(c) /\ start[c] <= s.lastSeen => Kept(s, c)

(* While the batch is classified without failure, a conference no longer to  *)
(* be visited is either kept or started after everything in the batch.       *)
BatchInOrder ==
    pc = "classify" /\ ~hadFailure =>
        \A c \in Conf \ todo : Started(c) =>
            \/ Kept(mem, c)
            \/ candidate < start[c] /\ \A d \in todo : start[d] < start[c]

BatchStarted == pc = "classify" => \A c \in todo : Started(c)

LostInv == /\ TimesInOrder
           /\ WatermarksAreStarts
           /\ NothingSkipped(sub) /\ NothingSkipped(mem)
           /\ BatchStarted /\ BatchInOrder

(* Every end the cycle works with is the end Google recorded.                *)
RealEnd(t) == t = 0 \/ \E c \in Conf : end[c] = t

EndsAreReal ==
    /\ RealEnd(sub.lastEnd) /\ RealEnd(mem.lastEnd)
    /\ \A c \in Conf : endTimes[c] \in {0, end[c]}

AnnouncementsScheduled(s) ==
    \A c \in Conf : s.announcements[c] # NoInstance =>
        Started(c) /\ ScheduledFor(c, s.announcements[c])

(* Only the conferences of announcements pending are visited as due.         *)
DuePending == pc = "announce" => \A c \in todo : mem.announcements[c] # NoInstance

SuppressedWereStarted == \A c \in Conf : kv[c].kind = "suppressed" => Started(c)

SuppressionInv ==
    /\ EndsAreReal
    /\ AnnouncementsScheduled(sub) /\ AnnouncementsScheduled(mem)
    /\ DuePending /\ SuppressedWereStarted
    /\ SuppressionJustified
=============================================================================
