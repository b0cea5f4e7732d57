--------------------------- MODULE AdHocMeetings ---------------------------
(***************************************************************************)
(* Meetings started with /meet start (server/meeting.go, StartMeeting) and  *)
(* the pass of the poll cycle that follows them (server/poll.go,            *)
(* pollAdHocMeetings and pollConferenceArtifacts): the index and the entry  *)
(* of each meeting, the conferences held in its space, their post states,   *)
(* the artifacts Google generates and the replies that deliver them.        *)
(*                                                                          *)
(* StartMeeting runs concurrently with the pass; its two KV writes are two  *)
(* actions.  The pass is one action per entry, per record and per artifact. *)
(* The cluster mutex admits one pass at a time.                             *)
(***************************************************************************)
EXTENDS Integers, FiniteSets

CONSTANTS
    Meeting,      \* meetings started; each has a Meet space and a start post of its own
    Conf,         \* conference records
    NoConf,       \* "no conference"
    MeetingOf,    \* [Conf -> Meeting], the space of each record
    Suppressed,   \* conferences a subscription on the same space silences first
    Artifact,
    ConfOf,       \* [Artifact -> Conf]
    KindOf,       \* [Artifact -> Kind]
    Linked,       \* artifacts with an export URI
    EntryTTL,     \* adHocMeetingPostTTL
    StateTTL,     \* conferencePostStateTTL
    Horizon,      \* bound: meetings and conferences start and end no later
    MaxTime,      \* bound: the clock stops here
    MaxFaults     \* bound: failed calls and stopped nodes

Kind == 1..3      \* recordings, transcripts, smart notes: the order of the pass

ASSUME MapsAssumption ==
    /\ MeetingOf \in [Conf -> Meeting] /\ ConfOf \in [Artifact -> Conf]
    /\ KindOf \in [Artifact -> Kind] /\ NoConf \notin Conf
    /\ Suppressed \subseteq Conf /\ Linked \subseteq Artifact
ASSUME BoundsAssumption ==
    /\ EntryTTL \in Nat \ {0} /\ StateTTL \in Nat \ {0}
    /\ Horizon \in Nat /\ MaxTime \in Nat /\ MaxFaults \in Nat

VARIABLES
    now,
    start, end,   \* Google: the times of each record, 0 while not known
    ready,        \* Google: artifacts in state FILE_GENERATED
    stage,        \* how far StartMeeting is
    index,        \* KV store: meet_adhoc_index
    entry,        \* KV store: meet_adhoc_<space>
    kv,           \* KV store: the ConferencePostState of each conference
    endedPosts,   \* start posts rewritten as ended
    links,        \* artifacts linked in the start post of their meeting
    copies,       \* how many posts each artifact has
    pc, toVisit,  \* the pass: its loop, and the entries not visited
    batch, ends,  \* records of the entry not visited, and their ends as listed
    conf, mem,    \* the conference whose artifacts are polled, its state
    kind, files,  \* the kind of artifact listed, and those not visited
    missed,       \* history: per artifact, records of its posting missed or lost
    faults        \* history: failures so far

googleVars == <<start, end, ready>>
postVars == <<endedPosts, links, copies>>
passVars == <<toVisit, batch, ends, conf, mem, kind, files>>
vars == <<now, start, end, ready, stage, index, entry, kv, endedPosts, links, copies,
          pc, toVisit, batch, ends, conf, mem, kind, files, missed, faults>>

-----------------------------------------------------------------------------
Time == 0..MaxTime

(* An expiry the clock cannot reach is one value.                            *)
Expiry(ttl) == IF now + ttl > MaxTime THEN MaxTime + 1 ELSE now + ttl

AdHocMeetingPost == [created : Time, exp : 0..MaxTime + 1]

NoEntry == [created |-> 0, exp |-> 0]

(* The post a state points to: the start post, or none (a state a            *)
(* subscription stored for a silenced conference has no MeetingPostID).      *)
ConferencePostState ==
    [post : {"unknown", "start", "empty"}, ended : BOOLEAN,
     posted : SUBSET Artifact, exp : 0..MaxTime + 1]

NoState == [post |-> "unknown", ended |-> FALSE, posted |-> {}, exp |-> 0]

NewState(p) == [post |-> p, ended |-> FALSE, posted |-> {}, exp |-> Expiry(StateTTL)]

Stored(state) == [state EXCEPT !.exp = Expiry(StateTTL)]

Fault == faults < MaxFaults /\ faults' = faults + 1

Recorded == {a \in Artifact : a \in kv[ConfOf[a]].posted}

-----------------------------------------------------------------------------
(* Time and Google Meet *)

(* Entries and states that reach their expiry are gone.                      *)
Tick ==
    LET Gone(x) == x.exp <= now + 1
    IN  /\ now < MaxTime /\ now' = now + 1
        /\ entry' = [m \in Meeting |-> IF Gone(entry[m]) THEN NoEntry ELSE entry[m]]
        /\ kv' = [c \in Conf |-> IF Gone(kv[c]) THEN NoState ELSE kv[c]]
        /\ missed' = [a \in Artifact |->
             IF a \in Recorded /\ Gone(kv[ConfOf[a]]) THEN missed[a] + 1 ELSE missed[a]]
        /\ UNCHANGED <<googleVars, stage, index, postVars, pc, passVars, faults>>

StartConference(c) ==
    /\ stage[MeetingOf[c]] # "none" /\ start[c] = 0 /\ now \in 1..Horizon
    /\ \A d \in Conf : MeetingOf[d] = MeetingOf[c] /\ start[d] # 0 => end[d] \in 1..now
    /\ start' = [start EXCEPT ![c] = now]
    /\ UNCHANGED <<now, end, ready, stage, index, entry, kv, postVars, pc, passVars, missed, faults>>

EndConference(c) ==
    /\ start[c] # 0 /\ end[c] = 0 /\ now <= Horizon
    /\ end' = [end EXCEPT ![c] = now]
    /\ UNCHANGED <<now, start, ready, stage, index, entry, kv, postVars, pc, passVars, missed, faults>>

(* Files are generated during the conference or long after it.               *)
GenerateFile(a) ==
    /\ start[ConfOf[a]] # 0 /\ a \notin ready
    /\ ready' = ready \cup {a}
    /\ UNCHANGED <<now, start, end, stage, index, entry, kv, postVars, pc, passVars, missed, faults>>

(* The subscription's cooldown silences the conference, in the part of a     *)
(* cycle that comes before the ad-hoc pass.                                  *)
SuppressBySubscription(c) ==
    /\ pc = "idle" /\ c \in Suppressed /\ start[c] # 0 /\ kv[c].post = "unknown"
    /\ kv' = [kv EXCEPT ![c] = NewState("empty")]
    /\ UNCHANGED <<now, googleVars, stage, index, entry, postVars, pc, passVars, missed, faults>>

-----------------------------------------------------------------------------
(* StartMeeting.  Without permission, token, space or post there is no       *)
(* meeting and nothing changes here.                                         *)

CreateStartPost(m) ==
    /\ stage[m] = "none" /\ now <= Horizon
    /\ stage' = [stage EXCEPT ![m] = "posted"]
    /\ entry' = [entry EXCEPT ![m] = [NoEntry EXCEPT !.created = now]]
    /\ UNCHANGED <<now, googleVars, index, kv, postVars, pc, passVars, missed, faults>>

(* A failure is logged and the entry is not stored either.                   *)
AddToAdHocIndex(m) ==
    /\ stage[m] = "posted"
    /\ \/ index' = index \cup {m} /\ stage' = [stage EXCEPT ![m] = "indexed"] /\ UNCHANGED faults
       \/ stage' = [stage EXCEPT ![m] = "done"] /\ Fault /\ UNCHANGED index
    /\ UNCHANGED <<now, googleVars, entry, kv, postVars, pc, passVars, missed>>

StoreAdHocMeetingPost(m) ==
    /\ stage[m] = "indexed" /\ stage' = [stage EXCEPT ![m] = "done"]
    /\ \/ entry' = [entry EXCEPT ![m].exp = Expiry(EntryTTL)] /\ UNCHANGED faults
       \/ Fault /\ UNCHANGED entry
    /\ UNCHANGED <<now, googleVars, index, kv, postVars, pc, passVars, missed>>

StartLost(m) ==
    /\ stage[m] \in {"posted", "indexed"} /\ stage' = [stage EXCEPT ![m] = "done"] /\ Fault
    /\ UNCHANGED <<now, googleVars, index, entry, kv, postVars, pc, passVars, missed>>

StartMeeting(m) == AddToAdHocIndex(m) \/ StoreAdHocMeetingPost(m)

-----------------------------------------------------------------------------
(* The pass over the entries *)

HasEntry(m) == entry[m].exp # 0

BeginPass ==
    /\ pc = "idle" /\ pc' = "entries" /\ toVisit' = index
    /\ UNCHANGED <<now, googleVars, stage, index, entry, kv, postVars,
                   batch, ends, conf, mem, kind, files, missed, faults>>

(* An index entry without a stored one is taken out of the index.  Reading   *)
(* and removing are two calls; an entry stored between them is left out of   *)
(* the index just as one stored right after.                                 *)
HealIndex(m) ==
    /\ pc = "entries" /\ m \in toVisit /\ ~HasEntry(m)
    /\ toVisit' = toVisit \ {m}
    /\ \/ index' = index \ {m} /\ UNCHANGED faults
       \/ Fault /\ UNCHANGED index
    /\ UNCHANGED <<now, googleVars, stage, entry, kv, postVars, pc,
                   batch, ends, conf, mem, kind, files, missed>>

(* The entry cannot be read, its user's token not be had, or the records not *)
(* be listed.                                                                *)
SkipEntry(m) ==
    /\ pc = "entries" /\ m \in toVisit /\ Fault
    /\ toVisit' = toVisit \ {m}
    /\ UNCHANGED <<now, googleVars, stage, index, entry, kv, postVars, pc,
                   batch, ends, conf, mem, kind, files, missed>>

(* A slip: only conferences under way are followed.                         *)
RunningRecordsSince(m, t) ==
    {c \in Conf : MeetingOf[c] = m /\ start[c] # 0 /\ start[c] > t /\ end[c] = 0}

RecordsSince(m, t) == {c \in Conf : MeetingOf[c] = m /\ start[c] # 0 /\ start[c] > t}

ListRecords(m) ==
    /\ pc = "entries" /\ m \in toVisit /\ HasEntry(m)
    /\ toVisit' = toVisit \ {m}
    /\ batch' = RecordsSince(m, entry[m].created) /\ ends' = end
    /\ pc' = "records"
    /\ UNCHANGED <<now, googleVars, stage, index, entry, kv, postVars,
                   conf, mem, kind, files, missed, faults>>

EndPass ==
    /\ pc = "entries" /\ toVisit = {} /\ pc' = "idle"
    /\ UNCHANGED <<now, googleVars, stage, index, entry, kv, postVars, passVars, missed, faults>>

NextEntry ==
    /\ pc = "records" /\ batch = {} /\ pc' = "entries"
    /\ ends' = [c \in Conf |-> 0]
    /\ UNCHANGED <<now, googleVars, stage, index, entry, kv, postVars,
                   toVisit, batch, conf, mem, kind, files, missed, faults>>

-----------------------------------------------------------------------------
(* One record: pin it to the start post, mark the post when it is over.      *)

(* A slip: the comparison the wrong way round.                              *)
EndsLater(c) == ends[c] # 0 /\ ends[c] > now

IsOver(c) == ends[c] # 0 /\ ends[c] < now

Pinned(c) == IF kv[c].post = "unknown" THEN NewState("start") ELSE kv[c]

(* The state cannot be read, or a new one not be stored.                     *)
SkipRecord(c) ==
    /\ pc = "records" /\ c \in batch /\ Fault
    /\ batch' = batch \ {c}
    /\ UNCHANGED <<now, googleVars, stage, index, entry, kv, postVars, pc,
                   toVisit, ends, conf, mem, kind, files, missed>>

(* pollConferenceArtifacts begins by reading the state again.                *)
PollArtifacts(c, state) ==
    /\ pc' = "artifacts" /\ conf' = c /\ mem' = state /\ kind' = 0 /\ files' = {}
    /\ batch' = batch \ {c}

(* The record needs no marking, or its post cannot be updated; a state       *)
(* without a post can never be marked.                                       *)
VisitRecord(c) ==
    LET state == Pinned(c)
        due == IsOver(c) /\ ~state.ended
    IN  /\ pc = "records" /\ c \in batch
        /\ IF due /\ state.post = "start" THEN Fault ELSE UNCHANGED faults
        /\ kv' = [kv EXCEPT ![c] = state]
        /\ PollArtifacts(c, state)
        /\ UNCHANGED <<now, googleVars, stage, index, entry, postVars, toVisit, ends, missed>>

(* A slip: the flag is stored whether or not the post was updated.           *)
FlagRecord(c) ==
    LET state == Pinned(c)
        marked == [Stored(state) EXCEPT !.ended = TRUE]
    IN  /\ pc = "records" /\ c \in batch
        /\ IsOver(c) /\ ~state.ended /\ state.post = "start"
        /\ \/ endedPosts' = endedPosts \cup {MeetingOf[c]} /\ UNCHANGED faults
           \/ Fault /\ UNCHANGED endedPosts
        /\ kv' = [kv EXCEPT ![c] = marked] /\ PollArtifacts(c, marked)
        /\ UNCHANGED <<now, googleVars, stage, index, entry, links, copies, toVisit, ends, missed>>

(* The start post is rewritten as ended; that it was is stored, or not.      *)
MarkRecord(c) ==
    LET state == Pinned(c)
        marked == [Stored(state) EXCEPT !.ended = TRUE]
    IN  /\ pc = "records" /\ c \in batch
        /\ IsOver(c) /\ ~state.ended /\ state.post = "start"
        /\ endedPosts' = endedPosts \cup {MeetingOf[c]}
        /\ \/ kv' = [kv EXCEPT ![c] = marked] /\ PollArtifacts(c, marked) /\ UNCHANGED faults
           \/ kv' = [kv EXCEPT ![c] = state] /\ PollArtifacts(c, state) /\ Fault
        /\ UNCHANGED <<now, googleVars, stage, index, entry, links, copies, toVisit, ends, missed>>

-----------------------------------------------------------------------------
(* pollConferenceArtifacts, for conf with its state in mem *)

(* A slip: one listing too many.                                            *)
ListArtifactsOnceMore ==
    /\ pc = "artifacts" /\ files = {} /\ kind < 4
    /\ kind' = kind + 1
    /\ \/ /\ files' = {a \in ready : ConfOf[a] = conf /\ KindOf[a] = kind' /\ a \notin mem.posted}
          /\ UNCHANGED faults
       \/ files' = {} /\ Fault
    /\ UNCHANGED <<now, googleVars, stage, index, entry, kv, postVars, pc,
                   toVisit, batch, ends, conf, mem, missed>>

(* The next kind is listed, of which only generated files not posted yet     *)
(* matter; a listing that fails leaves the kind to the next cycle.           *)
ListArtifacts ==
    /\ pc = "artifacts" /\ files = {} /\ kind < 3
    /\ kind' = kind + 1
    /\ \/ /\ files' = {a \in ready : ConfOf[a] = conf /\ KindOf[a] = kind' /\ a \notin mem.posted}
          /\ UNCHANGED faults
       \/ files' = {} /\ Fault
    /\ UNCHANGED <<now, googleVars, stage, index, entry, kv, postVars, pc,
                   toVisit, batch, ends, conf, mem, missed>>

(* The artifact's own post cannot be made; it stays for the next cycle.      *)
PostFails(a) ==
    /\ pc = "artifacts" /\ a \in files /\ Fault
    /\ files' = files \ {a}
    /\ UNCHANGED <<now, googleVars, stage, index, entry, kv, postVars, pc,
                   toVisit, batch, ends, conf, mem, kind, missed>>

(* appendMeetingArtifactLink: an artifact without a link has none to append, *)
(* a state without a post none to append to.                                 *)
AppendLink(a) ==
    IF a \in Linked /\ mem.post = "start" THEN links' = links \cup {a} ELSE UNCHANGED links

(* A slip: the id is remembered before its post is known to exist.           *)
PostUnchecked(a) ==
    /\ pc = "artifacts" /\ a \in files
    /\ files' = files \ {a}
    /\ mem' = [Stored(mem) EXCEPT !.posted = @ \cup {a}]
    /\ \/ copies' = [copies EXCEPT ![a] = @ + 1] /\ UNCHANGED faults
       \/ Fault /\ UNCHANGED copies
    /\ kv' = [kv EXCEPT ![conf] = mem'] /\ AppendLink(a)
    /\ UNCHANGED <<now, googleVars, stage, index, entry, endedPosts, pc,
                   toVisit, batch, ends, conf, kind, missed>>

(* The artifact is posted, its link appended (a failure is logged and never  *)
(* made up for), its id added to the state and the state stored.  When that  *)
(* fails, the id is in memory only, for the next store of this call.         *)
PostArtifact(a) ==
    /\ pc = "artifacts" /\ a \in files
    /\ files' = files \ {a}
    /\ copies' = [copies EXCEPT ![a] = @ + 1]
    /\ mem' = [Stored(mem) EXCEPT !.posted = @ \cup {a}]
    /\ \/ AppendLink(a) /\ kv' = [kv EXCEPT ![conf] = mem'] /\ UNCHANGED <<missed, faults>>
       \/ UNCHANGED links /\ kv' = [kv EXCEPT ![conf] = mem'] /\ Fault /\ UNCHANGED missed
       \/ AppendLink(a) /\ UNCHANGED kv /\ Fault /\ missed' = [missed EXCEPT ![a] = @ + 1]
    /\ UNCHANGED <<now, googleVars, stage, index, entry, endedPosts, pc,
                   toVisit, batch, ends, conf, kind>>

(* All kinds done, or the state could not be read at the beginning.          *)
NextRecord ==
    /\ pc = "artifacts" /\ files = {}
    /\ \/ kind = 3 /\ UNCHANGED faults
       \/ kind = 0 /\ Fault
    /\ pc' = "records" /\ conf' = NoConf /\ mem' = NoState /\ kind' = 0
    /\ UNCHANGED <<now, googleVars, stage, index, entry, kv, postVars,
                   toVisit, batch, ends, files, missed>>

(* The node that polls stops.                                                *)
PassLost ==
    /\ pc # "idle" /\ Fault /\ pc' = "idle"
    /\ toVisit' = {} /\ batch' = {} /\ ends' = [c \in Conf |-> 0]
    /\ conf' = NoConf /\ mem' = NoState /\ kind' = 0 /\ files' = {}
    /\ UNCHANGED <<now, googleVars, stage, index, entry, kv, postVars, missed>>

Pass ==
    \/ BeginPass \/ NextEntry \/ EndPass \/ ListArtifacts \/ NextRecord
    \/ \E m \in Meeting : HealIndex(m) \/ SkipEntry(m) \/ ListRecords(m)
    \/ \E c \in Conf : SkipRecord(c) \/ VisitRecord(c) \/ MarkRecord(c)
    \/ \E a \in Artifact : PostFails(a) \/ PostArtifact(a)

-----------------------------------------------------------------------------
Init ==
    /\ now = 0
    /\ start = [c \in Conf |-> 0] /\ end = [c \in Conf |-> 0] /\ ready = {}
    /\ stage = [m \in Meeting |-> "none"]
    /\ index = {} /\ entry = [m \in Meeting |-> NoEntry] /\ kv = [c \in Conf |-> NoState]
    /\ endedPosts = {} /\ links = {} /\ copies = [a \in Artifact |-> 0]
    /\ pc = "idle" /\ toVisit = {} /\ batch = {} /\ ends = [c \in Conf |-> 0]
    /\ conf = NoConf /\ mem = NoState /\ kind = 0 /\ files = {}
    /\ missed = [a \in Artifact |-> 0] /\ faults = 0

Next ==
    \/ Tick \/ Pass \/ PassLost
    \/ \E c \in Conf : StartConference(c) \/ EndConference(c) \/ SuppressBySubscription(c)
    \/ \E a \in Artifact : GenerateFile(a)
    \/ \E m \in Meeting : CreateStartPost(m) \/ StartMeeting(m) \/ StartLost(m)

Spec == Init /\ [][Next]_vars

(* The ticker fires for ever, a pass never waits, the clock runs and a       *)
(* StartMeeting under way goes on.  Nothing makes meetings, conferences or   *)
(* files happen.                                                             *)
Fairness ==
    /\ WF_vars(Pass) /\ WF_vars(Tick)
    /\ \A m \in Meeting : WF_vars(StartMeeting(m))

FairSpec == Spec /\ Fairness

-----------------------------------------------------------------------------
(* Properties *)

(* The variables keep their types.                                           *)
TypeOK ==
    /\ now \in Time /\ start \in [Conf -> Time] /\ end \in [Conf -> Time]
    /\ ready \subseteq Artifact
    /\ stage \in [Meeting -> {"none", "posted", "indexed", "done"}]
    /\ index \subseteq Meeting /\ entry \in [Meeting -> AdHocMeetingPost]
    /\ kv \in [Conf -> ConferencePostState]
    /\ endedPosts \subseteq Meeting /\ links \subseteq Artifact /\ copies \in [Artifact -> Nat]
    /\ pc \in {"idle", "entries", "records", "artifacts"} /\ toVisit \subseteq Meeting
    /\ batch \subseteq Conf /\ ends \in [Conf -> Time]
    /\ conf \in Conf \cup {NoConf} /\ mem \in ConferencePostState /\ kind \in 0..3 /\ files \subseteq Artifact
    /\ missed \in [Artifact -> Nat] /\ faults \in 0..MaxFaults

(* The post state says the truth about the channel: what it calls marked as  *)
(* ended is, and links lead to artifacts that have a post (pollAdHocMeetings *)
(* and pollConferenceArtifacts write it after the calls it reports).         *)
StateIsTrue ==
    /\ \A c \in Conf : kv[c].ended => MeetingOf[c] \in endedPosts
    /\ \A a \in Artifact : a \in Recorded \cup links => copies[a] > 0

Delivery == INSTANCE AtLeastOnceDelivery WITH
    Item <- Artifact, delivered <- copies, recorded <- Recorded

(* Artifacts are delivered at least once, and again only after their record  *)
(* was missed or had expired (the comment on persistState in                 *)
(* pollConferenceArtifacts).                                                 *)
ImplementsDelivery == Delivery!Spec

(* The pass still follows the meeting.                                       *)
Followed(m) == HasEntry(m) /\ m \in index

(* The conference began after the entry's CreatedAt, as the pass asks Google *)
(* for.                                                                      *)
Listed(c) == start[c] > entry[MeetingOf[c]].created

(* Whatever fails once, a generated artifact is delivered as long as its     *)
(* meeting is followed.                                                      *)
EveryArtifactDelivered ==
    \A a \in Artifact :
        a \in ready /\ Followed(MeetingOf[ConfOf[a]]) /\ Listed(ConfOf[a])
            ~> copies[a] > 0 \/ ~Followed(MeetingOf[ConfOf[a]])

(* The start post of a meeting whose conference is over is marked as ended   *)
(* as long as the meeting is followed, unless the conference was silenced.   *)
EveryStartPostEnds ==
    \A c \in Conf \ Suppressed :
        end[c] # 0 /\ Followed(MeetingOf[c]) /\ Listed(c)
            ~> MeetingOf[c] \in endedPosts \/ ~Followed(MeetingOf[c])

(* The comment in StartMeeting: adding to the index first keeps a stored     *)
(* entry from being unknown to the poller until it expires.                  *)
NoOrphanedEntry == \A m \in Meeting : HasEntry(m) => m \in index
=============================================================================
