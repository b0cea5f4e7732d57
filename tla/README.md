# Verification of the Mattermost Google Meet plugin

TLA+ models, model-checking runs and machine-checked proofs about the server
side of `mattermost-plugin-google-meet`. Every definition is taken from the Go
source; `PROJECT.json` maps it to the lines it stands for.

- [1. The system](#1-the-system): its parts, what each keeps, what is hard
- [2. Modules](#2-modules): how the models correspond to the code
- [3. Runs](#3-runs): what TLC checks, on which instances, and what it shows
- [4. Proofs](#4-proofs): what TLAPS proves for all instances
- [5. Where code and text disagree](#5-where-code-and-text-disagree)
- [6. What is left out](#6-what-is-left-out)
- [7. Plan](#7-plan)

## 1. The system

The plugin lets Mattermost users start Google Meet meetings (`/meet start`) and
subscribe a channel to a Meet space (`/meet subscription add`). A background
poller watches the subscribed spaces and the meetings started ad hoc, announces
conferences in the channel, posts recordings, transcripts and notes under the
announcement, and rewrites it as ended.

| Component | State it keeps | Operations | Correct when |
|---|---|---|---|
| Subscription poll cycle (`server/poll.go`) | a copy of the `Subscription`, the batch's end times, the buffered watermark, resolved ends | `pollSubscription`: deferred announcements, pruning, listing, classification, write-back, pass 1 (ends), pass 2 (marking, artifacts), write-back | no conference is lost, each is announced once, none is silenced or marked as ended wrongly, each is eventually settled |
| Calendar matching (`server/calendar.go`) | none | `findScheduledInstance` | the nearest event in the window |
| Conference posts (`server/artifact_post.go`) | posts in the channel | `postConferenceStarted`, `markMeetingEnded`, `appendMeetingArtifactLink` | no lost update of a post; links once |
| KV store (`server/store/kvstore`) | subscriptions, two indexes, post states (7 days), ad-hoc entries (24 h) and their index, tokens, OAuth states (10 min), notices (24 h) | get, set, delete, compare-and-set on the indexes | indexes and records agree |
| Subscription registry (`server/subscription.go`) | the records and indexes above | `AddSubscription`, `RemoveSubscription`, `ListSubscriptions` | one channel per space; what is added is polled, what is removed stays removed |
| Ad-hoc meetings (`server/meeting.go`, `pollAdHocMeetings`) | entry and index per space | `StartMeeting`, the ad-hoc pass | every started meeting is polled until its entry expires |
| OAuth tokens (`server/google.go`, `api.go`, `auth.go`, `store/kvstore/oauth.go`) | token per user, pending states | connect, callback, refresh, disconnect, delete on missing scopes or a failed decryption | a stored connection can be used; a good token is not deleted; a disconnected user stays so |
| Artifact delivery (`pollConferenceArtifacts`) | posted ids in the post state, links in the post | list, post, append link, persist | nothing dropped; repeated only after a failure |
| Poller lifecycle (`configuration.go`, `plugin.go`, `poll.go:31-98`) | `pollerStop`, the configuration, the cluster mutex | activate, deactivate, configuration change, poll now | at most one poller per node, as configured; one cycle per cluster; polling goes on |
| Calendar notice (`notifyCalendarReconnectNeeded`) | a flag per user, 24 h | check, send, record | one message a day, a further one only if its flag could not be stored |
| HTTP API, slash commands | none of their own | parsing, permission checks, then an operation of a component above | - |
| Auth-user preference, web application, build tools | a preference the web application reads; none | one write; rendering; deployment | - |

How they interact. The poller's goroutine calls `runPollCycle` at every tick,
`handlePollNow` spawns further ones; a cluster-wide mutex lets one cycle run at
a time. A cycle reads the subscription of each space once, makes many calls to
Google, Mattermost and the KV store, and writes the record back twice. Commands
and HTTP handlers run concurrently with it and share the KV store with no lock
(compare-and-set protects only the index lists). A KV entry of a conference is
shared by the subscription and the ad-hoc pass. A user's token is read,
refreshed, replaced and deleted by that user's requests, by OAuth callbacks and
by the poll cycle, again with no lock.

What is hard. Each of the cycle's calls may fail on its own, and most failures
are logged and passed over, so a cycle may end with any subset of its writes
made. The node may stop between any two. Pieces of state must agree although they are
written apart: the watermark with the post states, the tracked list with the
announcements, the bindings with the posts, a record with its two indexes, an
ad-hoc entry with its index, an artifact's post with its id, the calendar notice
with its flag. Conferences end, restart and overlap scheduled events while a
cycle is under way, commands replace the record a cycle holds a copy of, and the
token a handler holds is replaced, deleted or rotated under it. `PROJECT.json`
lists these hazards, each at its line and with the properties aimed at it.

## 2. Modules

| Module | Content |
|---|---|
| `ConferencePoll` | one subscription, its environment and its poll cycle |
| `MCConferencePoll` | its instances: events and their times |
| `ConferencePollProofs` | the proof of the type invariant |
| `ConferencePollSafety` | the proofs that no conference is lost and none silenced without reason |
| `ConferencePollPosts` | the proofs about posts: announced conferences stay tracked, the cooldown holds on stored ends, posts are ended only when over, conferences and events are announced once, or once more per failure |
| `SubscriptionRegistry` | the commands that add and remove subscriptions, call by call, next to the poll cycle's reads and write-backs |
| `SpaceOwnership` | what the registry promises: an atomic map from spaces to channels |
| `MCSubscriptionRegistry`, `SubscriptionRegistryProofs` | its instance; its proofs, the refinement of `SpaceOwnership` among them |
| `AdHocMeetings` | `/meet start`, the ad-hoc pass, and the delivery of artifacts |
| `AtLeastOnceDelivery` | what delivery promises |
| `MCAdHocMeetings`, `AdHocMeetingsProofs` | its instances; its proofs, the refinement of `AtLeastOnceDelivery` among them |
| `OAuthTokens` | one user's Google connection under all handlers that touch it; the calendar notice |
| `MCOAuthTokens`, `OAuthTokensProofs` | its instance; its proofs |
| `PollerLifecycle` | the hooks, polling goroutines and mutex of all nodes |
| `MCPollerLifecycle`, `PollerLifecycleProofs` | its instance; its proofs |

How they fit together: `PollerLifecycle` shows that cycles exclude each other in
the cluster, which the other modules assume (one cycle, one pass, one poller
handler). `ConferencePoll` takes the whole of a cycle for one subscription that
stays; `SubscriptionRegistry` takes the cycle's contact with the registry while
commands change it. The artifacts both passes post are the loop modelled in
`AdHocMeetings`. A missing or refused token is a failed call in the three of
them; `OAuthTokens` says when that happens.

The mutated definitions of section 3 stand next to what they mutate, each marked
"A slip".

### ConferencePoll

State and code:

| Variable | Code |
|---|---|
| `sub`, `mem` | the stored `Subscription` and the `*Subscription` a cycle works on. `lastSeen` = `LastSeenConferenceStart`, `lastEnd` = `LastConferenceEndTime`, `active` = `ActiveConferenceIDs`, `announcements` = `ScheduledAnnouncements` (by conference), `bindings` = `EventPostBindings` (by event) |
| `kv` | `ConferencePostState` per conference, with its expiry |
| `posts`, `endedPosts` | conference posts made, and those `markMeetingEnded` rewrote |
| `start`, `end` | what Google reports of each conference record |
| `pc`, `todo` | the loop the cycle is in and what it has still to visit |
| `asOf` | the clock read once in `processDueScheduledAnnouncements` |
| `changed`, `endTimes`, `hadFailure`, `candidate`, `resolved` | `subChanged`, `endTimes`, `hadFailure`, `candidateLastSeen`, `resolvedEnd` |
| `pruned` | what pass 2 left out of `stillActive` |
| `abandoned`, `faults` | history: announcements given up; failures so far |

One action is one iteration of one of the cycle's loops with all the calls it
makes, or one of the blocks between the loops:

| Actions | Code |
|---|---|
| `BeginCycle` | `runPollCycle` loads the record, `processDueScheduledAnnouncements` reads the clock |
| `AnnouncementRefreshFails`, `DropAnnouncement`, `AnnounceDue` | one due announcement: its record cannot be fetched; it ended before the event; it is posted or joins the event's post |
| `ListRecords` | `pruneExpiredEventBindings`, `listConferenceRecords` |
| `ReadStateFails`, `SeenBefore`, `BindToAnnounced`, `Defer`, `PostScheduled`, `Suppress`, `PostUnscheduled` | one record of the batch, with every way its calls may fail |
| `SaveBatch` | watermark, last end, first write-back |
| `ResolveEnd`, `BeginMarking` | pass 1 |
| `MarkUnboundEnded`, `FlagBoundEnded`, `MarkBindingEnded`, `PassOver` | pass 2, one tracked conference |
| `EndCycle` | second write-back |
| `Crash` | the node stops; the next cycle reads the stored record |
| `Tick`, `StartConference`, `EndConference` | the clock and Google Meet (external) |

Failures are of seven kinds (`AllFaultKinds`), one per service a step calls;
`FaultKinds` and `MaxFaults` say which may happen and how many. A crash in the
middle of a step is the failure of the store in that step followed by `Crash`.

Modelling decisions:

- Time is a small integer; durations are constants with no relation assumed
  between them. 0 is the zero time, `nil` or "unknown".
- `lastSeen = 0` is the moment of subscription; conferences start later.
- Google hosts one conference of a space at a time and reports a record as soon
  as it starts; two records never start at the same instant. The calendar does
  not change during a behaviour, and the scheduled event of a conference is a
  function of its start (`FindScheduledInstance`).
- The loops visit their lists in any order. The code's order is one of them; the
  Meet API gives no order the code relies on.
- Pass 2 compacts `ActiveConferenceIDs` in place (`stillActive :=
  sub.ActiveConferenceIDs[:0]`) while `aggregateBindingEnd` searches the same
  array: a conference already left out may or may not still be found. `Tracked`
  takes any such set (`stale`).
- A subscription creator whose token is missing, or a feature switched off,
  is a cycle not taken. Both are checked before any state is touched.
- Artifacts are posted inside pass 2; here two effects of
  `pollConferenceArtifacts` matter: its outcome `done` (the state is gone), and
  that storing a state after posting an artifact renews its expiry
  (`ArtifactsPolled`). Which artifacts are posted is the matter of
  `AdHocMeetings`.
- An expiry the clock cannot reach is one value (`Expiry`).
- A `ConferencePostState` that is read twice in one iteration does not expire
  between the two reads.

### MCConferencePoll

Two or three interchangeable conferences and one event, which begins at 3
(`OneEvent`) or 4 (`LateEvent`).

### SubscriptionRegistry

| Variable | Code |
|---|---|
| `records` | `subscription_<space>`: channel and creator of each record (the rest of a `Subscription` is the matter of `ConferencePoll`) |
| `index`, `userIndex` | `subscription_index` and `subscription_user_<user>` |
| `pc`, `cmd`, `match` | a command under way: its next KV call, what it was asked for, the record `RemoveSubscription` found |
| `polling`, `toVisit`, `copy`, `writes` | the cycle: its listing, the record loaded, the write-backs that may still come |
| `disturbed` | history: spaces for which nothing is promised any more |

| Actions | Code |
|---|---|
| `GetExisting`, `StoreSubscription`, `AddToIndex`, `AddToUserIndex` | `AddSubscription`, one KV call each |
| `ListAll`, `FindMatch`, `DeleteSubscription`, `RemoveFromIndex`, `RemoveFromUserIndex` | `RemoveSubscription`, one KV call each |
| `ListSubscriptions` (an operator) | what the user is shown |
| `BeginCycle`, `LoadSubscription`, `WriteBack`, `FinishSubscription`, `EndCycle` | `runPollCycle` and the two stores of `pollSubscription` |
| `CommandLost`, `CycleLost` | the node stops |

A meeting code is its space: resolving it at Google changes nothing. An index
update is one atomic action, because the code makes it with compare-and-set.
A space becomes `disturbed` in exactly these cases: an index update failed; the
node stopped between the change of a record and the last index update; a record
was stored or deleted while another command was past its reads of the same
space, or while a poll cycle held a copy of the record. In all of them the code
leaves keys that contradict each other (a lost index entry is never mended, a
removed subscription comes back by the cycle's write-back), which no text of the
repository excludes; the properties say that they are the only cases.

### AdHocMeetings

| Variable | Code |
|---|---|
| `index`, `entry` | `meet_adhoc_index`, `meet_adhoc_<space>` (`AdHocMeetingPost`: `CreatedAt`, expiry) |
| `stage` | how far `StartMeeting` is |
| `kv`, `mem` | the stored `ConferencePostState`s and the one `pollConferenceArtifacts` holds: where its post is, whether it is marked as ended, the ids posted |
| `endedPosts`, `links`, `copies` | the channel: start posts rewritten, links appended, posts made of each artifact |
| `start`, `end`, `ready` | Google: records and generated files |
| `pc`, `toVisit`, `batch`, `ends`, `conf`, `kind`, `files` | the pass: its three nested loops and what they have still to visit |
| `missed` | history: how often an artifact was posted and not recorded, or its record expired |

| Actions | Code |
|---|---|
| `CreateStartPost`, `AddToAdHocIndex`, `StoreAdHocMeetingPost` | `StartMeeting` |
| `BeginPass`, `HealIndex`, `SkipEntry`, `ListRecords`, `NextEntry`, `EndPass` | `pollAdHocMeetings`, its loop over entries |
| `SkipRecord`, `VisitRecord`, `MarkRecord` | its loop over records |
| `ListArtifacts`, `PostFails`, `PostArtifact`, `NextRecord` | `pollConferenceArtifacts` |
| `StartLost`, `PassLost` | the node stops |
| `SuppressBySubscription` | the subscription pass stores a state without a post for a conference it silences (`classifyWithCooldown`) |

Expired entries and states disappear when the clock ticks. Three kinds of
artifact are listed one after the other, only generated files matter, an
artifact without an export URI has no link. A conference a subscription
silences has a state whose post is empty: the ad-hoc pass then never marks the
start post, and posts the artifacts to the subscription's channel as posts of
their own; that they arrive is checked, where is not. Conferences of an ad-hoc space that a subscription *announces* belong to that
subscription's post and are not in this module. A record is listed only if it
starts strictly after the entry's `CreatedAt` (`Listed`); Google's clock and the
server's are compared there, and nothing in the code bounds their difference.

### OAuthTokens

| Variable | Code |
|---|---|
| `stored` | `oauth_token_<user>`: the refresh token, the granted scopes, whether the access token is still good for a while, the key it is encrypted with |
| `pending` | `oauth_state_<state>` |
| `noticed` | `calendar_reconnect_notice_<user>` |
| `key`, `artifacts` | `EncryptionKey` and `EnableConferenceArtifactPosts` of the configuration |
| `pc`, `hand`, `sealKey`, `flow` | each handler: its next call, the token it holds, the key of the store it took, the flow of a callback |
| `live`, `grants`, `redeemed` | Google: refresh tokens it accepts, issued so far, codes already exchanged |
| `stale` | history: the stored token changed after the handler read it |
| `overtaken` | history: the stored token may not be the latest of its grant, because it was revoked, Google's answer with its successor was lost, the successor could not be stored, or a handler with an outdated reading stored one that Google had replaced |
| `notices`, `unmarked` | history: notices sent this day, and those of them whose flag was not stored |

| Actions | Code |
|---|---|
| `HandleOAuthConnect`, `StateExpires`, `Callback`, `GetState`, `DeleteState`, `ExchangeCodeForToken`, `StoreNewToken` | `handleOAuthConnect`, `handleOAuthCallback` with `GetAndDeleteOAuth2State`, `exchangeCodeForToken`, the scope check |
| `Request`, `CheckConnected`, `GetToken`, `DropUnreadable`, `RefreshToken`, `SaveRefreshed`, `Call`, `RejectForScopes` | a request for a meeting or a subscription: `IsUserConnected`, `getValidToken`, `refreshToken`, the call, the deletion on `ErrInsufficientScopes` |
| `Poll`, `PollCall`, `NoticeCheck`, `NoticeSend`, `NoticeMark`, `DayPasses` | the poll cycle's use of the token; `notifyCalendarReconnectNeeded` |
| `DisconnectUser`, `OnConfigurationChange` | the command; the settings |
| `AccessExpires`, `Revoke`, `HandlerLost` | time; the user at Google; a node stops |

Users do not share keys of the store, so one user is modelled. Encryption is
reduced to which key can read a token. Google redeems a code once, may or may
not rotate the refresh token, and refuses one it no longer accepts: the
behaviour `google.go` is written for. A call to Google may fail before or after
Google has acted on it: an answer that is lost, cut off or not parsed leaves a
refresh token rotated, or a code redeemed, that the plugin knows nothing of. A handler's store keeps the key of the
moment it was made. The poll cycle needs no `IsUserConnected` check, as in the
code.

### PollerLifecycle

| Variable | Code |
|---|---|
| `saved`, `unseen` | the configuration of the server and the nodes not told of it yet |
| `config`, `hasStore`, `stop` | a node's `p.configuration`, `p.kvstore`, `p.pollerStop` (the goroutine whose channel it is) |
| `hook` | the step of the hook under way |
| `closed`, `at`, `interval` | closed channels; where each goroutine is (0 serves poll-now); its ticker's interval |
| `holder` | the cluster mutex, `Orphaned` while its process is gone and its lease has not run out |

| Actions | Code |
|---|---|
| `OnActivate`, `SetKVStore`, `StopPoller`, `StartPoller`, `EnsureBot` | `OnActivate` |
| `OnConfigurationChange` and the same three steps | `OnConfigurationChange` |
| `OnDeactivate`, `Leave`, `NodeStops` | the node goes away in order, or not |
| `Tick`, `Stopped` | the `select` of the polling goroutine; if both channels are ready either is taken |
| `HandlePollNow` | `handlePollNow` |
| `Enter`, `Lock`, `Begin`, `Finish` | `runPollCycle` up to the work, and its deferred `Unlock` |
| `LockExpires` | the lease of the mutex (external) |

The server calls the hooks of one node one at a time; goroutines run between any
two steps of a hook. `pollInterval` is translated with its default and floor.

## 3. Runs

| Run | Instance | Checks | Distinct states |
|---|---|---|---|
| `poll_announce` | 3 conferences, event 4-5, window 1, one failure of Google or of posting, conferences until 4, clock until 6 | `OnePostPerConference`, `OnePostPerInstance`, `EndedOnlyWhenOver`, `CooldownOnStoredEnds` | 380 thousand |
| `poll_faults` | 2 conferences, event 3-4, window 2, any two failures or crashes, conferences until 3, clock until 6 | `TypeOK`, `NoConferenceLost`, `TrackedUntilExpired`, `SuppressionJustified`, `DuplicatesHaveFailures`, `EventDuplicatesHaveFailures` | 1.6 million |
| `poll_liveness` | 2 conferences, any one failure or crash, fairness, clock until 4 | `EveryConferenceSettled`, `EveryPostEnds` | 58 thousand |
| `registry` | 1 space, 2 channels, 2 users, 2 commands at a time and 3 in all, one failure or lost node, fairness | `TypeOK`, `KeysAgree`, `ImplementsOwnership`, `EverySubscriptionPolled` | 394 thousand |
| `adhoc` | 1 meeting, 2 conferences of which one is silenced, 3 artifacts of two kinds, one linked, any one failure, fairness, clock until 2 | `TypeOK`, `StateIsTrue`, `ImplementsDelivery`, `EveryArtifactDelivered`, `EveryStartPostEnds` | 348 thousand |
| `tokens` | a request, a callback and the poll cycle, 2 keys, 2 grants, 1 flow, 2 requests, one settings change, one failure, fairness | `TypeOK`, `ConnectionUsable`, `NoticesHaveFailures`, `GoodTokenKept`, `UnreadableTokenGoes`, `ExpiringTokenRefreshed` | 195 thousand |
| `lifecycle` | 2 nodes, 3 configurations (too fast an interval, off, incomplete), one change, one poll-now, one stop or failure, fairness | `TypeOK`, `NoPollerLeaks`, `PollerFollowsConfig`, `OneCycleAtATime`, `PollingGoesOn`, `SwitchedOffIsQuiet` | 196 thousand |
| `poll_cooldown_bypass` | 2 conferences, no calendar, no failure | `CooldownRespected`, violated | - |
| `poll_double_announcement` | 2 conferences, two failures of reading states or of the calendar, cooldown off | `OnePostPerConference`, violated | - |
| `poll_premature_end` | 2 conferences, one failure of reading states | `EndedOnlyWhenOver`, violated | - |
| `adhoc_orphan` | as `adhoc`, no failure | `NoOrphanedEntry`, violated | - |
| `tokens_disconnect` | as `tokens`, no failure, settings unchanged | `DisconnectIsFinal`, violated | - |

Deadlock is checked in all of them but `lifecycle`: an idle poller can always
begin a cycle. With the feature switched off everywhere and the bounds used up,
the plugin really has nothing left to do, so `lifecycle` allows it to stop.

What the properties say:

- `NoConferenceLost`: what the stored watermark has passed is never listed
  again, so it must have a state, a pending announcement, or have been given up
  on purpose (an event long over whose record cannot be fetched; a dropped
  announcement). This is the point of the `hadFailure` buffering.
- `TrackedUntilExpired`: an announced conference stays in
  `ActiveConferenceIDs` as long as its state lives; otherwise its end and its
  artifacts would never be looked for. The disjunct for abandoned announcements
  covers a case TLC found: the announcement is posted, the node stops before the
  record is written, and the refresh then fails until the event is given up.
- `SuppressionJustified`: silence has a real reason. It fails without the guard
  on the persisted end in `latestConferenceEndBefore`.
- `OnePostPerConference`, `OnePostPerInstance`: no duplicates, under failures of
  Google and of posting. With a failing KV store the code delivers at least
  once: it posts before it stores, so a lost write means a second post, and a
  lost binding means a second post for the event. The runs that check these two
  therefore leave those failures out.
- `DuplicatesHaveFailures`, `EventDuplicatesHaveFailures`: what is left of them
  when everything may fail. Each failed call, and each stop of the node, costs a
  conference at most one more post, and an event at most one more until its
  binding expires. A lost record brings back a whole batch and every announcement
  it had made; the properties say that this still repeats each post only once.
- `EndedOnlyWhenOver`: a post is rewritten only when the meeting is over, and an
  event's post only when all its conferences have been over for the grace.
- `CooldownOnStoredEnds`: an end that a previous write has stored does silence
  the rejoin. (For ends that are not stored yet, see section 5.)
- `EveryConferenceSettled`, `EveryPostEnds`: nothing waits for ever, whatever
  single failure or crash happened on the way.

- `KeysAgree`: between commands a space is in the index if and only if it has a
  record, and in exactly its creator's list. It depends on removal using the
  owner of the record found, not the user who runs the command.
- `ImplementsOwnership`: behind the interleaved calls, the commands are atomic:
  a space is taken in one step and only when free, given up in one step, and the
  cycle's write-backs change nothing. It is the refinement of `SpaceOwnership`, void for
  `disturbed` spaces.
- `EverySubscriptionPolled`: the poller finds by the index what `add` stored.
- `StateIsTrue`: what the post state claims happened did happen: marked posts are
  rewritten, ids recorded or linked have a post. Any call may fail between.
- `ImplementsDelivery`: the refinement of `AtLeastOnceDelivery`: an artifact is
  posted again only if its record was missed (the store failed after the post)
  or had expired.
- `EveryArtifactDelivered`, `EveryStartPostEnds`: failures of one artifact, kind,
  record or entry hold back nothing for ever while the meeting is followed.
- `ConnectionUsable`: with refresh tokens that rotate, the stored one is accepted
  by Google, or its successor is about to be stored. `overtaken` names the
  cases in which the code cannot help it: the permission is revoked; Google's
  answer is lost after it has rotated the token; the refreshed token cannot be
  stored; a handler that had read an earlier token stores, over this one, a
  refresh token Google has replaced. A handler with an outdated reading whose
  refresh token is still accepted is not among them, in whatever order it stores.
- `GoodTokenKept`: the two deletions hit a token with every scope only if it was
  stored under the deleting handler's feet, or that handler works with an old
  key: the windows that reading and deleting in two calls leave open.
- `UnreadableTokenGoes`, `ExpiringTokenRefreshed`: what the poll cycle brings
  about for a token nobody asks for.
- `NoticesHaveFailures`: check, send and record, wherever the cycle stops: the
  notice is repeated within a day only for a notice whose flag was not stored.
- `NoPollerLeaks`, `PollerFollowsConfig`: of all goroutines of a node exactly the
  one `pollerStop` can close has not been told to stop, and between hooks it is
  there, with the right interval, if and only if the settings ask for it.
- `OneCycleAtATime`: tickers of all nodes and poll-now together.
- `PollingGoesOn`: no early return, failure or stopped node keeps the mutex.
- `SwitchedOffIsQuiet`: goroutines of earlier configurations, those waiting for
  the mutex included, all end.

Several properties name, in a history variable, the cases the code does not
provide for, and say that there are no others; what goes wrong in such a case
they do not catch. `abandoned` is an announcement given up, also one whose
suppressed state was not stored; `disturbed` a space whose commands overlapped
each other or a poll cycle, or whose index update failed; `stale` and `sealKey`
a token replaced, or a key changed, under the handler that deletes it;
`overtaken` is described above. `CooldownOnStoredEnds` exempts a conference
whose own end was stored before it was announced (`poll.go:618`). The hazards of
these cases are listed in `PROJECT.json` with a note in place of a property.

Bounds of the `poll_` runs. `Horizon` stops conferences from starting and ending, `MaxTime` stops the
clock, later than `Horizon` so that grace, retention and expiry can elapse
after the last conference; no guard of the code depends on either. With two
conferences a rejoin, a drop and a retry happen; three are needed for a post
shared by two conferences next to an unscheduled one, and for the cooldown to be
anchored by a conference that is not the last. Two failures are needed to hold
the watermark with one and hit another record with the other. Retention is 1 in
the two large runs so that pruning and giving up happen before the clock stops,
2 elsewhere. `StateTTL` is 3 in `poll_faults`, so that states expire while
conferences are tracked, and beyond the clock in the other runs.

Bounds of the others. `registry`: keys of different spaces meet only in the
index lists, whose updates are atomic, so one space shows every interference;
two commands overlap each other and the cycle, and a third comes after both (add,
remove, add again). `adhoc`: the silenced conference and the pinned one are the
two sorts there are; the first has two artifacts, so that the id of one whose
store failed is recorded with the next one's; states expire after one tick and
entries after two, so records of deliveries are lost while the meeting is
followed. One failure at any call shows each of them; what several do to the
safety properties is proved. `tokens`: two
grants are a connection and one rotation or reconnection; the initial states
include a connection without Meet scopes. `lifecycle`: two goroutines of a node
are the old one and the new one; one change leads from each configuration to
each other through the first.

Fairness (`FairSpec` of each module):

- `ConferencePoll`: weak fairness of the poll cycle as a whole and of the
  clock. The ticker of `startPoller` fires for ever while the plugin is active,
  a crashed node's cycle is taken up by the next tick of any node, and a cycle
  has no step that waits. Nothing makes a conference start or end:
  `EveryPostEnds` is conditional on every started conference having ended.
- `SubscriptionRegistry`: the cycle, and each command that has been issued.
- `AdHocMeetings`: the pass, the clock, and a `StartMeeting` under way. No
  meeting, conference or file has to happen.
- `OAuthTokens`: the poller only. No user has to do anything, so what the two
  liveness properties claim is brought about by the poll cycle.
- `PollerLifecycle`: hooks begun, tickers, steps of a cycle, the lease of the
  mutex; *some* goroutine gets a free mutex (which one is not promised: the
  waiters retry); and strong fairness of a closed channel being seen, since a
  `select` with two channels ready chooses at random.

Bounds on failures are the assumption that failures stop eventually.

Each property of a passing run has a mutant: a plausible slip in one definition
(written next to it, `EagerWatermark` for `NextWatermark` and so on) under which
TLC finds the property violated in that run.

## 4. Proofs

TLAPS proves, for any values of the constants that satisfy the named assumptions
of the module (any sets, times, durations, bounds and failures):

| Module | Theorem | Says |
|---|---|---|
| `ConferencePollProofs` | `TypeCorrect` | `Spec => []TypeOK` |
| `ConferencePollSafety` | `ConferencesAreKept` | `Spec => []NoConferenceLost` |
| | `SilenceIsJustified` | `Spec => []SuppressionJustified` |
| `ConferencePollPosts` | `AnnouncedAreTracked` | `Spec => []TrackedUntilExpired` |
| | `StoredEndsAreRespected` | `Spec => CooldownOnStoredEnds` |
| | `EndedPostsHaveEnded` | a post rewritten as ended announces a conference Google recorded the end of |
| | `EndedWhenOver` (1) | `Spec => EndedOnlyWhenOver` |
| | `EventsAreAnnouncedOnce` (2) | `Spec => []OnePostPerInstance` |
| | `AnnouncedOnceWhateverGoogle` (3) | `Spec => []OnePostPerConference` |
| | `AnnouncedOnceWhateverMattermost` (4) | `Spec => []OnePostPerConference` |
| | `DuplicatesAreCounted` (5) | `Spec => []DuplicatesHaveFailures` |
| | `EventDuplicatesAreCounted` | `Spec => []EventDuplicatesHaveFailures` |
| `SubscriptionRegistryProofs` | `TypeCorrect` | `Spec => []TypeOK` |
| | `KeysStayInAgreement` | `Spec => []KeysAgree` |
| | `CommandsAreAtomic` | `Spec => ImplementsOwnership` |
| `AdHocMeetingsProofs` | `TypeCorrect` | `Spec => []TypeOK` |
| | `StatesSayTheTruth` | `Spec => []StateIsTrue` |
| | `ArtifactsAreDelivered` | `Spec => ImplementsDelivery` |
| | `ArtifactsOncePerMiss` | `Spec => []Delivery!OncePerMiss` |
| `OAuthTokensProofs` | `TypeCorrect` | `Spec => []TypeOK` |
| | `NoticesAreCounted` | `Spec => []NoticesHaveFailures` |
| | `ConnectionsStayUsable` | `Spec => []ConnectionUsable` |
| | `GoodTokensAreKept` | `Spec => GoodTokenKept` |
| `PollerLifecycleProofs` | `TypeCorrect` | `Spec => []TypeOK` |
| | `CyclesAreSerial` | `Spec => []OneCycleAtATime` |
| | `PollersDoNotLeak` | `Spec => []NoPollerLeaks` |
| | `ConfigurationIsFollowed` | `Spec => []PollerFollowsConfig` |

Theorems (1) to (4) have hypotheses on `FaultKinds`, because the code promises these
properties only while some calls succeed. What may fail, any number of times:

| | Google | calendar | posting | reads of states | writes of states | writes of the subscription | the node |
|---|---|---|---|---|---|---|---|
| (1) | yes | yes | yes | no | yes | no | no |
| (2) | yes | yes | yes | yes | no | no | no |
| (3) | yes | yes | no | no | no | no | no |
| (4) | no | no | yes | yes | no | no | no |

(4) supposes moreover that no post state expires (`StateTTL >= MaxTime`): a
watermark held back by failures for the seven days of a state would list the
conference again after its state is gone. None of the hypotheses of (1) and (2)
can be dropped: TLC finds each property violated by one failure of each kind
excluded, alone. `OnePostPerConference` is violated by one failed write of a
state, of the subscription, or one crash. (3) and (4) cannot be joined: a failed
post of another record holds the watermark, the deferred conference is listed
again and posted once its event has begun, and when Google then fails to
refresh its pending announcement until the event's binding is pruned, the
announcement makes a second post. TLC finds this with two failures, one of each;
with one failure of either kind the property holds (`poll_announce`).

(5) allows every failure and only supposes that no post state expires
(`StateTTL >= MaxTime`). TLC finds `DuplicatesHaveFailures` violated with a
`StateTTL` of 1, when a state expires within one cycle: a conference announced as
due and listed in the same cycle's batch (an earlier failure held the watermark)
is then posted twice before the record is written, and after a crash twice more. With 2 and 3 (`poll_faults`), where
states expire but not within a cycle, it holds.

The assumptions of the modules say no more than: "none" values are not ordinary values, bounds
and durations are natural numbers, functions given as constants have the right
domains, a configuration has its three fields. TLC evaluates them in every run.

`ConferencePoll`:

- `TypeCorrect`. `TypeOK` is not inductive: announcing reads the event of a
  pending announcement, so it must be known that what is visited as due is
  pending (`DuePending`). `TypeInv` is the conjunction. One lemma per group of
  actions; updates of a subscription are typed once (`SubscriptionUpdates`).
- `ConferencesAreKept`. `NoConferenceLost` speaks of the stored record only.
  `LostInv` adds the same for the cycle's copy, and what makes the write-back in
  `SaveBatch` safe: while a batch is classified without failure, a conference
  not to be visited is kept already or started after everything in the
  batch (`BatchInOrder`); a watermark is the start of some conference, so one
  that starts now is listed (`WatermarksAreStarts`). The effect of each group of
  actions on these parts is a lemma of its own (`AnnounceEffect`,
  `ClassifyEffect`, `QuietEffect`), so that each step is argued once.
- `SilenceIsJustified`. `SuppressionInv` adds that every end the cycle works
  with is one Google recorded (`EndsAreReal`) and that announcements belong to
  the event that schedules their conference. Suppressing has a reason
  (`SuppressHasReason`: an end not after the conference's start cannot be its
  own), and a reason stays one because Google does not change times.

- `AnnouncedAreTracked`. `TrackedUntilExpired` speaks of the stored record between
  cycles, so `TrackingInv` follows a conference through the two write-backs:
  outside the batch, one that is posted, alive and past the watermark is in the
  stored list and in the cycle's, unless its announcement is pending or given
  up; inside it, it is still to be visited or will be listed again because
  `hadFailure` is set; and what pass 2 leaves out is dead or done. The
  hard cases are those in which a loop's effect is stored and the record is not.
- `StoredEndsAreRespected`. While the cycle announces and classifies, its last
  end is the stored one (`AnchorIsStored`).
- `EndedPostsHaveEnded`, `EndedWhenOver`. `EndsInv` adds to the real ends of
  `SuppressionInv` that `resolved` holds ends Google recorded. For an event's
  post all its conferences must be in reach of `aggregateBindingEnd`:
  states name the post of their binding and bindings are apart (`PostsInv`),
  a live posted conference is tracked (`LiveAreActive`), and the binding of its
  post lists it (`BoundAreNamed`). That is what a state that cannot be read back,
  a lost record or a crash breaks, and (1) leaves out.
- `EventsAreAnnouncedOnce`. While the plugin's writes succeed, the working copy
  is never thrown away (`NothingUnsaved`), so the post of an event is in its
  binding as long as the binding lives (`EventPostKept`).
- `AnnouncedOnceWhateverGoogle`. With no failure in a batch, the watermark
  passes whatever was posted (`PostedArePassed`) and whatever waits
  (`PendingArePassed`), so nothing is listed twice, whether its state lives
  or not.
- `AnnouncedOnceWhateverMattermost`. Here the watermark may be held and a
  conference listed again. Its state stands (`StateStands`) and stops it; one
  posted while its announcement is pending belongs to an event whose binding
  lives, and the announcement joins that post (`PendingFindsPost`).
- `DuplicatesAreCounted`. The posts a conference has are counted with those it
  may still get: in the running cycle (`StillToPost`: it is listed or will be, a
  failure of the batch will have it listed again, its announcement is pending) and
  in a cycle begun from the stored record (`StoredToPost`). Neither sum exceeds
  one more than the failures, except that the cycle may be one post ahead of the
  record (`AheadOfRecord`) until it is written or lost, and a lost write or a
  crash is a failure. What keeps it from being two ahead is the state stored
  after the first post: a conference announced as due and listed in the same
  cycle is found there.
- `EventDuplicatesAreCounted`. The same for an event, whose only reserve is a
  binding without a post that has not expired (`MayOpen`), in the cycle's copy
  and in the record. No state is read, so nothing is supposed about expiry.

`SubscriptionRegistry`: `RegistryInv` says of every undisturbed space
(`Consistent`) that the cycle's copy is the record, that a command past its
reads still sees what it read, that at most one command is updating the indexes,
that the keys agree when none is, and how far they have got when one is. A
change of a record is therefore an abstract step, and every other action a
stutter; a step that disturbs its space is the abstract `Disturb`.

`AdHocMeetings`: `DeliveryInv` adds to `StateIsTrue` that a state not yet pinned
is blank, and that the state `pollConferenceArtifacts` holds in memory is ahead
of the stored one: it contains every id stored, and every id in it has a post.
That is why storing it later, after a failed store, records only what was
posted. `ArtifactsOncePerMiss` follows from the refinement: what the abstract
specification counts holds of the posts in the channel.

`OAuthTokens`: `BaseInv` is types, what each handler holds at each step, and the
day's notices against the flag (as many as were left unmarked, or one more).
`UsableInv` says, while nothing was overtaken, that a dead refresh token, stored
or about to be stored by a handler whose reading is not outdated, has a
successor that some handler is about to store. `KnowledgeInv` says that a
handler whose reading is not outdated still knows the scopes of the stored
token, or that its key cannot read it.

`PollerLifecycle`: `MutexHeld` (whoever is in a cycle is the holder) is
inductive and implies `OneCycleAtATime`. `PollerInv` adds to `NoPollerLeaks`
that only running goroutines have closed channels, and what each step of a hook
has already done (`HookProgress`).

The invariants of `ConferencePoll`, `SubscriptionRegistry` and `AdHocMeetings`
were checked by TLC before they were proved, those of theorems with hypotheses
on instances that satisfy them. Every safety invariant and every action property
that a run checks is proved. Model-checked only are the liveness properties,
because liveness under fairness and `ENABLED` are beyond this prover:
`EveryConferenceSettled`, `EveryPostEnds`, `EverySubscriptionPolled`,
`EveryArtifactDelivered`, `EveryStartPostEnds`, `UnreadableTokenGoes`,
`ExpiringTokenRefreshed`, `PollingGoesOn` and `SwitchedOffIsQuiet`.

## 5. Where code and text disagree

1. **The cooldown can be bypassed** (`poll_cooldown_bypass`, no failure). The
   new records are classified before pass 1 fetches the end of the conference
   that was running. When a conference ends and the link is reopened between two
   polls, its end is not known yet and the rejoin is announced. README.md:180
   says it is not.
2. **A deferred conference announced twice** (`poll_double_announcement`). A
   deferred record listed again while another record holds the watermark is
   announced by the cooldown path if the calendar lookup fails then, and again
   when its announcement is due: `processDueScheduledAnnouncements` looks at no
   state.
3. **An event's post ended too early** (`poll_premature_end`).
   `aggregateBindingEnd` skips bound conferences that are not tracked; one whose
   state could not be read back after it was bound is not. The comment above
   `maybeMarkConferenceEnded` asks that every conference of the binding be known
   to have ended.

4. **An ad-hoc entry the poller never sees** (`adhoc_orphan`, no failure). A
   pass between the two writes of `StartMeeting` finds the index entry without
   its entry, takes it for an orphan and removes it. The comment at
   `meeting.go:104-107` says that adding to the index first is what prevents an
   entry from being unknown to the poller for its 24 hours.
5. **A disconnected user is connected again** (`tokens_disconnect`, no failure).
   `getValidToken` stores the refreshed token over whatever is there; if the
   user disconnected while Google was being asked, the connection is back.
   `command.go:144` says that the command removes it.

Seen while modelling, without a run of their own:

- README.md:319 advises to `add` from the new channel and then `remove` from the
  old one, but `AddSubscription` refuses a space another channel has
  (`subscription.go:73-79`).
- The comment at `kvstore.go:72-74` gives a binding the post state's TTL after
  the event; the code gives it 24 hours.
- README.md:138 says that the plugin asks the user to reconnect when a token
  becomes unusable. When Google refuses the refresh token the request fails with
  a general error and the token stays stored; only a failed decryption or a
  missing scope deletes it.
- README.md:191 says once a day at most. A notice whose flag cannot be stored is
  repeated in the next cycle (`poll.go:603`); `NoticesHaveFailures` counts it.
- Dropping an announcement (`poll.go:441-447`) stores a suppressed state without
  looking at the one that is there. A deferred conference that was listed again
  while another record's failed post held the watermark, and posted because its
  event had begun, loses its posted state this way if it had ended before the
  event: its post stays "started" and gets no artifacts. (TLC: one failure of
  posting, window 2, the event at 4.)
- README.md:306 says that ad-hoc meetings post under the `/meet start` thread
  and not under a subscription. On a space that is subscribed too, the
  subscription pass runs first and claims the conference's state.

## 6. What is left out

- Texts, attachments and formatting of posts, HTTP and its paging, encryption of
  tokens, routing, autocompletion, recognising meeting links, the web
  application and the build tools: no state of their own or no behaviour for a
  model checker. Authorisation checks change nothing; a request that fails one
  is a request not made.
- The auth-user preference: one write of one user's preference, on which nothing
  else depends.
- Two `StartMeeting` calls never share a space: Google creates a new one for
  each.
- `appendMeetingArtifactLink` reads a post and writes it back. Both passes that
  do so run under the mutex; a user's edit between the two is not modelled.
- Overlapping hooks of one node (`pollerStop` is not synchronised) and the
  difference between Google's clock and the server's: the models assume that
  there is none of either, by name where a property depends on it.

## 7. Plan

Done: all modules above, their runs and proofs, every safety and action property
of the runs proved. What remains, in order of importance:

1. An abstract `Announcements` specification (each conference is new, waiting,
   announced, silenced or given up, and never goes back) that `ConferencePoll`
   implements.
2. A conference of an ad-hoc space that a subscription announces: the two passes
   over one post state, in one module.
3. Lemmas about the pure operators (`FindScheduledInstance`, `KnownEndsBefore`),
   and the other pure operators (list of links in a post, mandatory scopes,
   recognising meeting links), each against a reference definition.
