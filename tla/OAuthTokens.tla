----------------------------- MODULE OAuthTokens -----------------------------
(***************************************************************************)
(* One user's Google connection (server/google.go, server/auth.go, the      *)
(* OAuth handlers of server/api.go and server/store/kvstore/oauth.go): the  *)
(* encrypted token in the KV store, read, refreshed, replaced and deleted   *)
(* without a lock by the user's requests and by the poll cycle, and the     *)
(* daily notice the poll cycle sends when the calendar scope is missing.    *)
(*                                                                          *)
(* A handler takes the store, and the encryption key with it, once, and     *)
(* then makes one KV or Google call after another; each is one action.      *)
(***************************************************************************)
EXTENDS Integers, FiniteSets

CONSTANTS
    Requester,    \* goroutines that serve the user's meeting and subscription requests
    Browser,      \* goroutines that serve the OAuth callback
    Poller,       \* the poll cycle
    Flow,         \* OAuth flows (state values) the user starts
    Key,          \* values of the EncryptionKey setting
    FirstKey,
    NoToken,      \* "no token"
    NoFlow,
    MaxGrants,    \* bound: refresh tokens Google issues
    MaxRequests,  \* bound: requests that read the token
    MaxConfigs,   \* bound: configuration changes
    MaxFaults     \* bound: failed calls, stopped nodes, revocations

ASSUME BoundsAssumption ==
    /\ MaxGrants \in Nat \ {0} /\ MaxRequests \in Nat
    /\ MaxConfigs \in Nat /\ MaxFaults \in Nat
ASSUME HandlerAssumption == Poller \notin Requester \cup Browser
ASSUME KeyAssumption == FirstKey \in Key
ASSUME NoneAssumption == NoFlow \notin Flow /\ NoToken \notin
    [refresh : 1..MaxGrants, scopes : {"all", "noCalendar", "noMeet"},
     fresh : BOOLEAN, key : Key]

VARIABLES
    stored,     \* oauth_token_<user>
    pending,    \* oauth_state_<state>: flows whose callback is awaited
    noticed,    \* calendar_reconnect_notice_<user>
    key,        \* EncryptionKey of the configuration
    artifacts,  \* EnableConferenceArtifactPosts of the configuration
    pc,         \* where each handler is
    hand,       \* the token it holds
    sealKey,    \* the key of the store it holds
    flow,       \* the flow a callback is for
    live,       \* Google: refresh tokens it still accepts
    grants,     \* Google: refresh tokens issued
    redeemed,   \* Google: flows whose code was exchanged
    requests,   \* requests so far
    configs,    \* configuration changes so far
    faults,     \* failures so far
    stale,      \* history: the stored token changed since the handler read it
    overtaken,  \* history: the stored token may not be the latest of its grant
    notices,    \* history: calendar notices sent this day
    unmarked    \* history: those of them whose flag was not stored

configVars == <<key, artifacts, configs>>
googleVars == <<live, grants, redeemed>>
noticeVars == <<noticed, notices, unmarked>>
vars == <<stored, pending, noticed, key, artifacts, pc, hand, sealKey, flow, live, grants,
          redeemed, requests, configs, faults, stale, overtaken, notices, unmarked>>

-----------------------------------------------------------------------------
Handler == Requester \cup Browser \cup {Poller}

Scopes == {"all", "noCalendar", "noMeet"}

OAuth2Token == [refresh : 1..MaxGrants, scopes : Scopes, fresh : BOOLEAN, key : Key]

CallbackSteps == {"getState", "deleteState", "exchange", "storeNew"}
TokenSteps == {"check", "get", "drop", "refresh", "save", "call", "reject"}
NoticeSteps == {"noticeCheck", "noticeSend", "noticeMark"}

(* The steps at which a handler acts on what it read of the stored token.    *)
Holding == TokenSteps \ {"check", "get"}

Readable(t, k) == t # NoToken /\ t.key = k

GoTo(h, step) == pc' = [pc EXCEPT ![h] = step]

(* getOAuthKVStore: the handler takes the store, with the configured key.    *)
TakeStore(h) == sealKey' = [sealKey EXCEPT ![h] = key]

Return(h) ==
    /\ GoTo(h, "idle")
    /\ hand' = [hand EXCEPT ![h] = NoToken]
    /\ flow' = [flow EXCEPT ![h] = NoFlow]
    /\ stale' = [stale EXCEPT ![h] = FALSE]
    /\ sealKey' = [sealKey EXCEPT ![h] = FirstKey]

Fault == faults < MaxFaults /\ faults' = faults + 1

(* The handlers other than h that act on an older reading.                   *)
Outdated(h) == {q \in Handler \ {h} : pc[q] \in Holding}

MarkStale(H) == stale' = [q \in Handler |-> stale[q] \/ q \in H]

(* StoreOAuth2Token and DeleteOAuth2Token, in the last step of h.            *)
ReturnAfterChange(h) ==
    /\ GoTo(h, "idle")
    /\ hand' = [hand EXCEPT ![h] = NoToken]
    /\ flow' = [flow EXCEPT ![h] = NoFlow]
    /\ stale' = [q \in Handler |-> q # h /\ (stale[q] \/ q \in Outdated(h))]
    /\ sealKey' = [sealKey EXCEPT ![h] = FirstKey]

-----------------------------------------------------------------------------
(* Connecting.                                                               *)

(* handleOAuthConnect: the state is stored for ten minutes.                  *)
HandleOAuthConnect(f) ==
    /\ f \notin pending \cup redeemed /\ \A h \in Handler : flow[h] # f
    /\ pending' = pending \cup {f}
    /\ UNCHANGED <<stored, noticeVars, configVars, pc, hand, sealKey, flow, googleVars,
                   requests, faults, stale, overtaken>>

StateExpires(f) ==
    /\ pending' = pending \ {f} /\ f \in pending
    /\ UNCHANGED <<stored, noticeVars, configVars, pc, hand, sealKey, flow, googleVars,
                   requests, faults, stale, overtaken>>

(* handleOAuthCallback: a page loaded twice runs it twice for one flow.      *)
Callback(h, f) ==
    /\ pc[h] = "idle" /\ requests < MaxRequests
    /\ requests' = requests + 1
    /\ flow' = [flow EXCEPT ![h] = f]
    /\ GoTo(h, "getState") /\ TakeStore(h)
    /\ UNCHANGED <<stored, pending, noticeVars, configVars, hand, googleVars, faults,
                   stale, overtaken>>

(* GetAndDeleteOAuth2State, its two calls one after the other.               *)
GetState(h) ==
    /\ pc[h] = "getState"
    /\ \/ /\ flow[h] \in pending /\ GoTo(h, "deleteState")
          /\ UNCHANGED <<hand, flow, stale, sealKey>>
       \/ flow[h] \notin pending /\ Return(h)
    /\ UNCHANGED <<stored, pending, noticeVars, configVars, googleVars, requests, faults,
                   overtaken>>

DeleteState(h) ==
    /\ pc[h] = "deleteState"
    /\ \/ /\ pending' = pending \ {flow[h]} /\ GoTo(h, "exchange")
          /\ UNCHANGED <<hand, flow, stale, sealKey, faults>>
       \/ Return(h) /\ Fault /\ UNCHANGED pending
    /\ UNCHANGED <<stored, noticeVars, configVars, googleVars, requests, overtaken>>

(* mandatoryScopes and missingScopes: without the artifact feature a token   *)
(* that cannot read conferences is good enough; the calendar is optional.    *)
MissingScopes(scopes) == artifacts /\ scopes = "noMeet"

Issues(f) ==
    /\ f \notin redeemed /\ redeemed' = redeemed \cup {f}
    /\ grants < MaxGrants /\ grants' = grants + 1 /\ live' = live \cup {grants + 1}

(* exchangeCodeForToken.  Google redeems a code once, also if its answer is  *)
(* then lost: timed out, cut off, or not parsed.                             *)
ExchangeCodeForToken(h) ==
    /\ pc[h] = "exchange"
    /\ \/ /\ Issues(flow[h])
          /\ \E scopes \in Scopes :
                IF MissingScopes(scopes)
                THEN Return(h)
                ELSE /\ hand' = [hand EXCEPT ![h] =
                            [refresh |-> grants + 1, scopes |-> scopes, fresh |-> TRUE,
                             key |-> sealKey[h]]]
                     /\ GoTo(h, "storeNew")
                     /\ UNCHANGED <<flow, stale, sealKey>>
          /\ UNCHANGED faults
       \/ flow[h] \in redeemed /\ Return(h) /\ UNCHANGED <<googleVars, faults>>
       \/ Return(h) /\ Fault /\ (Issues(flow[h]) \/ UNCHANGED googleVars)
    /\ UNCHANGED <<stored, pending, noticeVars, configVars, requests, overtaken>>

StoreNewToken(h) ==
    /\ pc[h] = "storeNew"
    /\ \/ /\ stored' = hand[h] /\ ReturnAfterChange(h)
          /\ overtaken' = (hand[h].refresh \notin live) /\ UNCHANGED faults
       \/ Return(h) /\ Fault /\ UNCHANGED <<stored, overtaken>>
    /\ UNCHANGED <<pending, noticeVars, configVars, googleVars, requests>>

(* DisconnectUser.                                                           *)
DisconnectUser ==
    /\ stored # NoToken
    /\ stored' = NoToken /\ MarkStale({q \in Handler : pc[q] \in Holding})
    /\ UNCHANGED <<pending, noticeVars, configVars, pc, hand, sealKey, flow, googleVars,
                   requests, faults, overtaken>>

-----------------------------------------------------------------------------
(* Using the token.                                                          *)

(* A request for a meeting or a subscription asks IsUserConnected first.     *)
Request(h) ==
    /\ pc[h] = "idle" /\ requests < MaxRequests
    /\ requests' = requests + 1
    /\ GoTo(h, "check") /\ TakeStore(h)
    /\ UNCHANGED <<stored, pending, noticeVars, configVars, hand, flow, googleVars, faults,
                   stale, overtaken>>

(* runPollCycle reaches a subscription this user made.                       *)
Poll ==
    /\ artifacts /\ pc[Poller] = "idle"
    /\ GoTo(Poller, "get") /\ TakeStore(Poller)
    /\ UNCHANGED <<stored, pending, noticeVars, configVars, hand, flow, googleVars, requests,
                   faults, stale, overtaken>>

(* IsUserConnected.                                                          *)
CheckConnected(h) ==
    /\ pc[h] = "check"
    /\ \/ /\ Readable(stored, sealKey[h]) /\ GoTo(h, "get") /\ TakeStore(h)
          /\ UNCHANGED <<hand, flow, stale, faults>>
       \/ /\ stored # NoToken /\ ~Readable(stored, sealKey[h]) /\ GoTo(h, "drop")
          /\ UNCHANGED <<hand, flow, stale, sealKey, faults>>
       \/ stored = NoToken /\ Return(h) /\ UNCHANGED faults
       \/ Return(h) /\ Fault
    /\ UNCHANGED <<stored, pending, noticeVars, configVars, googleVars, requests, overtaken>>

(* A slip: a token that cannot be decrypted is only reported as missing.     *)
GetTokenKeeping(h) ==
    /\ pc[h] = "get"
    /\ \/ /\ Readable(stored, sealKey[h])
          /\ hand' = [hand EXCEPT ![h] = stored]
          /\ GoTo(h, IF stored.fresh THEN "call" ELSE "refresh")
          /\ UNCHANGED <<flow, stale, sealKey, faults>>
       \/ ~Readable(stored, sealKey[h]) /\ Return(h) /\ UNCHANGED faults
       \/ Return(h) /\ Fault
    /\ UNCHANGED <<stored, pending, noticeVars, configVars, googleVars, requests, overtaken>>

(* getValidToken: GetOAuth2Token, and whether the token is about to expire.  *)
GetToken(h) ==
    /\ pc[h] = "get"
    /\ \/ /\ Readable(stored, sealKey[h])
          /\ hand' = [hand EXCEPT ![h] = stored]
          /\ GoTo(h, IF stored.fresh THEN "call" ELSE "refresh")
          /\ UNCHANGED <<flow, stale, sealKey, faults>>
       \/ /\ stored # NoToken /\ ~Readable(stored, sealKey[h]) /\ GoTo(h, "drop")
          /\ UNCHANGED <<hand, flow, stale, sealKey, faults>>
       \/ stored = NoToken /\ Return(h) /\ UNCHANGED faults
       \/ Return(h) /\ Fault
    /\ UNCHANGED <<stored, pending, noticeVars, configVars, googleVars, requests, overtaken>>

(* GetOAuth2Token deletes a token it cannot decrypt, a second call to the    *)
(* store: what it deletes is whatever is stored by then.                     *)
DropUnreadable(h) ==
    /\ pc[h] = "drop"
    /\ \/ stored' = NoToken /\ ReturnAfterChange(h) /\ UNCHANGED faults
       \/ Return(h) /\ Fault /\ UNCHANGED stored
    /\ UNCHANGED <<pending, noticeVars, configVars, googleVars, requests, overtaken>>

Refreshed(h, r) == [hand[h] EXCEPT !.refresh = r, !.fresh = TRUE, !.key = sealKey[h]]

(* Google answers with a new access token and, if it rotates the refresh     *)
(* token, with the one that replaces it.                                     *)
Rotates(h) ==
    /\ grants < MaxGrants /\ grants' = grants + 1
    /\ live' = (live \ {hand[h].refresh}) \cup {grants + 1}
    /\ UNCHANGED redeemed

(* A slip: the refresh token of the answer is not looked at.                 *)
RefreshForgetting(h) ==
    /\ pc[h] = "refresh"
    /\ \/ /\ hand[h].refresh \in live
          /\ Rotates(h) \/ UNCHANGED googleVars
          /\ hand' = [hand EXCEPT ![h] = Refreshed(h, hand[h].refresh)]
          /\ GoTo(h, "save")
          /\ UNCHANGED <<flow, stale, sealKey, faults>>
       \/ hand[h].refresh \notin live /\ Return(h) /\ UNCHANGED <<googleVars, faults>>
       \/ Return(h) /\ Fault /\ UNCHANGED googleVars
    /\ UNCHANGED <<stored, pending, noticeVars, configVars, requests, overtaken>>

(* A slip: an answer without a refresh token is stored as it came.           *)
RefreshEmptying(h) ==
    /\ pc[h] = "refresh"
    /\ \/ /\ hand[h].refresh \in live /\ UNCHANGED googleVars
          /\ hand' = [hand EXCEPT ![h] = Refreshed(h, 0)]
          /\ GoTo(h, "save")
          /\ UNCHANGED <<flow, stale, sealKey, faults>>
       \/ hand[h].refresh \notin live /\ Return(h) /\ UNCHANGED <<googleVars, faults>>
    /\ UNCHANGED <<stored, pending, noticeVars, configVars, requests, overtaken>>

(* refreshToken.  Any failure ends the request and leaves the stored token   *)
(* as it is, also if Google has rotated it and only the answer was lost:     *)
(* timed out, cut off, or not parsed.                                        *)
RefreshToken(h) ==
    /\ pc[h] = "refresh"
    /\ \/ /\ hand[h].refresh \in live
          /\ \/ Rotates(h) /\ hand' = [hand EXCEPT ![h] = Refreshed(h, grants + 1)]
             \/ /\ hand' = [hand EXCEPT ![h] = Refreshed(h, @.refresh)]
                /\ UNCHANGED googleVars
          /\ GoTo(h, "save")
          /\ UNCHANGED <<flow, stale, sealKey, faults, overtaken>>
       \/ hand[h].refresh \notin live /\ Return(h) /\ UNCHANGED <<googleVars, faults, overtaken>>
       \/ Return(h) /\ Fault /\ UNCHANGED <<googleVars, overtaken>>
       \/ hand[h].refresh \in live /\ Return(h) /\ Fault /\ Rotates(h) /\ overtaken' = TRUE
    /\ UNCHANGED <<stored, pending, noticeVars, configVars, requests>>

(* A slip: the refreshed token is used but never stored.                     *)
UseUnsaved(h) ==
    /\ pc[h] = "save" /\ GoTo(h, "call")
    /\ UNCHANGED <<stored, pending, noticeVars, configVars, hand, sealKey, flow, googleVars,
                   requests, faults, stale, overtaken>>

(* The refreshed token is stored over whatever is there; a failure is logged *)
(* and the request goes on with the token it has.                            *)
SaveRefreshed(h) ==
    /\ pc[h] = "save"
    /\ \/ /\ stored' = hand[h] /\ MarkStale(Outdated(h))
          /\ overtaken' = (overtaken \/ (stale[h] /\ hand[h].refresh \notin live))
          /\ UNCHANGED faults
       \/ Fault /\ overtaken' = TRUE /\ UNCHANGED <<stored, stale>>
    /\ GoTo(h, "call")
    /\ UNCHANGED <<pending, noticeVars, configVars, hand, sealKey, flow, googleVars, requests>>

(* A slip: any refusal by Google is taken for a missing scope.               *)
CallMistakingErrors(h) ==
    /\ pc[h] = "call" /\ h \in Requester
    /\ GoTo(h, "reject")
    /\ UNCHANGED <<stored, pending, noticeVars, configVars, hand, sealKey, flow, googleVars,
                   requests, faults, stale, overtaken>>

(* createMeeting or getSpace: Google refuses a token that lacks a scope with *)
(* an error of its own; any other failure just ends the request.             *)
Call(h) ==
    /\ pc[h] = "call" /\ h \in Requester
    /\ \/ /\ hand[h].scopes = "noMeet" /\ GoTo(h, "reject")
          /\ UNCHANGED <<hand, flow, stale, sealKey>>
       \/ Return(h)
    /\ UNCHANGED <<stored, pending, noticeVars, configVars, googleVars, requests, faults,
                   overtaken>>

(* StartMeeting and AddSubscription delete the token that lacks a scope.     *)
RejectForScopes(h) ==
    /\ pc[h] = "reject"
    /\ \/ stored' = NoToken /\ ReturnAfterChange(h) /\ UNCHANGED faults
       \/ Return(h) /\ Fault /\ UNCHANGED stored
    /\ UNCHANGED <<pending, noticeVars, configVars, googleVars, requests, overtaken>>

-----------------------------------------------------------------------------
(* The poll cycle's use of the token: a new conference looked up in the      *)
(* calendar (classifyNewConference), and the notice when it is refused.      *)

PollCall ==
    /\ pc[Poller] = "call"
    /\ \/ /\ hand[Poller].scopes = "noCalendar" /\ GoTo(Poller, "noticeCheck")
          /\ UNCHANGED <<hand, flow, stale, sealKey>>
       \/ Return(Poller)
    /\ UNCHANGED <<stored, pending, noticeVars, configVars, googleVars, requests, faults,
                   overtaken>>

NoticeCheck ==
    /\ pc[Poller] = "noticeCheck"
    /\ \/ ~noticed /\ GoTo(Poller, "noticeSend") /\ UNCHANGED <<hand, flow, stale, sealKey, faults>>
       \/ noticed /\ Return(Poller) /\ UNCHANGED faults
       \/ Return(Poller) /\ Fault
    /\ UNCHANGED <<stored, pending, noticeVars, configVars, googleVars, requests, overtaken>>

NoticeSend ==
    /\ pc[Poller] = "noticeSend"
    /\ \/ /\ notices' = notices + 1 /\ GoTo(Poller, "noticeMark")
          /\ UNCHANGED <<hand, flow, stale, sealKey, faults>>
       \/ Return(Poller) /\ Fault /\ UNCHANGED notices
    /\ UNCHANGED <<stored, pending, noticed, unmarked, configVars, googleVars, requests,
                   overtaken>>

(* A slip: the flag is cleared instead of set.                               *)
NoticeUnmark ==
    /\ pc[Poller] = "noticeMark"
    /\ noticed' = FALSE /\ Return(Poller)
    /\ UNCHANGED <<stored, pending, notices, unmarked, configVars, googleVars, requests, faults,
                   overtaken>>

NoticeMark ==
    /\ pc[Poller] = "noticeMark"
    /\ \/ noticed' = TRUE /\ UNCHANGED <<unmarked, faults>>
       \/ Fault /\ unmarked' = unmarked + 1 /\ UNCHANGED noticed
    /\ Return(Poller)
    /\ UNCHANGED <<stored, pending, notices, configVars, googleVars, requests, overtaken>>

(* The flag lives for a day.                                                 *)
DayPasses ==
    /\ pc[Poller] = "idle"
    /\ noticed' = FALSE /\ notices' = 0 /\ unmarked' = 0
    /\ UNCHANGED <<stored, pending, configVars, pc, hand, sealKey, flow, googleVars, requests,
                   faults, stale, overtaken>>

-----------------------------------------------------------------------------
(* The surroundings.                                                         *)

AccessExpires ==
    /\ stored # NoToken /\ stored.fresh
    /\ stored' = [stored EXCEPT !.fresh = FALSE]
    /\ UNCHANGED <<pending, noticeVars, configVars, pc, hand, sealKey, flow, googleVars, requests,
                   faults, stale, overtaken>>

(* OnConfigurationChange: handlers under way keep the store they took.       *)
OnConfigurationChange ==
    /\ configs < MaxConfigs /\ configs' = configs + 1
    /\ \/ key' \in Key \ {key} /\ UNCHANGED artifacts
       \/ artifacts' = ~artifacts /\ UNCHANGED key
    /\ UNCHANGED <<stored, pending, noticeVars, pc, hand, sealKey, flow, googleVars, requests,
                   faults, stale, overtaken>>

(* The user takes the permission back at Google.                             *)
Revoke ==
    /\ live # {} /\ live' = {} /\ overtaken' = TRUE /\ Fault
    /\ UNCHANGED <<stored, pending, noticeVars, configVars, pc, hand, sealKey, flow, grants,
                   redeemed, requests, stale>>

(* The node stops while a handler runs.                                      *)
HandlerLost(h) ==
    /\ pc[h] # "idle" /\ Return(h) /\ Fault
    /\ overtaken' = (overtaken \/ pc[h] = "save")
    /\ unmarked' = IF pc[h] = "noticeMark" THEN unmarked + 1 ELSE unmarked
    /\ UNCHANGED <<stored, pending, noticed, notices, configVars, googleVars, requests>>

-----------------------------------------------------------------------------
(* The plugin is activated with no connection, or with one made while the    *)
(* artifact feature was off.                                                 *)
Init ==
    /\ \/ stored = NoToken /\ live = {} /\ grants = 0
       \/ /\ stored = [refresh |-> 1, scopes |-> "noMeet", fresh |-> TRUE, key |-> FirstKey]
          /\ live = {1} /\ grants = 1
    /\ pending = {} /\ noticed = FALSE
    /\ key = FirstKey /\ artifacts = TRUE
    /\ pc = [h \in Handler |-> "idle"]
    /\ hand = [h \in Handler |-> NoToken]
    /\ sealKey = [h \in Handler |-> FirstKey]
    /\ flow = [h \in Handler |-> NoFlow]
    /\ redeemed = {}
    /\ requests = 0 /\ configs = 0 /\ faults = 0
    /\ stale = [h \in Handler |-> FALSE]
    /\ overtaken = FALSE /\ notices = 0 /\ unmarked = 0

HandlerStep(h) ==
    \/ GetState(h) \/ DeleteState(h) \/ ExchangeCodeForToken(h) \/ StoreNewToken(h)
    \/ CheckConnected(h) \/ GetToken(h) \/ DropUnreadable(h)
    \/ RefreshToken(h) \/ SaveRefreshed(h) \/ Call(h) \/ RejectForScopes(h)

PollerStep == HandlerStep(Poller) \/ PollCall \/ NoticeCheck \/ NoticeSend \/ NoticeMark

Next ==
    \/ \E f \in Flow : HandleOAuthConnect(f) \/ StateExpires(f)
    \/ \E h \in Browser, f \in Flow : Callback(h, f)
    \/ \E h \in Requester : Request(h)
    \/ \E h \in Handler : HandlerStep(h) \/ HandlerLost(h)
    \/ Poll \/ PollCall \/ NoticeCheck \/ NoticeSend \/ NoticeMark
    \/ DisconnectUser \/ DayPasses \/ AccessExpires \/ OnConfigurationChange \/ Revoke

Spec == Init /\ [][Next]_vars

(* The ticker keeps starting poll cycles, and a cycle under way goes on.     *)
Fairness == WF_vars(Poll) /\ WF_vars(PollerStep)

FairSpec == Spec /\ Fairness

-----------------------------------------------------------------------------
(* Every variable stays in its range.                                        *)
TypeOK ==
    /\ stored \in OAuth2Token \cup {NoToken}
    /\ pending \subseteq Flow /\ noticed \in BOOLEAN
    /\ key \in Key /\ artifacts \in BOOLEAN
    /\ pc \in [Handler -> {"idle"} \cup CallbackSteps \cup TokenSteps \cup NoticeSteps]
    /\ hand \in [Handler -> OAuth2Token \cup {NoToken}]
    /\ sealKey \in [Handler -> Key]
    /\ flow \in [Handler -> Flow \cup {NoFlow}]
    /\ live \subseteq 1..grants /\ grants \in 0..MaxGrants /\ redeemed \subseteq Flow
    /\ requests \in 0..MaxRequests /\ configs \in 0..MaxConfigs /\ faults \in 0..MaxFaults
    /\ stale \in [Handler -> BOOLEAN]
    /\ overtaken \in BOOLEAN /\ notices \in Nat /\ unmarked \in Nat

(* A stored connection can be used: the refresh token that getValidToken     *)
(* (google.go:233-259) and the OAuth callback leave in the store is one that *)
(* Google still accepts, unless it was revoked, Google's answer with its     *)
(* successor was lost (google.go:195-217), a refreshed token could not be    *)
(* stored, or a handler that had read an earlier token stored over this one  *)
(* a refresh token which Google had replaced by then.                        *)
ConnectionUsable ==
    stored # NoToken /\ ~overtaken =>
        stored.refresh \in live \/ \E h \in Handler : pc[h] = "save"

(* The calendar notice goes out once a day (README.md:191), and once more    *)
(* for each notice after which its flag was not stored (poll.go:603) or the  *)
(* node stopped before storing it: a crash or a failing store repeats it,    *)
(* nothing else does.                                                        *)
NoticesHaveFailures == notices <= 1 + unmarked

(* A token with every Meet scope, stored under the configured key, is taken  *)
(* away only by a disconnect: the deletions after a refusal for scopes       *)
(* (meeting.go:53-61, subscription.go:58-62) and after a failed decryption   *)
(* (oauth.go:88-96) hit it only if it was stored while the deleting handler  *)
(* was already under way, or that handler's key is no longer the configured. *)
GoodTokenKept ==
    [][ /\ Readable(stored, key) /\ stored.scopes # "noMeet" /\ stored' = NoToken
        => \/ DisconnectUser
           \/ \E h \in Handler : pc[h] \in {"drop", "reject"} /\ pc'[h] = "idle"
                                 /\ (stale[h] \/ sealKey[h] # key) ]_vars

(* While the poller is on, a token that the configured key cannot decrypt is *)
(* gone some time later, so the user is asked to connect again (oauth.go:90).*)
UnreadableTokenGoes ==
    (stored # NoToken /\ ~Readable(stored, key)) ~>
        (stored = NoToken \/ Readable(stored, key) \/ ~artifacts)

(* While the poller is on, an expiring token that Google would still refresh *)
(* is refreshed and stored some time later (google.go:247-256), or replaced. *)
ExpiringTokenRefreshed ==
    (stored # NoToken /\ ~stored.fresh) ~>
        (stored = NoToken \/ stored.fresh \/ stored.refresh \notin live \/ ~artifacts)

(* "removes your saved Google connection" (command.go:144): once the token   *)
(* is deleted, only a completed connection stores one again.                 *)
DisconnectIsFinal ==
    [][ stored = NoToken /\ stored' # NoToken
        => \E h \in Handler : StoreNewToken(h) ]_vars
=============================================================================
