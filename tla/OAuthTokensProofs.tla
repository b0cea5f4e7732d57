-------------------------- MODULE OAuthTokensProofs --------------------------
(* Proofs about OAuthTokens, for any handlers, flows, keys and bounds.       *)
EXTENDS OAuthTokens, TLAPS

-----------------------------------------------------------------------------
(* What each handler holds *)

Steps == {"idle"} \cup CallbackSteps \cup TokenSteps \cup NoticeSteps

WithToken == {"storeNew", "refresh", "save", "call", "reject"}

(* A step finds in hand what the steps before it have left there.            *)
StepOf(h) ==
    /\ pc[h] \in WithToken => hand[h] # NoToken
    /\ pc[h] \in {"deleteState", "exchange"} => flow[h] \in Flow
    /\ pc[h] \in NoticeSteps => h = Poller
    /\ pc[h] = "reject" => hand[h].scopes = "noMeet"

HandlersInv == \A h \in Handler : StepOf(h)

(* The poller's notices of the day and the flag that stands for them.        *)
NoticeInv ==
    /\ notices \in Nat /\ unmarked \in Nat
    /\ notices = unmarked \/ notices = unmarked + 1
    /\ noticed \/ pc[Poller] = "noticeMark" \/ notices = unmarked
    /\ pc[Poller] = "noticeMark" => notices = unmarked + 1 /\ ~noticed
    /\ pc[Poller] = "noticeSend" => ~noticed

BaseInv == TypeOK /\ HandlersInv /\ NoticeInv

HandlerTypes ==
    /\ pc \in [Handler -> Steps] /\ hand \in [Handler -> OAuth2Token \cup {NoToken}]
    /\ flow \in [Handler -> Flow \cup {NoFlow}]

LEMMA StepNames ==
    /\ Steps = {"idle", "getState", "deleteState", "exchange", "storeNew", "check",
                "get", "drop", "refresh", "save", "call", "reject",
                "noticeCheck", "noticeSend", "noticeMark"}
    /\ NoticeSteps = {"noticeCheck", "noticeSend", "noticeMark"}
    /\ Holding = {"drop", "refresh", "save", "call", "reject"}
BY DEF Steps, CallbackSteps, TokenSteps, NoticeSteps, Holding

LEMMA PollerIsHandler == Poller \in Handler
BY DEF Handler

LEMMA FaultType ==
    ASSUME Fault, faults \in 0..MaxFaults
    PROVE  faults' \in 0..MaxFaults
BY BoundsAssumption DEF Fault

LEMMA TokenFields ==
    ASSUME NEW t \in OAuth2Token
    PROVE  t # NoToken
BY NoneAssumption DEF OAuth2Token, Scopes

(* One handler moves, and holds what its next step needs.                    *)
LEMMA Moves ==
    ASSUME TypeOK, HandlersInv, NEW h \in Handler, NEW step \in Steps, GoTo(h, step),
           NEW t \in OAuth2Token \cup {NoToken}, hand' = [hand EXCEPT ![h] = t],
           NEW f \in Flow \cup {NoFlow}, flow' = [flow EXCEPT ![h] = f],
           step \in WithToken => t # NoToken,
           step \in {"deleteState", "exchange"} => f \in Flow,
           step \in NoticeSteps => h = Poller,
           step = "reject" => t.scopes = "noMeet"
    PROVE  HandlerTypes' /\ HandlersInv'
<1>1. HandlerTypes
  BY DEF TypeOK, HandlerTypes, Steps
<1>2. HandlerTypes'
  BY <1>1 DEF HandlerTypes, GoTo
<1>3. /\ pc'[h] = step /\ hand'[h] = t /\ flow'[h] = f
      /\ \A q \in Handler : q # h => pc'[q] = pc[q] /\ hand'[q] = hand[q] /\ flow'[q] = flow[q]
  BY <1>1 DEF HandlerTypes, GoTo
<1>4. HandlersInv'
  BY <1>3 DEF HandlersInv, StepOf
<1> QED BY <1>2, <1>4

LEMMA MovesOn ==
    ASSUME TypeOK, HandlersInv, NEW h \in Handler, NEW step \in Steps, GoTo(h, step),
           UNCHANGED <<hand, flow>>,
           step \in WithToken => hand[h] # NoToken,
           step \in {"deleteState", "exchange"} => flow[h] \in Flow,
           step \in NoticeSteps => h = Poller,
           step = "reject" => hand[h].scopes = "noMeet"
    PROVE  HandlerTypes' /\ HandlersInv'
<1>1. /\ hand[h] \in OAuth2Token \cup {NoToken} /\ hand' = [hand EXCEPT ![h] = hand[h]]
      /\ flow[h] \in Flow \cup {NoFlow} /\ flow' = [flow EXCEPT ![h] = flow[h]]
  BY DEF TypeOK
<1> QED BY <1>1, Moves

LEMMA Returns ==
    ASSUME TypeOK, HandlersInv, NEW h \in Handler, Return(h) \/ ReturnAfterChange(h)
    PROVE  HandlerTypes' /\ HandlersInv' /\ stale' \in [Handler -> BOOLEAN]
           /\ sealKey' \in [Handler -> Key]
<1>1. stale' \in [Handler -> BOOLEAN] /\ sealKey' \in [Handler -> Key]
  BY KeyAssumption DEF TypeOK, Return, ReturnAfterChange
<1>2. "idle" \in Steps /\ "idle" \notin WithToken /\ "idle" \notin NoticeSteps
  BY StepNames DEF WithToken
<1>3. GoTo(h, "idle") /\ hand' = [hand EXCEPT ![h] = NoToken] /\ flow' = [flow EXCEPT ![h] = NoFlow]
  BY DEF Return, ReturnAfterChange
<1> QED BY <1>1, <1>2, <1>3, Moves

Kept == HandlerTypes' /\ HandlersInv' /\ stale' \in [Handler -> BOOLEAN]
        /\ sealKey' \in [Handler -> Key]

LEMMA ReturnKeeps ==
    ASSUME BaseInv, NEW h \in Handler, Return(h) \/ ReturnAfterChange(h)
    PROVE  Kept
BY Returns DEF BaseInv, Kept

LEMMA GoOnKeeps ==
    ASSUME BaseInv, NEW h \in Handler, NEW step \in Steps, GoTo(h, step),
           UNCHANGED <<hand, flow>>, stale' \in [Handler -> BOOLEAN], sealKey' \in [Handler -> Key],
           step \in WithToken => hand[h] # NoToken,
           step \in {"deleteState", "exchange"} => flow[h] \in Flow,
           step \in NoticeSteps => h = Poller,
           step = "reject" => hand[h].scopes = "noMeet"
    PROVE  Kept
BY MovesOn DEF BaseInv, Kept

LEMMA TakeKeeps ==
    ASSUME BaseInv, NEW h \in Handler, NEW step \in {"storeNew", "refresh", "save", "call"},
           GoTo(h, step), UNCHANGED <<flow, stale, sealKey>>,
           NEW t \in OAuth2Token, hand' = [hand EXCEPT ![h] = t]
    PROVE  Kept
<1>1. step \in Steps /\ step \notin {"deleteState", "exchange"} /\ step \notin NoticeSteps
  BY StepNames
<1>2. PICK f \in Flow \cup {NoFlow} : flow' = [flow EXCEPT ![h] = f]
  <2>1. flow[h] \in Flow \cup {NoFlow} /\ flow' = [flow EXCEPT ![h] = flow[h]]
    BY DEF BaseInv, TypeOK
  <2> QED BY <2>1
<1>3. t # NoToken /\ t \in OAuth2Token \cup {NoToken} /\ step # "reject"
  BY TokenFields
<1>4. TypeOK /\ HandlersInv
  BY DEF BaseInv
<1>5. HandlerTypes' /\ HandlersInv'
  BY <1>1, <1>2, <1>3, <1>4, Moves
<1> QED BY <1>5 DEF Kept, BaseInv, TypeOK

(* What else a step of one handler may change, when the notice is not its    *)
(* matter.                                                                   *)
LEMMA HandlerFrame ==
    ASSUME BaseInv, NEW h \in Handler, Kept, \E step : GoTo(h, step),
           faults' \in 0..MaxFaults, stored' \in OAuth2Token \cup {NoToken},
           pending' \subseteq Flow, overtaken' \in BOOLEAN,
           live' \subseteq 1..grants', grants' \in 0..MaxGrants, redeemed' \subseteq Flow,
           requests' \in 0..MaxRequests,
           UNCHANGED <<noticed, notices, unmarked, key, artifacts, configs>>,
           pc[h] # "noticeMark", pc'[h] \notin {"noticeSend", "noticeMark"}
    PROVE  BaseInv'
<1>1. \A q \in Handler : q # h => pc'[q] = pc[q]
  BY DEF GoTo, BaseInv, TypeOK
<1>2. NoticeInv'
  BY <1>1, PollerIsHandler DEF BaseInv, NoticeInv
<1>3. TypeOK'
  BY DEF BaseInv, TypeOK, Kept, HandlerTypes, Steps
<1> QED BY <1>2, <1>3 DEF BaseInv, Kept

LEMMA PcAfter ==
    ASSUME BaseInv, NEW h \in Handler, NEW step, GoTo(h, step)
    PROVE  pc'[h] = step
BY DEF BaseInv, TypeOK, GoTo

LEMMA PcReturned ==
    ASSUME BaseInv, NEW h \in Handler, Return(h) \/ ReturnAfterChange(h)
    PROVE  pc'[h] = "idle" /\ GoTo(h, "idle")
BY PcAfter DEF Return, ReturnAfterChange

-----------------------------------------------------------------------------
(* The steps of a callback *)

LEMMA CallbackBase ==
    ASSUME BaseInv, NEW h \in Handler,
           GetState(h) \/ DeleteState(h) \/ ExchangeCodeForToken(h) \/ StoreNewToken(h)
    PROVE  BaseInv'
<1> USE DEF noticeVars, configVars
<1>1. /\ TypeOK /\ StepOf(h)
      /\ "deleteState" \in Steps /\ "exchange" \in Steps
      /\ {"deleteState", "exchange"} \cap (WithToken \cup NoticeSteps) = {}
  BY StepNames DEF BaseInv, HandlersInv, WithToken
<1>2. CASE GetState(h)
  <2>1. Kept /\ (\E step : GoTo(h, step)) /\ pc'[h] \in {"idle", "deleteState"}
    <3>1. CASE Return(h)
      BY <3>1, ReturnKeeps, PcReturned
    <3>2. CASE GoTo(h, "deleteState") /\ flow[h] \in pending /\ UNCHANGED <<hand, flow, stale, sealKey>>
      BY <1>1, <3>2, GoOnKeeps, PcAfter DEF TypeOK
    <3> QED BY <1>2, <3>1, <3>2 DEF GetState
  <2> QED BY <1>1, <1>2, <2>1, HandlerFrame DEF GetState, googleVars, TypeOK
<1>3. CASE DeleteState(h)
  <2>1. Kept /\ (\E step : GoTo(h, step)) /\ pc'[h] \in {"idle", "exchange"}
    <3>1. CASE Return(h)
      BY <3>1, ReturnKeeps, PcReturned
    <3>2. CASE GoTo(h, "exchange") /\ UNCHANGED <<hand, flow, stale, sealKey>>
      BY <1>1, <1>3, <3>2, GoOnKeeps, PcAfter DEF TypeOK, StepOf, DeleteState
    <3> QED BY <1>3, <3>1, <3>2 DEF DeleteState
  <2>2. faults' \in 0..MaxFaults /\ pending' \subseteq Flow
    BY <1>1, <1>3, FaultType DEF DeleteState, TypeOK
  <2> QED BY <1>1, <1>3, <2>1, <2>2, HandlerFrame DEF DeleteState, googleVars, TypeOK
<1>4. CASE ExchangeCodeForToken(h)
  <2>1. faults' \in 0..MaxFaults /\ pc[h] = "exchange" /\ flow[h] \in Flow
    BY <1>1, <1>4, FaultType DEF ExchangeCodeForToken, TypeOK, StepOf
  <2>2. live' \subseteq 1..grants' /\ grants' \in 0..MaxGrants /\ redeemed' \subseteq Flow
    <3>1. CASE UNCHANGED googleVars
      BY <1>1, <3>1 DEF googleVars, TypeOK
    <3>2. CASE Issues(flow[h])
      BY <1>1, <2>1, <3>2, BoundsAssumption DEF Issues, TypeOK
    <3> QED BY <1>4, <3>1, <3>2 DEF ExchangeCodeForToken
  <2>3. Kept /\ (\E step : GoTo(h, step)) /\ pc'[h] \in {"idle", "storeNew"}
    <3>1. CASE Return(h)
      BY <3>1, ReturnKeeps, PcReturned
    <3>2. CASE ~Return(h)
      <4>1. PICK scopes \in Scopes :
               /\ hand' = [hand EXCEPT ![h] =
                     [refresh |-> grants + 1, scopes |-> scopes, fresh |-> TRUE, key |-> sealKey[h]]]
               /\ GoTo(h, "storeNew") /\ UNCHANGED <<flow, stale, sealKey>>
               /\ grants < MaxGrants
        BY <1>4, <3>2 DEF ExchangeCodeForToken, Issues
      <4>2. grants + 1 \in 1..MaxGrants /\ sealKey[h] \in Key
        BY <1>1, <4>1, BoundsAssumption DEF TypeOK
      <4>3. [refresh |-> grants + 1, scopes |-> scopes, fresh |-> TRUE, key |-> sealKey[h]]
               \in OAuth2Token
        BY <4>2 DEF OAuth2Token
      <4> QED BY <4>1, <4>3, TakeKeeps, PcAfter
    <3> QED BY <3>1, <3>2
  <2> QED BY <1>1, <1>4, <2>1, <2>2, <2>3, HandlerFrame DEF ExchangeCodeForToken, TypeOK
<1>5. CASE StoreNewToken(h)
  <2>1. Kept /\ (\E step : GoTo(h, step)) /\ pc'[h] = "idle"
    BY <1>5, ReturnKeeps, PcReturned DEF StoreNewToken
  <2>2. faults' \in 0..MaxFaults /\ stored' \in OAuth2Token \cup {NoToken} /\ overtaken' \in BOOLEAN
    BY <1>1, <1>5, FaultType DEF StoreNewToken, TypeOK
  <2> QED BY <1>1, <1>5, <2>1, <2>2, HandlerFrame DEF StoreNewToken, googleVars, TypeOK
<1> QED BY <1>2, <1>3, <1>4, <1>5

-----------------------------------------------------------------------------
(* The steps of a request, and the poller's like them *)

LEMMA RefreshedType ==
    ASSUME TypeOK, NEW h \in Handler, hand[h] \in OAuth2Token, NEW r \in 1..MaxGrants
    PROVE  Refreshed(h, r) \in OAuth2Token
BY DEF Refreshed, OAuth2Token, TypeOK

LEMMA RequestBase ==
    ASSUME BaseInv, NEW h \in Handler,
           \/ CheckConnected(h) \/ GetToken(h) \/ DropUnreadable(h)
           \/ Call(h) \/ RejectForScopes(h)
    PROVE  BaseInv'
<1> USE DEF noticeVars, configVars, googleVars
<1>1. /\ TypeOK /\ StepOf(h) /\ "get" \in Steps /\ "drop" \in Steps /\ "reject" \in Steps
      /\ {"get", "drop"} \cap (WithToken \cup NoticeSteps) = {}
      /\ "reject" \notin NoticeSteps /\ "call" \in WithToken
  BY StepNames DEF BaseInv, HandlersInv, WithToken
<1>2. faults' \in 0..MaxFaults
  BY <1>1, FaultType
     DEF CheckConnected, GetToken, DropUnreadable, Call, RejectForScopes, TypeOK
<1>3. stored' \in OAuth2Token \cup {NoToken}
  BY <1>1 DEF CheckConnected, GetToken, DropUnreadable, Call, RejectForScopes, TypeOK
<1>4. ASSUME Kept, \E step : GoTo(h, step), pc'[h] \notin {"noticeSend", "noticeMark"}
      PROVE  BaseInv'
  <2>1. pc[h] # "noticeMark"
    BY DEF CheckConnected, GetToken, DropUnreadable, Call, RejectForScopes
  <2>2. UNCHANGED <<pending, noticed, notices, unmarked, key, artifacts, configs, live, grants, redeemed,
                    requests, overtaken>>
    BY DEF CheckConnected, GetToken, DropUnreadable, Call, RejectForScopes
  <2> QED BY <1>1, <1>2, <1>3, <1>4, <2>1, <2>2, HandlerFrame DEF TypeOK
<1>5. CASE Return(h) \/ ReturnAfterChange(h)
  BY <1>4, <1>5, ReturnKeeps, PcReturned
<1>6. CASE GoTo(h, "drop") /\ UNCHANGED <<hand, flow, stale, sealKey>>
  BY <1>1, <1>4, <1>6, GoOnKeeps, PcAfter DEF TypeOK
<1>7. CASE GoTo(h, "get") /\ TakeStore(h) /\ UNCHANGED <<hand, flow, stale>>
  <2>1. sealKey' \in [Handler -> Key]
    BY <1>1, <1>7 DEF TakeStore, TypeOK
  <2> QED BY <1>1, <1>4, <1>7, <2>1, GoOnKeeps, PcAfter DEF TypeOK
<1>8. CASE /\ GoTo(h, "reject") /\ hand[h].scopes = "noMeet" /\ pc[h] = "call"
           /\ UNCHANGED <<hand, flow, stale, sealKey>>
  BY <1>1, <1>4, <1>8, GoOnKeeps, PcAfter DEF TypeOK, StepOf
<1>9. CASE /\ Readable(stored, sealKey[h]) /\ hand' = [hand EXCEPT ![h] = stored]
           /\ GoTo(h, "call") \/ GoTo(h, "refresh")
           /\ UNCHANGED <<flow, stale, sealKey>>
  <2>1. stored \in OAuth2Token
    BY <1>1, <1>9 DEF Readable, TypeOK
  <2> QED BY <1>4, <1>9, <2>1, TakeKeeps, PcAfter
<1>10. CASE CheckConnected(h)
  BY <1>5, <1>6, <1>7, <1>10 DEF CheckConnected
<1>11. CASE GetToken(h)
  BY <1>5, <1>6, <1>9, <1>11 DEF GetToken
<1>12. CASE DropUnreadable(h) \/ Call(h) \/ RejectForScopes(h)
  BY <1>5, <1>8, <1>12 DEF DropUnreadable, Call, RejectForScopes
<1> QED BY <1>10, <1>11, <1>12

LEMMA RefreshBase ==
    ASSUME BaseInv, NEW h \in Handler, RefreshToken(h) \/ SaveRefreshed(h)
    PROVE  BaseInv'
<1> USE DEF noticeVars, configVars
<1>1. TypeOK /\ StepOf(h) /\ hand[h] \in OAuth2Token
  <2>1. pc[h] \in WithToken
    BY DEF RefreshToken, SaveRefreshed, WithToken
  <2> QED BY <2>1 DEF BaseInv, HandlersInv, TypeOK, StepOf
<1>2. CASE RefreshToken(h)
  <2>1. faults' \in 0..MaxFaults
    BY <1>1, <1>2, FaultType DEF RefreshToken, TypeOK
  <2>2. live' \subseteq 1..grants' /\ grants' \in 0..MaxGrants /\ redeemed' \subseteq Flow
    <3>1. CASE UNCHANGED googleVars
      BY <1>1, <3>1 DEF googleVars, TypeOK
    <3>2. CASE Rotates(h)
      <4>1. grants \in Nat /\ grants' = grants + 1 /\ grants' \in 0..MaxGrants
        BY <1>1, <3>2, BoundsAssumption DEF Rotates, TypeOK
      <4>2. live' \subseteq 1..grants'
        <5>1. live' = (live \ {hand[h].refresh}) \cup {grants + 1} /\ live \subseteq 1..grants
          BY <1>1, <3>2 DEF Rotates, TypeOK
        <5>2. ASSUME NEW x \in live' PROVE x \in 1..grants'
          <6>1. x \in 1..grants \/ x = grants + 1
            BY <5>1
          <6> QED BY <4>1, <6>1
        <5> QED BY <5>2
      <4> QED BY <1>1, <3>2, <4>1, <4>2 DEF Rotates, TypeOK
    <3> QED BY <1>2, <3>1, <3>2 DEF RefreshToken
  <2>3. overtaken' \in BOOLEAN
    BY <1>1, <1>2 DEF RefreshToken, TypeOK
  <2>4. CASE Return(h)
    BY <1>1, <1>2, <2>1, <2>2, <2>3, <2>4, ReturnKeeps, PcReturned, HandlerFrame
       DEF RefreshToken, TypeOK
  <2>5. CASE GoTo(h, "save") /\ UNCHANGED <<flow, stale, sealKey>>
    <3>1. hand[h].refresh \in 1..MaxGrants
      BY <1>1 DEF OAuth2Token
    <3>2. \E t \in OAuth2Token : hand' = [hand EXCEPT ![h] = t]
      <4>1. CASE Rotates(h) /\ hand' = [hand EXCEPT ![h] = Refreshed(h, grants + 1)]
        <5>1. grants + 1 \in 1..MaxGrants
          BY <1>1, <4>1, BoundsAssumption DEF Rotates, TypeOK
        <5> QED BY <1>1, <4>1, <5>1, RefreshedType
      <4>2. CASE hand' = [hand EXCEPT ![h] = Refreshed(h, hand[h].refresh)]
        BY <1>1, <3>1, <4>2, RefreshedType
      <4>3. CASE Return(h)
        BY <2>5, <4>3, PcReturned, PcAfter
      <4> QED BY <1>1, <1>2, <4>1, <4>2, <4>3 DEF RefreshToken, TypeOK
    <3>3. Kept /\ pc'[h] = "save"
      BY <2>5, <3>2, TakeKeeps, PcAfter
    <3> QED BY <1>1, <1>2, <2>1, <2>2, <2>3, <2>5, <3>3, HandlerFrame DEF RefreshToken, TypeOK
  <2> QED BY <1>2, <2>4, <2>5 DEF RefreshToken
<1>3. CASE SaveRefreshed(h)
  <2>1. faults' \in 0..MaxFaults /\ stored' \in OAuth2Token \cup {NoToken}
    BY <1>1, <1>3, FaultType DEF SaveRefreshed, TypeOK
  <2>2. stale' \in [Handler -> BOOLEAN] /\ overtaken' \in BOOLEAN
    BY <1>1, <1>3 DEF SaveRefreshed, MarkStale, TypeOK
  <2>3. Kept /\ pc'[h] = "call"
    <3>1. "call" \in Steps /\ "call" \notin NoticeSteps
      BY StepNames
    <3> QED BY <1>1, <1>3, <2>2, <3>1, GoOnKeeps, PcAfter, TokenFields DEF SaveRefreshed, TypeOK
  <2> QED BY <1>1, <1>3, <2>1, <2>2, <2>3, HandlerFrame DEF SaveRefreshed, googleVars, TypeOK
<1> QED BY <1>2, <1>3

-----------------------------------------------------------------------------
(* The notice, the surroundings, lost handlers *)

LEMMA PollerBase ==
    ASSUME BaseInv, PollCall \/ NoticeCheck \/ NoticeSend \/ NoticeMark
    PROVE  BaseInv'
<1> USE DEF noticeVars, configVars, googleVars
<1>1. /\ TypeOK /\ StepOf(Poller) /\ NoticeInv /\ Poller \in Handler
      /\ NoticeSteps \subseteq Steps
      /\ NoticeSteps \cap (WithToken \cup {"deleteState", "exchange"}) = {}
  BY StepNames, PollerIsHandler DEF BaseInv, HandlersInv, WithToken
<1>2. /\ faults' \in 0..MaxFaults
      /\ UNCHANGED <<stored, pending, key, artifacts, configs, live, grants, redeemed, requests,
                     overtaken>>
  BY <1>1, FaultType DEF PollCall, NoticeCheck, NoticeSend, NoticeMark, TypeOK
<1>3. Kept
  <2>1. CASE Return(Poller)
    BY <1>1, <2>1, ReturnKeeps
  <2>2. CASE /\ \E step \in NoticeSteps : GoTo(Poller, step)
             /\ UNCHANGED <<hand, flow, stale, sealKey>>
    BY <1>1, <2>2, StepNames, GoOnKeeps DEF TypeOK
  <2> QED BY <2>1, <2>2, StepNames DEF PollCall, NoticeCheck, NoticeSend, NoticeMark
<1>4. NoticeInv'
  <2>1. CASE PollCall
    BY <1>1, <2>1, PcAfter, PcReturned DEF PollCall, NoticeInv
  <2>2. CASE NoticeCheck
    BY <1>1, <2>2, PcAfter, PcReturned DEF NoticeCheck, NoticeInv
  <2>3. CASE NoticeSend
    BY <1>1, <2>3, PcAfter, PcReturned DEF NoticeSend, NoticeInv
  <2>4. CASE NoticeMark
    BY <1>1, <2>4, PcAfter, PcReturned DEF NoticeMark, NoticeInv
  <2> QED BY <2>1, <2>2, <2>3, <2>4
<1>5. TypeOK'
  <2>1. noticed' \in BOOLEAN /\ notices' \in Nat /\ unmarked' \in Nat
    <3>1. noticed' \in BOOLEAN
      BY <1>1 DEF PollCall, NoticeCheck, NoticeSend, NoticeMark, TypeOK
    <3> QED BY <1>4, <3>1 DEF NoticeInv
  <2> QED BY <1>1, <1>2, <1>3, <2>1 DEF TypeOK, Kept, HandlerTypes, Steps
<1> QED BY <1>3, <1>4, <1>5 DEF BaseInv, Kept

LEMMA LostBase ==
    ASSUME BaseInv, NEW h \in Handler, HandlerLost(h)
    PROVE  BaseInv'
<1> USE DEF configVars, googleVars
<1>1. TypeOK /\ StepOf(h) /\ NoticeInv /\ Poller \in Handler
  BY PollerIsHandler DEF BaseInv, HandlersInv
<1>2. Kept /\ pc'[h] = "idle" /\ \A q \in Handler : q # h => pc'[q] = pc[q]
  BY <1>1, ReturnKeeps, PcReturned DEF HandlerLost, GoTo, TypeOK
<1>3. faults' \in 0..MaxFaults /\ overtaken' \in BOOLEAN
  BY <1>1, FaultType DEF HandlerLost, TypeOK
<1>4. NoticeInv'
  <2>1. CASE pc[h] = "noticeMark"
    <3>1. h = Poller
      BY <1>1, <2>1, StepNames DEF StepOf
    <3> QED BY <1>1, <1>2, <2>1, <3>1 DEF HandlerLost, NoticeInv
  <2>2. CASE pc[h] # "noticeMark"
    BY <1>1, <1>2, <2>2 DEF HandlerLost, NoticeInv
  <2> QED BY <2>1, <2>2
<1>5. TypeOK'
  <2>1. notices' \in Nat /\ unmarked' \in Nat
    BY <1>4 DEF NoticeInv
  <2> QED BY <1>1, <1>2, <1>3, <2>1 DEF HandlerLost, TypeOK, Kept, HandlerTypes, Steps
<1> QED BY <1>2, <1>4, <1>5 DEF BaseInv, Kept

(* Handlers begin, and what no handler does. *)
Surroundings ==
    \/ \E f \in Flow : HandleOAuthConnect(f) \/ StateExpires(f)
    \/ DisconnectUser \/ DayPasses \/ AccessExpires \/ OnConfigurationChange \/ Revoke

Begin ==
    \/ \E h \in Browser, f \in Flow : Callback(h, f)
    \/ \E h \in Requester : Request(h)
    \/ Poll

LEMMA SurroundingsBase ==
    ASSUME BaseInv, Surroundings
    PROVE  BaseInv'
<1> USE DEF noticeVars, configVars, googleVars
<1>1. TypeOK /\ NoticeInv
  BY DEF BaseInv
<1>2. UNCHANGED <<pc, hand, flow, sealKey, requests, redeemed, grants>>
  BY DEF Surroundings, HandleOAuthConnect, StateExpires, DisconnectUser, DayPasses,
         AccessExpires, OnConfigurationChange, Revoke
<1>3. HandlersInv'
  BY <1>2 DEF BaseInv, HandlersInv, StepOf
<1>4. NoticeInv'
  BY <1>1, <1>2
     DEF Surroundings, HandleOAuthConnect, StateExpires, DisconnectUser, DayPasses,
         AccessExpires, OnConfigurationChange, Revoke, NoticeInv
<1>5. TypeOK'
  <2>1. CASE AccessExpires
    <3>1. stored' \in OAuth2Token
      BY <1>1, <2>1 DEF AccessExpires, OAuth2Token, TypeOK
    <3> QED BY <1>1, <2>1, <3>1 DEF AccessExpires, TypeOK
  <2>2. ASSUME NEW f \in Flow, HandleOAuthConnect(f) \/ StateExpires(f)
        PROVE  TypeOK'
    BY <1>1, <2>2 DEF HandleOAuthConnect, StateExpires, TypeOK
  <2>3. CASE DisconnectUser
    BY <1>1, <2>3 DEF DisconnectUser, MarkStale, TypeOK
  <2>4. CASE DayPasses
    BY <1>1, <2>4 DEF DayPasses, TypeOK
  <2>5. CASE OnConfigurationChange
    <3>1. configs' \in 0..MaxConfigs
      BY <1>1, <2>5, BoundsAssumption DEF OnConfigurationChange, TypeOK
    <3>2. key' \in Key /\ artifacts' \in BOOLEAN
      BY <1>1, <2>5 DEF OnConfigurationChange, TypeOK
    <3> QED BY <1>1, <2>5, <3>1, <3>2 DEF OnConfigurationChange, TypeOK
  <2>6. CASE Revoke
    <3>1. faults' \in 0..MaxFaults
      BY <1>1, <2>6, FaultType DEF Revoke, TypeOK
    <3> QED BY <1>1, <2>6, <3>1 DEF Revoke, TypeOK
  <2> QED BY <2>1, <2>2, <2>3, <2>4, <2>5, <2>6 DEF Surroundings
<1> QED BY <1>3, <1>4, <1>5 DEF BaseInv

LEMMA BeginBase ==
    ASSUME BaseInv, Begin
    PROVE  BaseInv'
<1> USE DEF noticeVars, configVars, googleVars
<1>1. TypeOK /\ Poller \in Handler /\ "getState" \in Steps /\ "check" \in Steps /\ "get" \in Steps
      /\ {"getState", "check", "get"} \cap (WithToken \cup NoticeSteps) = {}
  BY StepNames, PollerIsHandler DEF BaseInv, WithToken
<1>2. ASSUME NEW h \in Browser, NEW f \in Flow, Callback(h, f)
      PROVE  BaseInv'
  <2>1. h \in Handler /\ hand[h] \in OAuth2Token \cup {NoToken} /\ hand' = [hand EXCEPT ![h] = hand[h]]
    BY <1>1, <1>2 DEF Handler, Callback, TypeOK
  <2>2. TypeOK /\ HandlersInv
    BY DEF BaseInv
  <2>3. HandlerTypes' /\ HandlersInv'
    BY <1>1, <1>2, <2>1, <2>2, Moves DEF Callback
  <2>4. sealKey' \in [Handler -> Key] /\ requests' \in 0..MaxRequests
    <3>1. sealKey' \in [Handler -> Key]
      BY <1>1, <1>2, <2>1 DEF Callback, TakeStore, TypeOK
    <3>2. requests' \in 0..MaxRequests
      BY <1>1, <1>2, BoundsAssumption DEF Callback, TypeOK
    <3> QED BY <3>1, <3>2
  <2>5. Kept
    BY <1>1, <1>2, <2>3, <2>4 DEF Kept, Callback, TypeOK
  <2> QED BY <1>1, <1>2, <2>1, <2>4, <2>5, HandlerFrame, PcAfter DEF Callback, TypeOK
<1>3. ASSUME NEW h \in Requester, Request(h)
      PROVE  BaseInv'
  <2>1. h \in Handler
    BY DEF Handler
  <2>2. sealKey' \in [Handler -> Key] /\ requests' \in 0..MaxRequests
    BY <1>1, <1>3, <2>1, BoundsAssumption DEF Request, TakeStore, TypeOK
  <2>3. Kept
    BY <1>1, <1>3, <2>1, <2>2, GoOnKeeps DEF Request, TypeOK
  <2> QED BY <1>1, <1>3, <2>1, <2>2, <2>3, HandlerFrame, PcAfter DEF Request, TypeOK
<1>4. CASE Poll
  <2>1. sealKey' \in [Handler -> Key]
    BY <1>1, <1>4 DEF Poll, TakeStore, TypeOK
  <2>2. Kept
    BY <1>1, <1>4, <2>1, GoOnKeeps DEF Poll, TypeOK
  <2> QED BY <1>1, <1>4, <2>1, <2>2, HandlerFrame, PcAfter DEF Poll, TypeOK
<1> QED BY <1>2, <1>3, <1>4 DEF Begin

LEMMA BaseInit == Init => BaseInv
<1> SUFFICES ASSUME Init PROVE BaseInv
  OBVIOUS
<1>1. /\ stored \in OAuth2Token \cup {NoToken} /\ live \subseteq 1..grants /\ grants \in 0..MaxGrants
  <2>1. [refresh |-> 1, scopes |-> "noMeet", fresh |-> TRUE, key |-> FirstKey] \in OAuth2Token
    BY BoundsAssumption, KeyAssumption DEF OAuth2Token, Scopes
  <2>2. CASE stored = NoToken /\ live = {} /\ grants = 0
    BY <2>2, BoundsAssumption
  <2>3. CASE /\ stored = [refresh |-> 1, scopes |-> "noMeet", fresh |-> TRUE, key |-> FirstKey]
             /\ live = {1} /\ grants = 1
    <3>1. 1 \in 0..MaxGrants /\ live \subseteq 1..1
      BY <2>3, BoundsAssumption
    <3> QED BY <2>1, <2>3, <3>1
  <2> QED BY <2>2, <2>3 DEF Init
<1>2. TypeOK
  <2>1. 0 \in 0..MaxRequests /\ 0 \in 0..MaxConfigs /\ 0 \in 0..MaxFaults /\ 0 \in Nat
    BY BoundsAssumption
  <2> QED BY <1>1, <2>1, KeyAssumption DEF Init, TypeOK
<1>3. \A h \in Handler : pc[h] = "idle"
  BY DEF Init
<1>4. HandlersInv
  BY <1>3, StepNames DEF HandlersInv, StepOf, WithToken
<1>5. NoticeInv
  BY <1>3, PollerIsHandler DEF Init, NoticeInv
<1> QED BY <1>2, <1>4, <1>5 DEF BaseInv

LEMMA StepsGrouped ==
    ASSUME Next
    PROVE  \/ Surroundings \/ Begin \/ PollCall \/ NoticeCheck \/ NoticeSend \/ NoticeMark
           \/ \E h \in Handler : HandlerStep(h) \/ HandlerLost(h)
BY DEF Next, Surroundings, Begin

LEMMA BaseStep ==
    ASSUME BaseInv, [Next]_vars
    PROVE  BaseInv'
<1>1. CASE UNCHANGED vars
  BY <1>1 DEF vars, BaseInv, TypeOK, HandlersInv, StepOf, NoticeInv
<1> QED BY <1>1, StepsGrouped, SurroundingsBase, BeginBase, PollerBase, LostBase, CallbackBase,
           RequestBase, RefreshBase DEF HandlerStep

(* Every variable stays in its range: a handler always holds a token, and a  *)
(* flow, at the steps that use one.                                          *)
THEOREM TypeCorrect == Spec => []TypeOK
<1>1. BaseInv => TypeOK
  BY DEF BaseInv
<1> QED BY <1>1, BaseInit, BaseStep, PTL DEF Spec

(* On one day the calendar notice is sent once, and at most once more for    *)
(* each notice whose flag was not stored: because the store failed, or       *)
(* because the node stopped after sending it.                                *)
THEOREM NoticesAreCounted == Spec => []NoticesHaveFailures
<1>1. BaseInv => NoticesHaveFailures
  BY DEF BaseInv, NoticeInv, NoticesHaveFailures
<1> QED BY <1>1, BaseInit, BaseStep, PTL DEF Spec
-----------------------------------------------------------------------------
(* The stored token and what the handlers hold of it *)

(* Some handler is about to store a refresh token that Google accepts.       *)
Rescued == \E q \in Handler : pc[q] = "save" /\ hand[q].refresh \in live

(* As long as nothing was overtaken, a dead refresh token, stored or about   *)
(* to be stored by a handler whose reading is not outdated, has its          *)
(* successor on the way.                                                     *)
UsableInv ==
    ~overtaken =>
        /\ stored # NoToken => stored.refresh \in live \/ Rescued
        /\ \A h \in Handler : pc[h] = "save" /\ ~stale[h] => hand[h].refresh \in live \/ Rescued

(* A handler whose reading is not outdated knows the stored token.           *)
KnowsStored(h) ==
    ~stale[h] =>
        /\ pc[h] = "drop" => ~Readable(stored, sealKey[h])
        /\ pc[h] \in Holding \ {"drop"} => stored # NoToken /\ stored.scopes = hand[h].scopes

KnowledgeInv == \A h \in Handler : KnowsStored(h)

FullInv == BaseInv /\ UsableInv /\ KnowledgeInv

(* Steps that leave the handlers at "save", and the token they hold, alone.  *)
LEMMA UsableFrame ==
    ASSUME UsableInv, live \subseteq live', overtaken => overtaken',
           stored' = NoToken \/ (stored # NoToken /\ stored'.refresh = stored.refresh),
           \A q \in Handler : /\ (pc[q] = "save") <=> (pc'[q] = "save")
                              /\ pc[q] = "save" => hand'[q] = hand[q] /\ (stale[q] => stale'[q])
    PROVE  UsableInv'
<1>1. Rescued => Rescued'
  BY DEF Rescued
<1> QED BY <1>1 DEF UsableInv

(* Steps that move one handler and leave the stored token as it is for it.   *)
LEMMA KnowledgeFrame ==
    ASSUME BaseInv, KnowledgeInv, NEW h \in Handler, KnowsStored(h)',
           \A q \in Handler : q # h => /\ pc'[q] = pc[q] /\ hand'[q] = hand[q]
                                       /\ sealKey'[q] = sealKey[q] /\ (stale[q] => stale'[q])
                                       /\ pc[q] \in Holding => stale'[q] \/ stored' = stored
    PROVE  KnowledgeInv'
<1> SUFFICES ASSUME NEW q \in Handler, q # h
             PROVE  KnowsStored(q)'
  BY DEF KnowledgeInv
<1>1. CASE pc[q] \notin Holding
  BY <1>1, StepNames DEF KnowsStored
<1>2. CASE pc[q] \in Holding
  BY <1>2 DEF KnowledgeInv, KnowsStored, Readable
<1> QED BY <1>1, <1>2

(* What a step of one handler leaves alone.                                  *)
OthersKeep(h) ==
    \A q \in Handler : q # h => /\ pc'[q] = pc[q] /\ hand'[q] = hand[q]
                                /\ sealKey'[q] = sealKey[q] /\ (stale[q] => stale'[q])

LEMMA ReturnLeaves ==
    ASSUME TypeOK, NEW h \in Handler, Return(h) \/ ReturnAfterChange(h)
    PROVE  OthersKeep(h) /\ pc'[h] = "idle"
BY DEF OthersKeep, Return, ReturnAfterChange, GoTo, TypeOK

LEMMA ChangeOutdates ==
    ASSUME TypeOK, NEW h \in Handler, ReturnAfterChange(h)
    PROVE  \A q \in Handler : q # h /\ pc[q] \in Holding => stale'[q]
BY DEF ReturnAfterChange, Outdated

LEMMA IdleKnows ==
    ASSUME NEW h \in Handler, pc'[h] \notin Holding
    PROVE  KnowsStored(h)'
BY StepNames DEF KnowsStored

(* A handler's step that ends its work.                                      *)
LEMMA ReturnFull ==
    ASSUME FullInv, NEW h \in Handler, pc[h] # "save", live \subseteq live', overtaken' = overtaken,
           \/ Return(h) /\ UNCHANGED stored
           \/ ReturnAfterChange(h) /\ stored' = NoToken
    PROVE  UsableInv' /\ KnowledgeInv'
<1>1. TypeOK /\ BaseInv /\ UsableInv /\ KnowledgeInv
  BY DEF FullInv, BaseInv
<1>2. OthersKeep(h) /\ pc'[h] = "idle" /\ KnowsStored(h)'
  BY <1>1, ReturnLeaves, IdleKnows, StepNames
<1>3. KnowledgeInv'
  BY <1>1, <1>2, ChangeOutdates, KnowledgeFrame DEF OthersKeep
<1>4. UsableInv'
  <2>1. stored' = NoToken \/ (stored # NoToken /\ stored'.refresh = stored.refresh)
    OBVIOUS
  <2>2. \A q \in Handler : /\ (pc[q] = "save") <=> (pc'[q] = "save")
                           /\ pc[q] = "save" => hand'[q] = hand[q] /\ (stale[q] => stale'[q])
    BY <1>2 DEF OthersKeep
  <2> QED BY <1>1, <2>1, <2>2, UsableFrame
<1> QED BY <1>3, <1>4

(* A handler's step to its next call.                                        *)
LEMMA GoOnFull ==
    ASSUME FullInv, NEW h \in Handler, NEW step, GoTo(h, step), pc[h] # "save", step # "save",
           UNCHANGED <<stored, overtaken, stale>>, live \subseteq live', OthersKeep(h),
           KnowsStored(h)'
    PROVE  UsableInv' /\ KnowledgeInv'
<1>1. BaseInv /\ UsableInv /\ KnowledgeInv /\ pc'[h] = step
  BY PcAfter DEF FullInv
<1>2. KnowledgeInv'
  BY <1>1, KnowledgeFrame DEF OthersKeep
<1>3. \A q \in Handler : /\ (pc[q] = "save") <=> (pc'[q] = "save")
                         /\ pc[q] = "save" => hand'[q] = hand[q] /\ (stale[q] => stale'[q])
  BY <1>1 DEF OthersKeep
<1> QED BY <1>1, <1>2, <1>3, UsableFrame

LEMMA GoLeaves ==
    ASSUME TypeOK, NEW h \in Handler, NEW step, GoTo(h, step),
           NEW t, hand' = hand \/ hand' = [hand EXCEPT ![h] = t],
           NEW k, sealKey' = sealKey \/ sealKey' = [sealKey EXCEPT ![h] = k],
           UNCHANGED stale
    PROVE  OthersKeep(h)
BY DEF OthersKeep, GoTo, TypeOK

LEMMA CallbackFull ==
    ASSUME FullInv, NEW h \in Handler,
           GetState(h) \/ DeleteState(h) \/ ExchangeCodeForToken(h) \/ StoreNewToken(h)
    PROVE  UsableInv' /\ KnowledgeInv'
<1>1. TypeOK /\ BaseInv /\ UsableInv /\ KnowledgeInv /\ StepOf(h)
  BY DEF FullInv, BaseInv, HandlersInv
<1>2. pc[h] # "save"
  BY DEF GetState, DeleteState, ExchangeCodeForToken, StoreNewToken
<1>3. live \subseteq live'
  BY DEF GetState, DeleteState, ExchangeCodeForToken, StoreNewToken, Issues, googleVars
<1>4. CASE GetState(h) \/ DeleteState(h) \/ ExchangeCodeForToken(h)
  <2>1. UNCHANGED <<stored, overtaken>>
    BY <1>4 DEF GetState, DeleteState, ExchangeCodeForToken
  <2>2. CASE Return(h)
    BY <1>2, <1>3, <2>1, <2>2, ReturnFull
  <2>3. CASE ~Return(h)
    <3>1. PICK step \in {"deleteState", "exchange", "storeNew"} :
            /\ GoTo(h, step) /\ UNCHANGED <<stale, sealKey>>
            /\ hand' = hand \/ \E t : hand' = [hand EXCEPT ![h] = t]
      BY <1>4, <2>3 DEF GetState, DeleteState, ExchangeCodeForToken
    <3>2. OthersKeep(h)
      BY <1>1, <3>1, GoLeaves
    <3>3. KnowsStored(h)' /\ step # "save"
      BY <1>1, <3>1, PcAfter, IdleKnows, StepNames
    <3> QED BY <1>2, <1>3, <2>1, <3>1, <3>2, <3>3, GoOnFull
  <2> QED BY <2>2, <2>3
<1>5. CASE StoreNewToken(h)
  <2>1. CASE Return(h) /\ UNCHANGED <<stored, overtaken>>
    BY <1>2, <1>3, <2>1, ReturnFull
  <2>2. CASE stored' = hand[h] /\ ReturnAfterChange(h) /\ overtaken' = (hand[h].refresh \notin live)
    <3>1. OthersKeep(h) /\ pc'[h] = "idle" /\ KnowsStored(h)'
      BY <1>1, <2>2, ReturnLeaves, IdleKnows, StepNames
    <3>2. \A q \in Handler : q # h /\ pc[q] \in Holding => stale'[q]
      BY <1>1, <2>2, ChangeOutdates
    <3>3. KnowledgeInv'
      BY <1>1, <3>1, <3>2, KnowledgeFrame DEF OthersKeep
    <3>4. UsableInv'
      <4>1. ~overtaken' => stored'.refresh \in live'
        BY <1>3, <2>2
      <4>2. \A q \in Handler : pc'[q] = "save" => stale'[q]
        BY <3>1, <3>2, StepNames DEF OthersKeep
      <4> QED BY <4>1, <4>2 DEF UsableInv
    <3> QED BY <3>3, <3>4
  <2> QED BY <1>5, <2>1, <2>2 DEF StoreNewToken
<1> QED BY <1>4, <1>5

LEMMA RequestFull ==
    ASSUME FullInv, NEW h \in Handler,
           \/ CheckConnected(h) \/ GetToken(h) \/ DropUnreadable(h)
           \/ Call(h) \/ RejectForScopes(h)
    PROVE  UsableInv' /\ KnowledgeInv'
<1>1. TypeOK /\ BaseInv /\ UsableInv /\ KnowledgeInv /\ KnowsStored(h)
  BY DEF FullInv, BaseInv, KnowledgeInv
<1>2. pc[h] # "save" /\ live \subseteq live' /\ overtaken' = overtaken
  BY DEF CheckConnected, GetToken, DropUnreadable, Call, RejectForScopes, googleVars
<1>3. CASE \/ Return(h) /\ UNCHANGED stored
           \/ ReturnAfterChange(h) /\ stored' = NoToken
  BY <1>2, <1>3, ReturnFull
<1>4. CASE GoTo(h, "drop") /\ ~Readable(stored, sealKey[h]) /\ UNCHANGED <<stored, hand, stale, sealKey>>
  <2>1. OthersKeep(h) /\ pc'[h] = "drop"
    BY <1>1, <1>4, GoLeaves, PcAfter
  <2>2. KnowsStored(h)'
    BY <1>4, <2>1 DEF KnowsStored, Readable
  <2> QED BY <1>2, <1>4, <2>1, <2>2, GoOnFull
<1>5. CASE GoTo(h, "get") /\ TakeStore(h) /\ UNCHANGED <<stored, hand, stale>>
  <2>1. OthersKeep(h) /\ pc'[h] = "get"
    BY <1>1, <1>5, GoLeaves, PcAfter DEF TakeStore
  <2>2. KnowsStored(h)'
    BY <2>1, IdleKnows, StepNames
  <2> QED BY <1>2, <1>5, <2>1, <2>2, GoOnFull
<1>6. CASE pc[h] = "call" /\ GoTo(h, "reject") /\ UNCHANGED <<stored, hand, stale, sealKey>>
  <2>1. OthersKeep(h) /\ pc'[h] = "reject"
    BY <1>1, <1>6, GoLeaves, PcAfter
  <2>2. KnowsStored(h)'
    BY <1>1, <1>6, <2>1, StepNames DEF KnowsStored
  <2> QED BY <1>2, <1>6, <2>1, <2>2, GoOnFull
<1>7. CASE /\ Readable(stored, sealKey[h]) /\ hand' = [hand EXCEPT ![h] = stored]
           /\ GoTo(h, "call") \/ GoTo(h, "refresh")
           /\ UNCHANGED <<stored, stale, sealKey>>
  <2>1. PICK step \in {"call", "refresh"} : GoTo(h, step)
    BY <1>7
  <2>2. OthersKeep(h) /\ pc'[h] = step
    BY <1>1, <1>7, <2>1, GoLeaves, PcAfter
  <2>3. hand'[h] = stored /\ stored' = stored /\ stored # NoToken
    BY <1>1, <1>7 DEF Readable, TypeOK
  <2>4. KnowsStored(h)'
    BY <2>2, <2>3 DEF KnowsStored
  <2> QED BY <1>2, <1>7, <2>1, <2>2, <2>4, GoOnFull
<1>8. CASE CheckConnected(h)
  BY <1>3, <1>4, <1>5, <1>8 DEF CheckConnected
<1>9. CASE GetToken(h)
  BY <1>3, <1>4, <1>7, <1>9 DEF GetToken
<1>10. CASE DropUnreadable(h) \/ Call(h) \/ RejectForScopes(h)
  BY <1>3, <1>6, <1>10 DEF DropUnreadable, Call, RejectForScopes
<1> QED BY <1>8, <1>9, <1>10

LEMMA RefreshFull ==
    ASSUME FullInv, NEW h \in Handler, RefreshToken(h)
    PROVE  UsableInv' /\ KnowledgeInv'
<1>1. TypeOK /\ BaseInv /\ UsableInv /\ KnowledgeInv /\ KnowsStored(h) /\ StepOf(h)
  BY DEF FullInv, BaseInv, KnowledgeInv, HandlersInv
<1>2. pc[h] = "refresh" /\ stored' = stored /\ hand[h] \in OAuth2Token
  <2>1. pc[h] \in WithToken
    BY DEF RefreshToken, WithToken
  <2> QED BY <1>1, <2>1 DEF RefreshToken, StepOf, TypeOK
<1>3. CASE Return(h) /\ UNCHANGED <<googleVars, overtaken>>
  BY <1>2, <1>3, ReturnFull DEF googleVars
<1>4. CASE Return(h) /\ overtaken' = TRUE
  <2>1. OthersKeep(h) /\ KnowsStored(h)'
    BY <1>1, <1>4, ReturnLeaves, IdleKnows, StepNames
  <2>2. KnowledgeInv'
    BY <1>1, <1>2, <2>1, KnowledgeFrame DEF OthersKeep
  <2> QED BY <1>4, <2>2 DEF UsableInv
<1>5. CASE /\ GoTo(h, "save") /\ UNCHANGED <<stale, sealKey>>
           /\ hand[h].refresh \in live
           /\ \/ Rotates(h) /\ hand' = [hand EXCEPT ![h] = Refreshed(h, grants + 1)]
              \/ /\ hand' = [hand EXCEPT ![h] = Refreshed(h, hand[h].refresh)]
                 /\ UNCHANGED googleVars
  <2>1. PICK r \in Nat : hand' = [hand EXCEPT ![h] = Refreshed(h, r)] /\ r \in live'
    BY <1>1, <1>2, <1>5 DEF Rotates, googleVars, OAuth2Token, TypeOK
  <2>2. OthersKeep(h) /\ pc'[h] = "save"
    BY <1>1, <1>5, <2>1, GoLeaves, PcAfter
  <2>3. hand'[h].refresh = r /\ hand'[h].scopes = hand[h].scopes
    BY <1>1, <1>2, <2>1 DEF Refreshed, OAuth2Token, TypeOK
  <2>4. Rescued'
    BY <2>1, <2>2, <2>3 DEF Rescued
  <2>5. UsableInv'
    BY <2>4 DEF UsableInv
  <2>6. KnowsStored(h)'
    BY <1>1, <1>2, <1>5, <2>2, <2>3, StepNames DEF KnowsStored
  <2> QED BY <1>1, <1>2, <2>2, <2>5, <2>6, KnowledgeFrame DEF OthersKeep
<1> QED BY <1>2, <1>3, <1>4, <1>5 DEF RefreshToken

LEMMA SaveFull ==
    ASSUME FullInv, NEW h \in Handler, SaveRefreshed(h)
    PROVE  UsableInv' /\ KnowledgeInv'
<1>1. TypeOK /\ BaseInv /\ UsableInv /\ KnowledgeInv /\ KnowsStored(h) /\ StepOf(h)
  BY DEF FullInv, BaseInv, KnowledgeInv, HandlersInv
<1>2. pc[h] = "save" /\ hand[h] # NoToken /\ UNCHANGED <<hand, sealKey, live>>
  BY <1>1 DEF SaveRefreshed, StepOf, WithToken, googleVars
<1>3. pc'[h] = "call" /\ \A q \in Handler : q # h => pc'[q] = pc[q]
  BY <1>1 DEF SaveRefreshed, GoTo, TypeOK
<1>4. CASE /\ stored' = hand[h] /\ MarkStale(Outdated(h))
           /\ overtaken' = (overtaken \/ (stale[h] /\ hand[h].refresh \notin live))
  <2>1. \A q \in Handler : /\ stale'[q] = (stale[q] \/ q \in Outdated(h))
                           /\ q # h /\ pc[q] \in Holding => stale'[q]
    BY <1>4 DEF MarkStale, Outdated
  <2>2. KnowsStored(h)'
    BY <1>2, <1>3, <1>4 DEF KnowsStored
  <2>3. KnowledgeInv'
    BY <1>1, <1>2, <1>3, <2>1, <2>2, KnowledgeFrame
  <2>4. \A q \in Handler : pc'[q] = "save" => stale'[q]
    BY <1>3, <2>1, StepNames
  <2>5. ~overtaken' => stored'.refresh \in live' \/ Rescued'
    <3>1. SUFFICES ASSUME ~overtaken', hand[h].refresh \notin live
                   PROVE  Rescued'
      BY <1>2, <1>4
    <3>2. Rescued
      BY <1>1, <1>2, <1>4, <3>1 DEF UsableInv
    <3>3. PICK q \in Handler : pc[q] = "save" /\ hand[q].refresh \in live
      BY <3>2 DEF Rescued
    <3> QED BY <1>2, <1>3, <3>1, <3>3 DEF Rescued
  <2> QED BY <2>3, <2>4, <2>5 DEF UsableInv
<1>5. CASE overtaken' = TRUE /\ UNCHANGED <<stored, stale>>
  <2>1. KnowsStored(h)'
    BY <1>1, <1>2, <1>3, <1>5, StepNames DEF KnowsStored
  <2>2. KnowledgeInv'
    BY <1>1, <1>2, <1>3, <1>5, <2>1, KnowledgeFrame
  <2> QED BY <1>5, <2>2 DEF UsableInv
<1> QED BY <1>4, <1>5 DEF SaveRefreshed

LEMMA PollerFull ==
    ASSUME FullInv, PollCall \/ NoticeCheck \/ NoticeSend \/ NoticeMark
    PROVE  UsableInv' /\ KnowledgeInv'
<1>1. TypeOK /\ Poller \in Handler
  BY PollerIsHandler DEF FullInv, BaseInv
<1>2. /\ pc[Poller] # "save" /\ live \subseteq live' /\ UNCHANGED <<stored, overtaken>>
  BY DEF PollCall, NoticeCheck, NoticeSend, NoticeMark, googleVars
<1>3. CASE Return(Poller)
  BY <1>1, <1>2, <1>3, ReturnFull
<1>4. CASE \E step \in NoticeSteps : GoTo(Poller, step) /\ UNCHANGED <<hand, stale, sealKey>>
  <2>1. PICK step \in NoticeSteps : GoTo(Poller, step) /\ UNCHANGED <<hand, stale, sealKey>>
    BY <1>4
  <2>2. OthersKeep(Poller) /\ KnowsStored(Poller)' /\ step # "save"
    BY <1>1, <2>1, GoLeaves, PcAfter, IdleKnows, StepNames DEF FullInv
  <2> QED BY <1>1, <1>2, <2>1, <2>2, GoOnFull
<1> QED BY <1>3, <1>4, StepNames DEF PollCall, NoticeCheck, NoticeSend, NoticeMark

LEMMA LostFull ==
    ASSUME FullInv, NEW h \in Handler, HandlerLost(h)
    PROVE  UsableInv' /\ KnowledgeInv'
<1>1. TypeOK /\ BaseInv /\ UsableInv /\ KnowledgeInv
  BY DEF FullInv, BaseInv
<1>2. Return(h) /\ UNCHANGED <<stored, live>> /\ overtaken' = (overtaken \/ pc[h] = "save")
  BY DEF HandlerLost, googleVars
<1>3. CASE pc[h] # "save"
  BY <1>1, <1>2, <1>3, ReturnFull DEF FullInv, BaseInv, TypeOK
<1>4. CASE pc[h] = "save"
  <2>1. OthersKeep(h) /\ KnowsStored(h)'
    BY <1>1, <1>2, ReturnLeaves, IdleKnows, StepNames
  <2>2. KnowledgeInv'
    BY <1>1, <1>2, <2>1, KnowledgeFrame DEF OthersKeep
  <2> QED BY <1>2, <1>4, <2>2 DEF UsableInv
<1> QED BY <1>3, <1>4

LEMMA SurroundingsFull ==
    ASSUME FullInv, Surroundings
    PROVE  UsableInv' /\ KnowledgeInv'
<1>1. TypeOK /\ UsableInv /\ KnowledgeInv
  BY DEF FullInv, BaseInv
<1>2. UNCHANGED <<pc, hand, sealKey>>
  BY DEF Surroundings, HandleOAuthConnect, StateExpires, DisconnectUser, DayPasses,
         AccessExpires, OnConfigurationChange, Revoke
<1>3. CASE DisconnectUser
  <2>1. \A q \in Handler : pc[q] \in Holding => stale'[q]
    BY <1>3 DEF DisconnectUser, MarkStale
  <2> QED BY <1>2, <1>3, <2>1, StepNames DEF DisconnectUser, UsableInv, KnowledgeInv, KnowsStored
<1>4. CASE AccessExpires
  <2>1. /\ stored # NoToken /\ stored' # NoToken /\ UNCHANGED <<live, overtaken, stale>>
        /\ stored'.refresh = stored.refresh /\ stored'.scopes = stored.scopes
        /\ stored'.key = stored.key
    BY <1>1, <1>4, TokenFields DEF AccessExpires, OAuth2Token, TypeOK, googleVars
  <2>2. UsableInv'
    BY <1>1, <1>2, <2>1, UsableFrame
  <2>3. KnowledgeInv'
    BY <1>1, <1>2, <2>1 DEF KnowledgeInv, KnowsStored, Readable
  <2> QED BY <2>2, <2>3
<1>5. CASE Revoke
  BY <1>1, <1>2, <1>5 DEF Revoke, UsableInv, KnowledgeInv, KnowsStored, Readable
<1>6. CASE \/ \E f \in Flow : HandleOAuthConnect(f) \/ StateExpires(f)
           \/ DayPasses \/ OnConfigurationChange
  <2>1. UNCHANGED <<stored, live, overtaken, stale>>
    BY <1>6 DEF HandleOAuthConnect, StateExpires, DayPasses, OnConfigurationChange, googleVars
  <2> QED BY <1>1, <1>2, <2>1 DEF UsableInv, Rescued, KnowledgeInv, KnowsStored, Readable
<1> QED BY <1>3, <1>4, <1>5, <1>6 DEF Surroundings

LEMMA BeginFull ==
    ASSUME FullInv, Begin
    PROVE  UsableInv' /\ KnowledgeInv'
<1>1. TypeOK
  BY DEF FullInv, BaseInv
<1>2. PICK h \in Handler, step \in {"getState", "check", "get"} :
         pc[h] = "idle" /\ GoTo(h, step) /\ TakeStore(h)
  BY PollerIsHandler DEF Begin, Callback, Request, Poll, Handler
<1>3. UNCHANGED <<stored, overtaken, stale, live, hand>>
  BY DEF Begin, Callback, Request, Poll, googleVars
<1>4. OthersKeep(h) /\ KnowsStored(h)'
  BY <1>1, <1>2, <1>3, GoLeaves, PcAfter, IdleKnows, StepNames DEF TakeStore, FullInv
<1> QED BY <1>2, <1>3, <1>4, GoOnFull

LEMMA FullInit == Init => FullInv
<1> SUFFICES ASSUME Init PROVE FullInv
  OBVIOUS
<1>1. \A h \in Handler : pc[h] = "idle"
  BY DEF Init
<1>2. stored # NoToken => stored.refresh \in live
  BY DEF Init
<1> QED BY <1>1, <1>2, BaseInit, StepNames DEF FullInv, UsableInv, KnowledgeInv, KnowsStored

LEMMA FullStep ==
    ASSUME FullInv, [Next]_vars
    PROVE  FullInv'
<1>1. BaseInv'
  BY BaseStep DEF FullInv
<1>2. UsableInv' /\ KnowledgeInv'
  <2>1. CASE UNCHANGED vars
    BY <2>1 DEF vars, FullInv, UsableInv, Rescued, KnowledgeInv, KnowsStored, Readable
  <2> QED BY <2>1, StepsGrouped, SurroundingsFull, BeginFull, PollerFull, LostFull,
             CallbackFull, RequestFull, RefreshFull, SaveFull DEF HandlerStep
<1> QED BY <1>1, <1>2 DEF FullInv

(* Whatever requests, callbacks and poll cycles refresh, replace and delete  *)
(* the token across each other, the refresh token they leave stored is one   *)
(* that Google accepts, except after the cases ConnectionUsable names.       *)
THEOREM ConnectionsStayUsable == Spec => []ConnectionUsable
<1>1. FullInv => ConnectionUsable
  BY DEF FullInv, UsableInv, Rescued, ConnectionUsable
<1> QED BY <1>1, FullInit, FullStep, PTL DEF Spec

(* The step by which a good token goes. *)
LEMMA KeptStep ==
    ASSUME FullInv, [Next]_vars, Readable(stored, key), stored.scopes # "noMeet",
           stored' = NoToken
    PROVE  \/ DisconnectUser
           \/ \E h \in Handler : pc[h] \in {"drop", "reject"} /\ pc'[h] = "idle"
                                 /\ (stale[h] \/ sealKey[h] # key)
<1>1. TypeOK /\ BaseInv /\ KnowledgeInv /\ HandlersInv /\ stored # NoToken
  BY DEF FullInv, BaseInv, Readable
<1>2. ASSUME NEW h \in Handler, StoreNewToken(h) \/ SaveRefreshed(h)
      PROVE  stored' # NoToken
  BY <1>1, <1>2 DEF StoreNewToken, SaveRefreshed, HandlersInv, StepOf, WithToken
<1>3. AccessExpires => stored' # NoToken
  BY <1>1, TokenFields DEF AccessExpires, OAuth2Token, TypeOK
<1>4. stored' # stored
  BY <1>1
<1>5. DisconnectUser \/ \E h \in Handler : DropUnreadable(h) \/ RejectForScopes(h)
  BY <1>2, <1>3, <1>4
     DEF Next, vars, HandlerStep, HandleOAuthConnect, StateExpires, Callback, Request, GetState,
         DeleteState, ExchangeCodeForToken, CheckConnected, GetToken, RefreshToken, Call, HandlerLost,
         Poll, PollCall, NoticeCheck, NoticeSend, NoticeMark, DayPasses, OnConfigurationChange, Revoke
<1>6. ASSUME NEW h \in Handler, DropUnreadable(h) \/ RejectForScopes(h)
      PROVE  pc[h] \in {"drop", "reject"} /\ pc'[h] = "idle" /\ (stale[h] \/ sealKey[h] # key)
  <2>1. pc[h] \in {"drop", "reject"}
    BY <1>6 DEF DropUnreadable, RejectForScopes
  <2>2. pc'[h] = "idle"
    BY <1>1, <1>6, PcReturned DEF DropUnreadable, RejectForScopes
  <2>3. stale[h] \/ sealKey[h] # key
    BY <1>1, <2>1, StepNames DEF KnowledgeInv, KnowsStored, HandlersInv, StepOf
  <2> QED BY <2>1, <2>2, <2>3
<1> QED BY <1>5, <1>6

(* A token with every Meet scope, stored under the configured key, is only   *)
(* deleted by a disconnect, by a handler that judged an earlier token, or by *)
(* one whose key is no longer the configured one.                            *)
THEOREM GoodTokensAreKept == Spec => GoodTokenKept
<1>1. FullInv /\ [Next]_vars =>
        [ /\ Readable(stored, key) /\ stored.scopes # "noMeet" /\ stored' = NoToken
          => \/ DisconnectUser
             \/ \E h \in Handler : pc[h] \in {"drop", "reject"} /\ pc'[h] = "idle"
                                   /\ (stale[h] \/ sealKey[h] # key) ]_vars
  BY KeptStep
<1> QED BY <1>1, FullInit, FullStep, PTL DEF Spec, GoodTokenKept
=============================================================================
