--------------------- MODULE SubscriptionRegistryProofs ---------------------
(* Proofs about SubscriptionRegistry, for any spaces, channels and users, any *)
(* number of commands at once and any number of failures.                    *)
EXTENDS SubscriptionRegistry, TLAPS

-----------------------------------------------------------------------------
(* Type correctness *)

LEMMA FaultType ==
    ASSUME Fault, faults \in 0..MaxFaults
    PROVE  faults' \in 0..MaxFaults
BY BoundsAssumption DEF Fault

LEMMA TypeInit == Init => TypeOK
<1> SUFFICES ASSUME Init PROVE TypeOK
  OBVIOUS
<1>1. 0 \in 0..2 /\ issued \in 0..MaxCommands /\ faults \in 0..MaxFaults
  BY BoundsAssumption DEF Init
<1>2. pc \in [Caller -> {"idle"} \cup AddSteps \cup RemoveSteps]
  BY DEF Init
<1> QED BY <1>1, <1>2 DEF Init, TypeOK

PcType == pc \in [Caller -> {"idle"} \cup AddSteps \cup RemoveSteps]

LEMMA GoToType ==
    ASSUME PcType, NEW p \in Caller, NEW step, GoTo(p, step),
           step \in {"idle"} \cup AddSteps \cup RemoveSteps
    PROVE  PcType'
BY DEF GoTo, PcType

LEMMA DisturbType ==
    ASSUME TypeOK, NEW p \in Caller, NoteOverlap(p) \/ Disturb(Asked(p))
    PROVE  disturbed' \subseteq Space
BY DEF NoteOverlap, Disturb, Asked, TypeOK

LEMMA TypeCommand ==
    ASSUME TypeOK, NEW p \in Caller, Add(p) \/ Remove(p) \/ CommandLost(p)
    PROVE  TypeOK'
<1> PcType /\ faults \in 0..MaxFaults
  BY DEF TypeOK, PcType
<1> USE DEF commandVars, pollVars, storeVars
<1>1. Asked(p) \in Space /\ cmd[p].user \in User /\ NewSubscription(p) \in Subscription
  BY DEF TypeOK, Asked, NewSubscription, Subscription
<1>2. ASSUME PcType', UNCHANGED <<cmd, issued, polling, toVisit, copy, writes>>,
             records' \in [Space -> Subscription \cup {NoSubscription}],
             index' \subseteq Space, userIndex' \in [User -> SUBSET Space],
             match' \in [Caller -> Subscription \cup {NoSubscription}],
             disturbed' \subseteq Space, faults' \in 0..MaxFaults
      PROVE  TypeOK'
  BY <1>2 DEF TypeOK, PcType
<1>3. CASE GetExisting(p)
  <2>1. PcType' /\ faults' \in 0..MaxFaults
    BY <1>3, FaultType, GoToType DEF GetExisting, Return, AddSteps
  <2> QED BY <1>2, <1>3, <2>1 DEF GetExisting, TypeOK
<1>4. CASE StoreSubscription(p)
  <2>1. PcType' /\ faults' \in 0..MaxFaults
    BY <1>4, FaultType, GoToType DEF StoreSubscription, Return, AddSteps
  <2>2. disturbed' \subseteq Space
    BY <1>4, DisturbType DEF StoreSubscription, TypeOK
  <2> QED BY <1>1, <1>2, <1>4, <2>1, <2>2 DEF StoreSubscription, TypeOK
<1>5. CASE AddToIndex(p)
  <2>1. PcType' /\ faults' \in 0..MaxFaults
    BY <1>5, FaultType, GoToType DEF AddToIndex, Return, AddSteps
  <2>2. disturbed' \subseteq Space
    BY <1>5, DisturbType DEF AddToIndex, TypeOK
  <2> QED BY <1>1, <1>2, <1>5, <2>1, <2>2 DEF AddToIndex, TypeOK
<1>6. CASE AddToUserIndex(p)
  <2>1. PcType' /\ faults' \in 0..MaxFaults
    BY <1>6, FaultType, GoToType DEF AddToUserIndex, Return, AddSteps
  <2>2. disturbed' \subseteq Space
    BY <1>6, DisturbType DEF AddToUserIndex, TypeOK
  <2> QED BY <1>1, <1>2, <1>6, <2>1, <2>2 DEF AddToUserIndex, TypeOK
<1>7. CASE ListAll(p)
  <2>1. PcType' /\ faults' \in 0..MaxFaults
    BY <1>7, FaultType, GoToType DEF ListAll, Return, RemoveSteps
  <2> QED BY <1>2, <1>7, <2>1 DEF ListAll, TypeOK
<1>8. CASE FindMatch(p)
  <2>1. PcType' /\ faults' \in 0..MaxFaults
    BY <1>8, FaultType, GoToType DEF FindMatch, Return, RemoveSteps
  <2>2. match' \in [Caller -> Subscription \cup {NoSubscription}]
    BY <1>1, <1>8 DEF FindMatch, TypeOK
  <2> QED BY <1>2, <1>8, <2>1, <2>2 DEF FindMatch, TypeOK
<1>9. CASE DeleteSubscription(p)
  <2>1. PcType' /\ faults' \in 0..MaxFaults
    BY <1>9, FaultType, GoToType DEF DeleteSubscription, Return, RemoveSteps
  <2>2. disturbed' \subseteq Space
    BY <1>9, DisturbType DEF DeleteSubscription, TypeOK
  <2> QED BY <1>1, <1>2, <1>9, <2>1, <2>2 DEF DeleteSubscription, TypeOK
<1>10. CASE RemoveFromIndex(p)
  <2>1. PcType' /\ faults' \in 0..MaxFaults
    BY <1>10, FaultType, GoToType DEF RemoveFromIndex, Return, RemoveSteps
  <2>2. disturbed' \subseteq Space
    BY <1>10, DisturbType DEF RemoveFromIndex, TypeOK
  <2> QED BY <1>1, <1>2, <1>10, <2>1, <2>2 DEF RemoveFromIndex, TypeOK
<1>11. CASE RemoveFromUserIndex(p)
  <2>1. PcType' /\ faults' \in 0..MaxFaults
    BY <1>11, FaultType, GoToType DEF RemoveFromUserIndex, Return, RemoveSteps
  <2>2. disturbed' \subseteq Space
    BY <1>11, DisturbType DEF RemoveFromUserIndex, TypeOK
  <2>3. userIndex' \in [User -> SUBSET Space]
    BY <1>11 DEF RemoveFromUserIndex, TypeOK
  <2> QED BY <1>2, <1>11, <2>1, <2>2, <2>3 DEF RemoveFromUserIndex, TypeOK
<1>12. CASE CommandLost(p)
  <2>1. PcType' /\ faults' \in 0..MaxFaults
    BY <1>12, FaultType, GoToType DEF CommandLost, Return
  <2>2. disturbed' \subseteq Space
    BY <1>12, DisturbType DEF CommandLost, TypeOK
  <2> QED BY <1>2, <1>12, <2>1, <2>2 DEF CommandLost, TypeOK
<1> QED BY <1>3, <1>4, <1>5, <1>6, <1>7, <1>8, <1>9, <1>10, <1>11, <1>12 DEF Add, Remove

LEMMA TypeIssue ==
    ASSUME TypeOK, NEW p \in Caller, NEW u \in User, NEW c \in Channel, NEW s \in Space,
           Issue(p, u, c, s)
    PROVE  TypeOK'
<1>1. PcType'
  BY GoToType DEF Issue, TypeOK, PcType, AddSteps, RemoveSteps
<1>2. issued' \in 0..MaxCommands
  BY BoundsAssumption DEF Issue, TypeOK
<1>3. cmd' \in [Caller -> [user : User, channel : Channel, space : Space]]
  BY DEF Issue, TypeOK
<1> QED BY <1>1, <1>2, <1>3 DEF Issue, TypeOK, PcType, storeVars, pollVars

LEMMA TypePoll ==
    ASSUME TypeOK, Poll \/ CycleLost
    PROVE  TypeOK'
<1> USE DEF storeVars, commandVars
<1>1. CASE BeginCycle
  BY <1>1 DEF BeginCycle, TypeOK
<1>2. CASE EndCycle
  BY <1>2 DEF EndCycle, TypeOK
<1>3. ASSUME NEW s \in Space, LoadSubscription(s)
      PROVE  TypeOK'
  <2>1. faults' \in 0..MaxFaults
    BY <1>3, FaultType DEF LoadSubscription, TypeOK
  <2>2. writes' \in 0..2
    BY <1>3 DEF LoadSubscription, TypeOK
  <2>3. copy' \in [Space -> Subscription \cup {NoSubscription}]
    BY <1>3 DEF LoadSubscription, TypeOK
  <2> QED BY <1>3, <2>1, <2>2, <2>3 DEF LoadSubscription, TypeOK
<1>4. ASSUME NEW s \in Space, WriteBack(s)
      PROVE  TypeOK'
  <2>1. writes' \in 0..2
    BY <1>4 DEF WriteBack, TypeOK
  <2>2. records' \in [Space -> Subscription \cup {NoSubscription}]
    BY <1>4 DEF WriteBack, TypeOK
  <2> QED BY <1>4, <2>1, <2>2 DEF WriteBack, TypeOK
<1>5. ASSUME NEW s \in Space, FinishSubscription(s)
      PROVE  TypeOK'
  BY <1>5 DEF FinishSubscription, TypeOK
<1>6. CASE CycleLost
  <2>1. faults' \in 0..MaxFaults
    BY <1>6, FaultType DEF CycleLost, TypeOK
  <2>2. copy' \in [Space -> Subscription \cup {NoSubscription}] /\ writes' \in 0..2
    BY <1>6 DEF CycleLost
  <2> QED BY <1>6, <2>1, <2>2 DEF CycleLost, TypeOK
<1> QED BY <1>1, <1>2, <1>3, <1>4, <1>5, <1>6 DEF Poll

LEMMA TypeStep ==
    ASSUME TypeOK, [Next]_vars
    PROVE  TypeOK'
<1>1. CASE UNCHANGED vars
  BY <1>1 DEF vars, TypeOK
<1> QED BY <1>1, TypeCommand, TypeIssue, TypePoll DEF Next

(* Records, indexes and commands keep their types. *)
THEOREM TypeCorrect == Spec => []TypeOK
BY TypeInit, TypeStep, PTL DEF Spec

-----------------------------------------------------------------------------
(* The inductive invariant *)

At(p, step, s) == pc[p] = step /\ Asked(p) = s

(* The keys of s agree. *)
Agree(s) ==
    /\ s \in index <=> records[s] # NoSubscription
    /\ \A u \in User :
          s \in userIndex[u] <=> records[s] # NoSubscription /\ records[s].owner = u

(* The copy of a cycle is the record. *)
CopyIsRecord(s) == copy[s] # NoSubscription => copy[s] = records[s]

(* What a command past its reads saw is still so. *)
ReadsHold(s) ==
    \A p \in Caller :
        /\ At(p, "store", s) => records[s] = NoSubscription
        /\ At(p, "delete", s) => records[s] = match[p] /\ match[p] # NoSubscription

(* One command at a time changes the keys of s. *)
OneIndexing(s) ==
    \A p, q \in Caller :
        pc[p] \in Indexing /\ pc[q] \in Indexing /\ Asked(p) = s /\ Asked(q) = s => p = q

(* How far such a command has come. *)
Halfway(p, s) ==
    /\ pc[p] \in {"index", "userIndex"} =>
          /\ records[s] = NewSubscription(p)
          /\ \A u \in User : s \notin userIndex[u]
    /\ pc[p] \in {"unindex", "userUnindex"} =>
          /\ records[s] = NoSubscription /\ match[p] # NoSubscription
          /\ \A u \in User : s \in userIndex[u] <=> u = match[p].owner
    /\ pc[p] \in {"userIndex", "unindex"} => s \in index
    /\ pc[p] \in {"index", "userUnindex"} => s \notin index

Consistent(s) ==
    /\ CopyIsRecord(s) /\ ReadsHold(s) /\ OneIndexing(s)
    /\ Settled(s) => Agree(s)
    /\ \A p \in Caller : Asked(p) = s => Halfway(p, s)

RegistryInv == TypeOK /\ \A s \in Space : s \notin disturbed => Consistent(s)

-----------------------------------------------------------------------------
(* Each step keeps the keys of a space consistent *)

LEMMA ActingSteps ==
    /\ Acting = {"store", "delete", "index", "userIndex", "unindex", "userUnindex"}
    /\ Indexing = {"index", "userIndex", "unindex", "userUnindex"}
BY DEF Acting, Indexing

LEMMA NewIsSubscription ==
    ASSUME TypeOK, NEW p \in Caller
    PROVE  /\ NewSubscription(p) \in Subscription
           /\ NewSubscription(p) # NoSubscription
           /\ NewSubscription(p).owner = cmd[p].user
BY NoneAssumption DEF TypeOK, NewSubscription, Subscription

(* What concerns s stays: its keys, and the commands that act on it.         *)
LEMMA Elsewhere ==
    ASSUME NEW s \in Space, Consistent(s),
           records'[s] = records[s], copy'[s] \in {copy[s], NoSubscription},
           s \in index' <=> s \in index,
           \A u \in User : s \in userIndex'[u] <=> s \in userIndex[u],
           \A q \in Caller : pc'[q] \in Acting /\ Asked(q)' = s
               => pc'[q] = pc[q] /\ cmd'[q] = cmd[q] /\ match'[q] = match[q],
           \A q \in Caller : pc[q] \in Indexing /\ Asked(q) = s
               => pc'[q] = pc[q] /\ cmd'[q] = cmd[q]
    PROVE  Consistent(s)'
<1>1. CopyIsRecord(s)'
  BY DEF Consistent, CopyIsRecord
<1>2. ReadsHold(s)'
  BY ActingSteps DEF Consistent, ReadsHold, At, Asked
<1>3. OneIndexing(s)'
  BY ActingSteps DEF Consistent, OneIndexing, Asked
<1>4. Settled(s)' => Agree(s)'
  <2>1. Settled(s)' => Settled(s)
    BY DEF Settled, Asked
  <2> QED BY <2>1 DEF Consistent, Agree
<1>5. ASSUME NEW p \in Caller, Asked(p)' = s
      PROVE  Halfway(p, s)'
  <2>1. CASE pc'[p] \in Indexing
    <3>1. pc'[p] = pc[p] /\ cmd'[p] = cmd[p] /\ match'[p] = match[p]
      BY <1>5, <2>1, ActingSteps
    <3>2. Asked(p) = s /\ NewSubscription(p)' = NewSubscription(p)
      BY <1>5, <3>1 DEF Asked, NewSubscription
    <3> QED BY <3>1, <3>2 DEF Consistent, Halfway
  <2>2. CASE pc'[p] \notin Indexing
    BY <2>2 DEF Halfway, Indexing
  <2> QED BY <2>1, <2>2
<1> QED BY <1>1, <1>2, <1>3, <1>4, <1>5 DEF Consistent

(* A command goes on without acting on s. *)
LEMMA CommandElsewhere ==
    ASSUME TypeOK, NEW p \in Caller, NEW s \in Space, Consistent(s),
           NEW step, GoTo(p, step), UNCHANGED <<cmd, copy>>,
           records'[s] = records[s], s \in index' <=> s \in index,
           \A u \in User : s \in userIndex'[u] <=> s \in userIndex[u],
           \A q \in Caller : q # p => match'[q] = match[q],
           Asked(p) = s => pc[p] \notin Indexing /\ step \notin Acting
    PROVE  Consistent(s)'
<1>1. /\ \A q \in Caller : q # p => pc'[q] = pc[q]
      /\ pc'[p] = step
  BY DEF GoTo, TypeOK
<1>2. \A q \in Caller : Asked(q)' = Asked(q)
  BY DEF Asked
<1> QED BY <1>1, <1>2, Elsewhere

LEMMA KeepsIssue ==
    ASSUME TypeOK, NEW p \in Caller, NEW u \in User, NEW c \in Channel, NEW t \in Space,
           Issue(p, u, c, t), NEW s \in Space, Consistent(s)
    PROVE  Consistent(s)'
<1>1. pc[p] = "idle" /\ pc'[p] \in {"getExisting", "list"}
  BY DEF Issue, GoTo, TypeOK
<1>2. \A q \in Caller : q # p => pc'[q] = pc[q] /\ cmd'[q] = cmd[q]
  BY DEF Issue, GoTo, TypeOK
<1>3. UNCHANGED <<records, copy, index, userIndex, match>>
  BY DEF Issue, storeVars, pollVars
<1> QED BY <1>1, <1>2, <1>3, ActingSteps, Elsewhere

LEMMA KeepsGetExisting ==
    ASSUME RegistryInv, NEW p \in Caller, GetExisting(p), NEW s \in Space, s \notin disturbed
    PROVE  Consistent(s)'
<1>1. TypeOK /\ Consistent(s) /\ pc[p] = "getExisting"
  BY DEF RegistryInv, GetExisting
<1>2. UNCHANGED <<records, index, userIndex, copy, match, cmd>>
  BY DEF GetExisting, storeVars, pollVars
<1>3. CASE Return(p)
  BY <1>1, <1>2, <1>3, ActingSteps, CommandElsewhere DEF Return
<1>4. CASE GoTo(p, "store") /\ s # Asked(p)
  BY <1>1, <1>2, <1>4, CommandElsewhere
<1>5. CASE GoTo(p, "store") /\ s = Asked(p) /\ records[Asked(p)] = NoSubscription
  <2>1. pc'[p] = "store" /\ \A q \in Caller : q # p => pc'[q] = pc[q]
    BY <1>1, <1>5 DEF GoTo, TypeOK
  <2>2. \A q \in Caller : pc'[q] \in Indexing <=> pc[q] \in Indexing
    BY <1>1, <2>1, ActingSteps
  <2>3. CopyIsRecord(s)'
    BY <1>1, <1>2 DEF Consistent, CopyIsRecord
  <2>4. ReadsHold(s)'
    BY <1>1, <1>2, <1>5, <2>1 DEF Consistent, ReadsHold, At, Asked
  <2>5. OneIndexing(s)'
    BY <1>1, <1>2, <2>2 DEF Consistent, OneIndexing, Asked
  <2>6. Settled(s)' => Agree(s)'
    BY <1>1, <1>2, <2>2 DEF Consistent, Settled, Agree, Asked
  <2>7. \A q \in Caller : Asked(q)' = s => Halfway(q, s)'
    BY <1>1, <1>2, <2>1 DEF Consistent, Halfway, Asked, NewSubscription
  <2> QED BY <2>3, <2>4, <2>5, <2>6, <2>7 DEF Consistent
<1> QED BY <1>3, <1>4, <1>5 DEF GetExisting

LEMMA KeepsFindMatch ==
    ASSUME RegistryInv, NEW p \in Caller, FindMatch(p), NEW s \in Space, s \notin disturbed
    PROVE  Consistent(s)'
<1>1. TypeOK /\ Consistent(s) /\ pc[p] = "find"
  BY DEF RegistryInv, FindMatch
<1>2. UNCHANGED <<records, index, userIndex, copy, cmd>>
  BY DEF FindMatch, storeVars, pollVars
<1>3. \A q \in Caller : q # p => match'[q] = match[q]
  BY <1>1 DEF FindMatch, TypeOK
<1>4. CASE Return(p)
  BY <1>1, <1>2, <1>3, <1>4, ActingSteps, CommandElsewhere DEF Return
<1>5. CASE GoTo(p, "delete") /\ s # Asked(p)
  BY <1>1, <1>2, <1>3, <1>5, CommandElsewhere
<1>6. CASE /\ GoTo(p, "delete") /\ s = Asked(p) /\ records[s] # NoSubscription
           /\ match' = [match EXCEPT ![p] = records[s]]
  <2>1. pc'[p] = "delete" /\ \A q \in Caller : q # p => pc'[q] = pc[q]
    BY <1>1, <1>6 DEF GoTo, TypeOK
  <2>2. \A q \in Caller : pc'[q] \in Indexing <=> pc[q] \in Indexing
    BY <1>1, <2>1, ActingSteps
  <2>3. match'[p] = records[s]
    BY <1>1, <1>6 DEF TypeOK
  <2>4. CopyIsRecord(s)'
    BY <1>1, <1>2 DEF Consistent, CopyIsRecord
  <2>5. ReadsHold(s)'
    BY <1>1, <1>2, <1>3, <1>6, <2>1, <2>3 DEF Consistent, ReadsHold, At, Asked
  <2>6. OneIndexing(s)'
    BY <1>1, <1>2, <2>2 DEF Consistent, OneIndexing, Asked
  <2>7. Settled(s)' => Agree(s)'
    BY <1>1, <1>2, <2>2 DEF Consistent, Settled, Agree, Asked
  <2>8. \A q \in Caller : Asked(q)' = s => Halfway(q, s)'
    BY <1>1, <1>2, <1>3, <2>1 DEF Consistent, Halfway, Asked, NewSubscription
  <2> QED BY <2>4, <2>5, <2>6, <2>7, <2>8 DEF Consistent
<1> QED BY <1>4, <1>5, <1>6 DEF FindMatch, Asked

(* Nothing else deals with a space whose change is not an overlap. *)
LEMMA NoOverlap ==
    ASSUME RegistryInv, NEW p \in Caller, NoteOverlap(p), Asked(p) \notin disturbed',
           pc[p] \notin Indexing
    PROVE  /\ copy[Asked(p)] = NoSubscription
           /\ \A q \in Caller : q # p /\ Asked(q) = Asked(p) => pc[q] \notin Acting
           /\ Settled(Asked(p))
<1>1. ~Overlapped(p)
  BY DEF NoteOverlap, Disturb
<1> QED BY <1>1 DEF Overlapped, Settled, Acting

LEMMA KeepsStore ==
    ASSUME RegistryInv, NEW p \in Caller, StoreSubscription(p), NEW s \in Space, s \notin disturbed'
    PROVE  Consistent(s)'
<1>1. TypeOK /\ pc[p] = "store" /\ s \notin disturbed
  BY DEF RegistryInv, StoreSubscription, NoteOverlap, Disturb
<1>2. Consistent(s)
  BY <1>1 DEF RegistryInv
<1>3. UNCHANGED <<index, userIndex, copy, match, cmd>>
  BY DEF StoreSubscription, pollVars
<1>4. CASE Return(p) /\ UNCHANGED records
  BY <1>1, <1>2, <1>3, <1>4, ActingSteps, CommandElsewhere DEF Return
<1>5. CASE /\ records' = [records EXCEPT ![Asked(p)] = NewSubscription(p)]
           /\ GoTo(p, "index") /\ NoteOverlap(p)
  <2>1. CASE s # Asked(p)
    <3>1. records'[s] = records[s]
      BY <1>1, <1>5, <2>1 DEF TypeOK
    <3> QED BY <1>1, <1>2, <1>3, <1>5, <2>1, <3>1, CommandElsewhere
  <2>2. CASE s = Asked(p)
    <3>1. /\ copy[s] = NoSubscription /\ Settled(s)
          /\ \A q \in Caller : q # p /\ Asked(q) = s => pc[q] \notin Acting
      BY <1>1, <1>5, <2>2, ActingSteps, NoOverlap
    <3>2. records[s] = NoSubscription /\ Agree(s)
      BY <1>1, <1>2, <2>2, <3>1 DEF Consistent, ReadsHold, At
    <3>3. records'[s] = NewSubscription(p) /\ NewSubscription(p)' = NewSubscription(p)
      BY <1>1, <1>3, <1>5, <2>2 DEF TypeOK, NewSubscription
    <3>4. pc'[p] = "index" /\ \A q \in Caller : q # p => pc'[q] = pc[q]
      BY <1>1, <1>5 DEF GoTo, TypeOK
    <3>5. CopyIsRecord(s)'
      BY <1>3, <3>1 DEF CopyIsRecord
    <3>6. ReadsHold(s)' /\ OneIndexing(s)'
      BY <1>3, <3>1, <3>4, ActingSteps DEF ReadsHold, OneIndexing, At, Asked
    <3>7. ~Settled(s)'
      BY <1>3, <2>2, <3>4 DEF Settled, Indexing, Asked
    <3>8. Halfway(p, s)'
      BY <1>3, <3>2, <3>3, <3>4 DEF Halfway, Agree
    <3>9. \A q \in Caller : q # p /\ Asked(q)' = s => Halfway(q, s)'
      BY <1>3, <3>1, <3>4, ActingSteps DEF Halfway, Asked
    <3> QED BY <3>5, <3>6, <3>7, <3>8, <3>9 DEF Consistent
  <2> QED BY <2>1, <2>2
<1> QED BY <1>4, <1>5 DEF StoreSubscription

LEMMA KeepsDelete ==
    ASSUME RegistryInv, NEW p \in Caller, DeleteSubscription(p), NEW s \in Space, s \notin disturbed'
    PROVE  Consistent(s)'
<1>1. TypeOK /\ pc[p] = "delete" /\ s \notin disturbed
  BY DEF RegistryInv, DeleteSubscription, NoteOverlap, Disturb
<1>2. Consistent(s)
  BY <1>1 DEF RegistryInv
<1>3. UNCHANGED <<index, userIndex, copy, match, cmd>>
  BY DEF DeleteSubscription, pollVars
<1>4. CASE Return(p) /\ UNCHANGED records
  BY <1>1, <1>2, <1>3, <1>4, ActingSteps, CommandElsewhere DEF Return
<1>5. CASE /\ records' = [records EXCEPT ![Asked(p)] = NoSubscription]
           /\ GoTo(p, "unindex") /\ NoteOverlap(p)
  <2>1. CASE s # Asked(p)
    <3>1. records'[s] = records[s]
      BY <1>1, <1>5, <2>1 DEF TypeOK
    <3> QED BY <1>1, <1>2, <1>3, <1>5, <2>1, <3>1, CommandElsewhere
  <2>2. CASE s = Asked(p)
    <3>1. /\ copy[s] = NoSubscription /\ Settled(s)
          /\ \A q \in Caller : q # p /\ Asked(q) = s => pc[q] \notin Acting
      BY <1>1, <1>5, <2>2, ActingSteps, NoOverlap
    <3>2. records[s] = match[p] /\ match[p] # NoSubscription /\ Agree(s)
      BY <1>1, <1>2, <2>2, <3>1 DEF Consistent, ReadsHold, At
    <3>3. records'[s] = NoSubscription
      BY <1>1, <1>5, <2>2 DEF TypeOK
    <3>4. pc'[p] = "unindex" /\ \A q \in Caller : q # p => pc'[q] = pc[q]
      BY <1>1, <1>5 DEF GoTo, TypeOK
    <3>5. CopyIsRecord(s)'
      BY <1>3, <3>1 DEF CopyIsRecord
    <3>6. ReadsHold(s)' /\ OneIndexing(s)'
      BY <1>3, <3>1, <3>4, ActingSteps DEF ReadsHold, OneIndexing, At, Asked
    <3>7. ~Settled(s)'
      BY <1>3, <2>2, <3>4 DEF Settled, Indexing, Asked
    <3>8. Halfway(p, s)'
      BY <1>3, <3>2, <3>3, <3>4 DEF Halfway, Agree
    <3>9. \A q \in Caller : q # p /\ Asked(q)' = s => Halfway(q, s)'
      BY <1>3, <3>1, <3>4, ActingSteps DEF Halfway, Asked
    <3> QED BY <3>5, <3>6, <3>7, <3>8, <3>9 DEF Consistent
  <2> QED BY <2>1, <2>2
<1> QED BY <1>4, <1>5 DEF DeleteSubscription

(* From a command's first index key to its second. *)
LEMMA KeepsFirstKey ==
    ASSUME RegistryInv, NEW p \in Caller, NEW s \in Space, s = Asked(p), s \notin disturbed,
           UNCHANGED <<records, userIndex, copy, match, cmd>>,
           \/ pc[p] = "index" /\ GoTo(p, "userIndex") /\ s \in index'
           \/ pc[p] = "unindex" /\ GoTo(p, "userUnindex") /\ s \notin index'
    PROVE  Consistent(s)'
<1>1. TypeOK /\ Consistent(s)
  BY DEF RegistryInv
<1>2. \A q \in Caller : q # p => pc'[q] = pc[q]
  BY <1>1 DEF GoTo, TypeOK
<1>3. \/ pc[p] = "index" /\ pc'[p] = "userIndex" /\ s \in index'
      \/ pc[p] = "unindex" /\ pc'[p] = "userUnindex" /\ s \notin index'
  BY <1>1 DEF GoTo, TypeOK
<1>4. \A q \in Caller : pc'[q] \in Indexing <=> pc[q] \in Indexing
  BY <1>2, <1>3, ActingSteps
<1>5. CopyIsRecord(s)'
  BY <1>1 DEF Consistent, CopyIsRecord
<1>6. ReadsHold(s)' /\ OneIndexing(s)'
  BY <1>1, <1>2, <1>3, <1>4 DEF Consistent, ReadsHold, OneIndexing, At, Asked
<1>7. ~Settled(s)'
  BY <1>3, ActingSteps DEF Settled, Asked
<1>8. Halfway(p, s) /\ NewSubscription(p)' = NewSubscription(p)
  BY <1>1 DEF Consistent, NewSubscription
<1>9. Halfway(p, s)'
  BY <1>3, <1>8 DEF Halfway
<1>10. ASSUME NEW q \in Caller, q # p, Asked(q)' = s
       PROVE  Halfway(q, s)'
  <2>1. pc[q] \notin Indexing
    BY <1>1, <1>3, <1>10, ActingSteps DEF Consistent, OneIndexing, Asked
  <2> QED BY <1>2, <1>10, <2>1 DEF Halfway, Indexing
<1> QED BY <1>5, <1>6, <1>7, <1>9, <1>10 DEF Consistent

(* From a command's second index key to its end. *)
LEMMA KeepsSecondKey ==
    ASSUME RegistryInv, NEW p \in Caller, NEW s \in Space, s = Asked(p), s \notin disturbed,
           UNCHANGED <<records, index, copy, match, cmd>>, Return(p),
           \/ pc[p] = "userIndex" /\ userIndex' = [userIndex EXCEPT ![cmd[p].user] = @ \cup {s}]
           \/ pc[p] = "userUnindex" /\ userIndex' = [userIndex EXCEPT ![match[p].owner] = @ \ {s}]
    PROVE  Consistent(s)'
<1>1. TypeOK /\ Consistent(s)
  BY DEF RegistryInv
<1>2. pc'[p] = "idle" /\ \A q \in Caller : q # p => pc'[q] = pc[q]
  BY <1>1 DEF Return, GoTo, TypeOK
<1>3. CopyIsRecord(s)'
  BY <1>1 DEF Consistent, CopyIsRecord
<1>4. ReadsHold(s)' /\ OneIndexing(s)'
  BY <1>1, <1>2, ActingSteps DEF Consistent, ReadsHold, OneIndexing, At, Asked
<1>5. Halfway(p, s)
  BY <1>1 DEF Consistent
<1>6. Agree(s)'
  <2>1. CASE /\ pc[p] = "userIndex"
             /\ userIndex' = [userIndex EXCEPT ![cmd[p].user] = @ \cup {s}]
    <3>1. records[s] = NewSubscription(p) /\ s \in index /\ \A u \in User : s \notin userIndex[u]
      BY <1>5, <2>1 DEF Halfway
    <3>2. \A u \in User : s \in userIndex'[u] <=> u = cmd[p].user
      BY <1>1, <2>1, <3>1 DEF TypeOK
    <3> QED BY <1>1, <3>1, <3>2, NewIsSubscription DEF Agree
  <2>2. CASE /\ pc[p] = "userUnindex"
             /\ userIndex' = [userIndex EXCEPT ![match[p].owner] = @ \ {s}]
    <3>1. /\ records[s] = NoSubscription /\ s \notin index
          /\ \A u \in User : s \in userIndex[u] <=> u = match[p].owner
      BY <1>5, <2>2 DEF Halfway
    <3>2. \A u \in User : s \notin userIndex'[u]
      BY <1>1, <2>2, <3>1 DEF TypeOK
    <3> QED BY <3>1, <3>2 DEF Agree
  <2> QED BY <2>1, <2>2
<1>7. ASSUME NEW q \in Caller, Asked(q)' = s
      PROVE  Halfway(q, s)'
  <2>1. q # p => pc[q] \notin Indexing
    BY <1>1, <1>7, ActingSteps DEF Consistent, OneIndexing, Asked
  <2> QED BY <1>2, <1>7, <2>1 DEF Halfway, Indexing
<1> QED BY <1>3, <1>4, <1>6, <1>7 DEF Consistent

LEMMA KeepsIndexing ==
    ASSUME RegistryInv, NEW p \in Caller, NEW s \in Space, s \notin disturbed',
           AddToIndex(p) \/ AddToUserIndex(p) \/ RemoveFromIndex(p) \/ RemoveFromUserIndex(p)
    PROVE  Consistent(s)'
<1>1. TypeOK /\ s \notin disturbed
  BY DEF RegistryInv, AddToIndex, AddToUserIndex, RemoveFromIndex, RemoveFromUserIndex, Disturb
<1>2. Consistent(s)
  BY <1>1 DEF RegistryInv
<1>3. UNCHANGED <<records, copy, match, cmd>>
  BY DEF AddToIndex, AddToUserIndex, RemoveFromIndex, RemoveFromUserIndex, pollVars
<1>4. CASE s # Asked(p)
  <2>1. \E step : GoTo(p, step)
    BY DEF AddToIndex, AddToUserIndex, RemoveFromIndex, RemoveFromUserIndex, Return
  <2>2. s \in index' <=> s \in index
    BY <1>4 DEF AddToIndex, AddToUserIndex, RemoveFromIndex, RemoveFromUserIndex
  <2>3. \A u \in User : s \in userIndex'[u] <=> s \in userIndex[u]
    BY <1>1, <1>4
       DEF AddToIndex, AddToUserIndex, RemoveFromIndex, RemoveFromUserIndex, TypeOK
  <2> QED BY <1>1, <1>2, <1>3, <1>4, <2>1, <2>2, <2>3, CommandElsewhere
<1>5. CASE s = Asked(p)
  <2>1. CASE AddToIndex(p)
    BY <1>1, <1>3, <1>5, <2>1, KeepsFirstKey DEF AddToIndex, Disturb
  <2>2. CASE RemoveFromIndex(p)
    BY <1>1, <1>3, <1>5, <2>2, KeepsFirstKey DEF RemoveFromIndex, Disturb
  <2>3. CASE AddToUserIndex(p)
    BY <1>1, <1>3, <1>5, <2>3, KeepsSecondKey DEF AddToUserIndex, Disturb
  <2>4. CASE RemoveFromUserIndex(p)
    BY <1>1, <1>3, <1>5, <2>4, KeepsSecondKey DEF RemoveFromUserIndex, Disturb
  <2> QED BY <2>1, <2>2, <2>3, <2>4
<1> QED BY <1>4, <1>5

LEMMA KeepsCommandEnd ==
    ASSUME RegistryInv, NEW p \in Caller, ListAll(p) \/ CommandLost(p),
           NEW s \in Space, s \notin disturbed'
    PROVE  Consistent(s)'
<1>1. TypeOK /\ s \notin disturbed
  BY DEF RegistryInv, ListAll, CommandLost, Disturb
<1>2. Consistent(s)
  BY <1>1 DEF RegistryInv
<1>3. UNCHANGED <<records, index, userIndex, copy, match, cmd>>
  BY DEF ListAll, CommandLost, storeVars, pollVars
<1>4. CASE ListAll(p)
  BY <1>1, <1>2, <1>3, <1>4, ActingSteps, CommandElsewhere DEF ListAll, Return
<1>5. CASE CommandLost(p)
  <2>1. Asked(p) = s => pc[p] \notin Indexing
    BY <1>1, <1>5 DEF CommandLost, Disturb
  <2> QED BY <1>1, <1>2, <1>3, <1>5, <2>1, ActingSteps, CommandElsewhere DEF CommandLost, Return
<1> QED BY <1>4, <1>5

LEMMA KeepsPoll ==
    ASSUME RegistryInv, Poll \/ CycleLost, NEW s \in Space, s \notin disturbed'
    PROVE  Consistent(s)'
<1>1. TypeOK /\ disturbed' = disturbed
  BY DEF RegistryInv, Poll, BeginCycle, EndCycle, LoadSubscription, WriteBack,
         FinishSubscription, CycleLost
<1>2. Consistent(s)
  BY <1>1 DEF RegistryInv
<1>3. UNCHANGED <<index, userIndex, pc, cmd, match>>
  BY DEF Poll, BeginCycle, EndCycle, LoadSubscription, WriteBack, FinishSubscription,
         CycleLost, storeVars, commandVars
<1>4. CASE records'[s] = records[s] /\ copy'[s] \in {copy[s], NoSubscription}
  <2>1. \A q \in Caller : Asked(q)' = Asked(q)
    BY <1>3 DEF Asked
  <2> QED BY <1>2, <1>3, <1>4, <2>1, Elsewhere
<1>5. ASSUME NEW t \in Space, LoadSubscription(t)
      PROVE  Consistent(s)'
  <2>1. UNCHANGED records /\ copy'[s] \in {copy[s], records[s]}
    BY <1>1, <1>5 DEF LoadSubscription, storeVars, TypeOK
  <2>2. CASE copy'[s] = copy[s]
    BY <1>4, <2>1, <2>2
  <2>3. CASE copy'[s] = records[s]
    <3>1. CopyIsRecord(s)'
      BY <2>1, <2>3 DEF CopyIsRecord
    <3>2. /\ ReadsHold(s)' <=> ReadsHold(s)
          /\ OneIndexing(s)' <=> OneIndexing(s)
          /\ Settled(s)' <=> Settled(s)
          /\ Agree(s)' <=> Agree(s)
      BY <1>3, <2>1 DEF ReadsHold, OneIndexing, Settled, Agree, At, Asked
    <3>3. \A q \in Caller : Asked(q)' = s => Halfway(q, s)'
      BY <1>2, <1>3, <2>1 DEF Consistent, Halfway, Asked, NewSubscription
    <3> QED BY <1>2, <3>1, <3>2, <3>3 DEF Consistent
  <2> QED BY <2>1, <2>2, <2>3
<1>6. ASSUME NEW t \in Space, WriteBack(t)
      PROVE  Consistent(s)'
  <2>1. UNCHANGED copy
    BY <1>6 DEF WriteBack
  <2>2. records'[s] = records[s]
    BY <1>1, <1>2, <1>6 DEF WriteBack, Consistent, CopyIsRecord, TypeOK
  <2> QED BY <1>4, <2>1, <2>2
<1>7. ASSUME NEW t \in Space, FinishSubscription(t)
      PROVE  Consistent(s)'
  BY <1>1, <1>4, <1>7 DEF FinishSubscription, storeVars, TypeOK
<1>8. CASE BeginCycle \/ EndCycle \/ CycleLost
  BY <1>4, <1>8 DEF BeginCycle, EndCycle, CycleLost, storeVars
<1> QED BY <1>5, <1>6, <1>7, <1>8 DEF Poll

LEMMA RegistryStep ==
    ASSUME RegistryInv, [Next]_vars
    PROVE  RegistryInv'
<1>1. TypeOK'
  BY TypeStep DEF RegistryInv
<1> SUFFICES ASSUME NEW s \in Space, s \notin disturbed'
             PROVE  Consistent(s)'
  BY <1>1 DEF RegistryInv
<1>2. CASE UNCHANGED vars
  BY <1>2
     DEF vars, RegistryInv, Consistent, CopyIsRecord, ReadsHold, OneIndexing, Settled, Agree,
         Halfway, At, Asked, NewSubscription
<1>3. ASSUME NEW p \in Caller, Add(p) \/ Remove(p) \/ CommandLost(p)
      PROVE  Consistent(s)'
  <2>1. CASE GetExisting(p)
    BY <2>1, KeepsGetExisting DEF GetExisting
  <2>2. CASE FindMatch(p)
    BY <2>2, KeepsFindMatch DEF FindMatch
  <2> QED BY <1>3, <2>1, <2>2, KeepsStore, KeepsDelete, KeepsIndexing, KeepsCommandEnd
          DEF Add, Remove
<1>4. ASSUME NEW p \in Caller, NEW u \in User, NEW c \in Channel, NEW t \in Space,
             Issue(p, u, c, t)
      PROVE  Consistent(s)'
  <2>1. TypeOK /\ Consistent(s)
    BY <1>4 DEF Issue, RegistryInv
  <2> QED BY <1>4, <2>1, KeepsIssue
<1> QED BY <1>2, <1>3, <1>4, KeepsPoll DEF Next

LEMMA RegistryInit == Init => RegistryInv
<1> SUFFICES ASSUME Init, NEW s \in Space PROVE Consistent(s)
  BY TypeInit DEF RegistryInv
<1>1. \A p \in Caller : pc[p] = "idle"
  BY DEF Init
<1>2. Agree(s) /\ CopyIsRecord(s)
  BY DEF Init, Agree, CopyIsRecord
<1> QED BY <1>1, <1>2, ActingSteps DEF Consistent, ReadsHold, OneIndexing, Halfway, At

(* Between commands the index, the record and the owner's index of a space   *)
(* agree, for any number of commands, users and polls interleaved, as long   *)
(* as no index update failed and no two of them acted on the space at once.  *)
THEOREM KeysStayInAgreement == Spec => []KeysAgree
<1>1. RegistryInv => KeysAgree
  BY DEF RegistryInv, Consistent, Agree, KeysAgree, ListSubscriptions
<1> QED BY <1>1, RegistryInit, RegistryStep, PTL DEF Spec

-----------------------------------------------------------------------------
(* The commands implement the atomic map *)

ChannelOf == [s \in Space |-> IF records[s] = NoSubscription THEN NoChannel
                              ELSE records[s].channel]

(* A step that leaves the map and the disturbed spaces alone. *)
LEMMA Stutters ==
    ASSUME UNCHANGED records, UNCHANGED disturbed
    PROVE  UNCHANGED Ownership!vars
BY DEF Ownership!vars

(* A step that disturbs s may give it any channel. *)
LEMMA Disturbs ==
    ASSUME TypeOK, TypeOK', NEW s \in Space, Disturb(s),
           \A t \in Space : t # s => records'[t] = records[t]
    PROVE  Ownership!Next
<1>1. ChannelOf' = [ChannelOf EXCEPT ![s] = ChannelOf'[s]]
  BY DEF ChannelOf
<1>2. ChannelOf'[s] \in Channel \cup {NoChannel}
  BY DEF ChannelOf, TypeOK, Subscription
<1>3. Ownership!Disturb(s)
  BY <1>1, <1>2 DEF Ownership!Disturb, Disturb, ChannelOf
<1> QED BY <1>3 DEF Ownership!Next

(* A record for a free space is a channel taking it. *)
LEMMA Subscribes ==
    ASSUME NEW s \in Space, NEW c \in Channel, disturbed' = disturbed,
           records[s] = NoSubscription,
           records'[s] # NoSubscription, records'[s].channel = c,
           \A t \in Space : t # s => records'[t] = records[t]
    PROVE  Ownership!Next
<1>1. ChannelOf[s] = NoChannel /\ ChannelOf' = [ChannelOf EXCEPT ![s] = c]
  BY DEF ChannelOf
<1>2. Ownership!Subscribe(s, c)
  BY <1>1 DEF Ownership!Subscribe, ChannelOf
<1> QED BY <1>2 DEF Ownership!Next

(* A deleted record is a channel giving its space up. *)
LEMMA Unsubscribes ==
    ASSUME NEW s \in Space, disturbed' = disturbed,
           records[s] \in Subscription, records'[s] = NoSubscription,
           \A t \in Space : t # s => records'[t] = records[t]
    PROVE  Ownership!Next
<1>1. records[s] # NoSubscription
  BY NoneAssumption DEF Subscription
<1>2. ChannelOf[s] \in Channel /\ ChannelOf' = [ChannelOf EXCEPT ![s] = NoChannel]
  BY <1>1 DEF ChannelOf, Subscription
<1>3. ChannelOf[s] # NoChannel
  BY <1>2, NoneAssumption
<1>4. Ownership!Unsubscribe(s)
  BY <1>2, <1>3 DEF Ownership!Unsubscribe, ChannelOf
<1> QED BY <1>4 DEF Ownership!Next

LEMMA OwnershipStore ==
    ASSUME RegistryInv, TypeOK', NEW p \in Caller, StoreSubscription(p)
    PROVE  [Ownership!Next]_(Ownership!vars)
<1> DEFINE s == Asked(p)
<1>1. TypeOK /\ s \in Space /\ cmd[p].channel \in Channel
  BY DEF RegistryInv, TypeOK, Asked
<1>2. CASE UNCHANGED records /\ UNCHANGED disturbed
  BY <1>2, Stutters
<1>3. CASE records' = [records EXCEPT ![s] = NewSubscription(p)] /\ NoteOverlap(p)
  <2>1. \A t \in Space : t # s => records'[t] = records[t]
    BY <1>1, <1>3 DEF TypeOK
  <2>2. CASE Disturb(s)
    BY <1>1, <2>1, <2>2, Disturbs
  <2>3. CASE disturbed' = disturbed /\ s \in disturbed
    <3>1. Disturb(s)
      BY <2>3 DEF Disturb
    <3> QED BY <1>1, <2>1, <3>1, Disturbs
  <2>4. CASE disturbed' = disturbed /\ s \notin disturbed
    <3>1. records[s] = NoSubscription
      BY <1>1, <2>4 DEF RegistryInv, Consistent, ReadsHold, At, StoreSubscription
    <3>2. records'[s] = NewSubscription(p) /\ records'[s] # NoSubscription
      BY <1>1, <1>3, NewIsSubscription DEF TypeOK
    <3>3. records'[s].channel = cmd[p].channel
      BY <3>2 DEF NewSubscription
    <3> QED BY <1>1, <2>1, <2>4, <3>1, <3>2, <3>3, Subscribes
  <2> QED BY <1>3, <2>2, <2>3, <2>4 DEF NoteOverlap
<1> QED BY <1>2, <1>3 DEF StoreSubscription

LEMMA OwnershipDelete ==
    ASSUME RegistryInv, TypeOK', NEW p \in Caller, DeleteSubscription(p)
    PROVE  [Ownership!Next]_(Ownership!vars)
<1> DEFINE s == Asked(p)
<1>1. TypeOK /\ s \in Space
  BY DEF RegistryInv, TypeOK, Asked
<1>2. CASE UNCHANGED records /\ UNCHANGED disturbed
  BY <1>2, Stutters
<1>3. CASE records' = [records EXCEPT ![s] = NoSubscription] /\ NoteOverlap(p)
  <2>1. /\ records'[s] = NoSubscription
        /\ \A t \in Space : t # s => records'[t] = records[t]
    BY <1>1, <1>3 DEF TypeOK
  <2>2. CASE Disturb(s)
    BY <1>1, <2>1, <2>2, Disturbs
  <2>3. CASE disturbed' = disturbed /\ s \in disturbed
    <3>1. Disturb(s)
      BY <2>3 DEF Disturb
    <3> QED BY <1>1, <2>1, <3>1, Disturbs
  <2>4. CASE disturbed' = disturbed /\ s \notin disturbed
    <3>1. records[s] \in Subscription
      BY <1>1, <2>4
         DEF RegistryInv, Consistent, ReadsHold, At, DeleteSubscription, TypeOK
    <3> QED BY <1>1, <2>1, <2>4, <3>1, Unsubscribes
  <2> QED BY <1>3, <2>2, <2>3, <2>4 DEF NoteOverlap
<1> QED BY <1>2, <1>3 DEF DeleteSubscription

(* A write-back changes no channel but of a disturbed space. *)
LEMMA OwnershipWriteBack ==
    ASSUME RegistryInv, TypeOK', NEW s \in Space, WriteBack(s)
    PROVE  [Ownership!Next]_(Ownership!vars)
<1>1. TypeOK /\ disturbed' = disturbed
  BY DEF RegistryInv, WriteBack
<1>2. \A t \in Space : t # s => records'[t] = records[t]
  BY <1>1 DEF WriteBack, TypeOK
<1>3. CASE s \in disturbed
  <2>1. Disturb(s)
    BY <1>1, <1>3 DEF Disturb
  <2> QED BY <1>1, <1>2, <2>1, Disturbs
<1>4. CASE s \notin disturbed
  <2>1. records'[s] = records[s]
    BY <1>1, <1>4 DEF WriteBack, RegistryInv, Consistent, CopyIsRecord, TypeOK
  <2>2. records' = records
    BY <1>1, <1>2, <2>1 DEF TypeOK
  <2> QED BY <1>1, <2>2, Stutters
<1> QED BY <1>3, <1>4

LEMMA OwnershipStep ==
    ASSUME RegistryInv, [Next]_vars
    PROVE  [Ownership!Next]_(Ownership!vars)
<1>1. TypeOK /\ TypeOK'
  BY TypeStep DEF RegistryInv
<1>2. CASE UNCHANGED records /\ UNCHANGED disturbed
  BY <1>2, Stutters
<1>3. ASSUME NEW p \in Caller, UNCHANGED records, Disturb(Asked(p))
      PROVE  [Ownership!Next]_(Ownership!vars)
  <2>1. Asked(p) \in Space
    BY <1>1 DEF TypeOK, Asked
  <2> QED BY <1>1, <1>3, <2>1, Disturbs
<1>4. CASE UNCHANGED vars
  BY <1>2, <1>4 DEF vars
<1>5. ASSUME NEW p \in Caller, Add(p) \/ Remove(p) \/ CommandLost(p)
      PROVE  [Ownership!Next]_(Ownership!vars)
  <2>1. CASE StoreSubscription(p)
    BY <1>1, <2>1, OwnershipStore
  <2>2. CASE DeleteSubscription(p)
    BY <1>1, <2>2, OwnershipDelete
  <2>3. CASE \/ GetExisting(p) \/ ListAll(p) \/ FindMatch(p)
    BY <1>2, <2>3 DEF GetExisting, ListAll, FindMatch, storeVars
  <2>4. CASE \/ AddToIndex(p) \/ AddToUserIndex(p) \/ RemoveFromIndex(p)
             \/ RemoveFromUserIndex(p) \/ CommandLost(p)
    BY <1>2, <1>3, <2>4
       DEF AddToIndex, AddToUserIndex, RemoveFromIndex, RemoveFromUserIndex, CommandLost,
           storeVars
  <2> QED BY <1>5, <2>1, <2>2, <2>3, <2>4 DEF Add, Remove
<1>6. ASSUME NEW p \in Caller, NEW u \in User, NEW c \in Channel, NEW s \in Space,
             Issue(p, u, c, s)
      PROVE  [Ownership!Next]_(Ownership!vars)
  BY <1>2, <1>6 DEF Issue, storeVars
<1>7. CASE Poll \/ CycleLost
  <2>1. ASSUME NEW s \in Space, WriteBack(s)
        PROVE  [Ownership!Next]_(Ownership!vars)
    BY <1>1, <2>1, OwnershipWriteBack
  <2> QED BY <1>2, <1>7, <2>1
          DEF Poll, BeginCycle, EndCycle, LoadSubscription, FinishSubscription, CycleLost,
              storeVars
<1> QED BY <1>4, <1>5, <1>6, <1>7 DEF Next

(* AddSubscription and RemoveSubscription, made of KV calls that interleave  *)
(* with each other and with the poller's write-backs, implement the atomic   *)
(* map: the channel of an undisturbed space is taken and given up in one     *)
(* step, and no write-back changes it.                                       *)
THEOREM CommandsAreAtomic == Spec => ImplementsOwnership
<1>1. Init => Ownership!Init
  BY DEF Init, Ownership!Init
<1> QED BY <1>1, RegistryInit, RegistryStep, OwnershipStep, PTL
        DEF Spec, ImplementsOwnership, Ownership!Spec
=============================================================================
