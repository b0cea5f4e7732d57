-------------------------- MODULE MCAdHocMeetings --------------------------
(* Small instances of AdHocMeetings for TLC: one meeting with two            *)
(* conferences, the second of which a subscription silences.                *)
EXTENDS AdHocMeetings, TLC

CONSTANTS m1, c1, c2, rec1, notes1, notes2

OneMeeting == {m1}
TwoConfs == {c1, c2}
MeetingOfTwo == c1 :> m1 @@ c2 :> m1
Silenced == {c2}
None == {}

(* The first conference has a recording and notes, the second one notes.     *)
ThreeFiles == {rec1, notes1, notes2}
TwoAndOne == rec1 :> c1 @@ notes1 :> c1 @@ notes2 :> c2
KindOfThree == rec1 :> 1 @@ notes1 :> 3 @@ notes2 :> 3
=============================================================================
