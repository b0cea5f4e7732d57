-------------------------- MODULE MCConferencePoll --------------------------
(* Small instances of ConferencePoll for TLC: one calendar event per model    *)
(* value, its times given here; conferences are interchangeable.             *)
EXTENDS ConferencePoll, TLC

CONSTANTS c1, c2, c3, i1

TwoConferences == {c1, c2}
ThreeConferences == {c1, c2, c3}

(* An event that begins at 3, so that one can join before and after.         *)
OneEvent == {i1}
OneEventStart == i1 :> 3
OneEventEnd == i1 :> 4

(* An event that begins at 4: with a window of 1, what starts at 1 or 2 is     *)
(* unscheduled, 3 is early, 4 and 5 are not.                                *)
LateEvent == {i1}
LateEventStart == i1 :> 4
LateEventEnd == i1 :> 5

Symmetry2 == Permutations(TwoConferences)
Symmetry3 == Permutations(ThreeConferences)
=============================================================================
