----------------------- MODULE MCSubscriptionRegistry -----------------------
(* Small instances of SubscriptionRegistry for TLC.                          *)
EXTENDS SubscriptionRegistry, TLC

CONSTANTS s1, s2, a, b, u1, u2, p1, p2

OneSpace == {s1}
TwoSpaces == {s1, s2}
TwoChannels == {a, b}
TwoUsers == {u1, u2}
TwoCallers == {p1, p2}
=============================================================================
