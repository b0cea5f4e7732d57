--------------------------- MODULE MCOAuthTokens ---------------------------
(* One user, whose request, OAuth callback, poll cycle and settings overlap. *)
EXTENDS OAuthTokens, TLC

CONSTANTS h1, h2, f1, k1, k2

OneRequester == {h1}
OneBrowser == {h2}
OneFlow == {f1}
OneKey == {k1}
TwoKeys == {k1, k2}
=============================================================================
