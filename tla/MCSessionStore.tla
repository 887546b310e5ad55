--------------------------- MODULE MCSessionStore ---------------------------
(* Model values of the session store for TLC.  Tokens are used once, so two  *)
(* of them are a session and its refresh, or two sessions of the user.       *)
EXTENDS SessionStore

CONSTANTS u1, k1, k2, t1, t2

MCUsers == {u1}
MCTokens == {k1, k2}
MCThreads == {t1, t2}
=============================================================================
