---------------------------- MODULE MCRemoteAuth ----------------------------
(* Values for TLC: a root and a user with a session and, by a refresh, its    *)
(* next; one key is the limit, so that two requests exceed it.               *)
EXTENDS RemoteAuth

CONSTANTS root, u1, k1, k2, t1, t2

MCUsers == {root, u1}
MCTokens == {k1, k2}
MCSessions == {k1}
MCThreads == {t1, t2}
MCLower == [s \in Spellings |-> "a"]
MCTokenUser == [c \in MCTokens |-> u1]
MCPresented == {<<0, root>>}
MCTokenEnd == [c \in MCTokens |-> 0]
=============================================================================
