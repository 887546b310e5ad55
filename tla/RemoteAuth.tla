----------------------------- MODULE RemoteAuth -----------------------------
(***************************************************************************)
(* How another service of the system authorises requests: the AuthClient   *)
(* of the framework asks the security service about a session token or an  *)
(* API key, keeps the answers in two caches whose entries live for twenty  *)
(* minutes, and drops an entry when a remove-token event says so.  The     *)
(* security service is module ApiKeys together with the sessions: their    *)
(* rows and the TokenCache in front of them, where a lookup stores what it *)
(* read some time ago (SessionStore has the lookups of each handler).  Only *)
(* IsValidToken and Logout take AuthService::Mutex_; a refresh and the     *)
(* other lookups take none.  Events may be lost, requests may time out.    *)
(***************************************************************************)
EXTENDS ApiKeys

CONSTANTS Tokens,     \* session tokens
          Sessions,   \* those with a row at start
          TokenUser,  \* the user of each
          TokenEnd,   \* created + expires: the last second of each
          Presented,  \* the API keys that requests to the other service carry
          MaxWork,    \* bound: requests to the security service itself
          None

ASSUME TokensAssumption == /\ IsFiniteSet(Tokens)
                           /\ Sessions \subseteq Tokens
                           /\ TokenUser \in [Tokens -> Users]
                           /\ TokenEnd \in [Tokens -> Times]
                           /\ Tokens \cap Keys = {}
                           /\ Presented \subseteq Keys
                           /\ MaxWork \in Nat
                           /\ None \notin Tokens \cup Keys

Creds == Tokens \cup Keys

VARIABLES
  rows,      \* the tokens in the table of sessions
  held,      \* the tokens in the TokenCache of the security service
  reads,     \* for each token the lookups that have read its row, not yet cached
  refreshes, \* refreshes under way: the token, and the new one once the row has it
  fresh,     \* the tokens not given out
  work,      \* how many requests there were
  cache,     \* AuthClient::Cache_: the tokens in it
  keyCache,  \* AuthClient::ApiKeyCache_: [apiKey, expiresOn]
  ask,       \* the request that waits for the security service
  excused    \* history: cached credentials that were revoked past the events

tokenVars == <<rows, held, reads, refreshes, fresh, work>>

clientVars == <<cache, keyCache, ask>>

vars == <<keyVars, tokenVars, clientVars, excused>>

NoAsk == [cred |-> None, answer |-> "none", until |-> 0]

Answers == {"none", "waiting", "read", "refused", "granted"}

TypeOK ==
  /\ KeyTypeOK
  /\ bus \in Seq(Creds)
  /\ rows \subseteq Tokens
  /\ held \subseteq Tokens
  /\ reads \in [Tokens -> Nat]
  /\ refreshes \subseteq [old : Tokens, new : Tokens \cup {None}]
  /\ fresh \subseteq Tokens
  /\ work \in Nat
  /\ cache \subseteq Tokens
  /\ keyCache \subseteq [apiKey : Keys, expiresOn : Times]
  /\ ask \in [cred : Creds \cup {None}, answer : Answers, until : Times]
  /\ ask.answer = "read" => ask.cred \in Tokens
  /\ excused \subseteq Creds

Init ==
  /\ KeyInit
  /\ rows = Sessions
  /\ held = {}
  /\ reads = [c \in Tokens |-> 0]
  /\ refreshes = {}
  /\ fresh = Tokens \ Sessions
  /\ work = 0
  /\ cache = {}
  /\ keyCache = {}
  /\ ask = NoAsk
  /\ excused = {}

(* What the security service answers for: the session is in its cache or   *)
(* its table, and the user exists.                                         *)
Valid(c) == \/ c \in rows \cup held /\ TokenUser[c] \in userDB
            \/ \E e \in keyDB : e.apiKey = c /\ e.userUuid \in userDB

Cached(c) == c \in cache \/ \E e \in keyCache : e.apiKey = c

InFlight(c) == ask.cred = c /\ ask.answer = "granted"

Held(S) == {c \in S : Cached(c) \/ InFlight(c)}

----------------------------------------------------------------------------
Work == work < MaxWork /\ work' = work + 1

KeyStep ==
  /\ KeyNext
  /\ IF \E t \in Threads : req[t] = Idle /\ req'[t] # Idle THEN Work ELSE UNCHANGED work
  /\ UNCHANGED <<rows, held, reads, refreshes, fresh, clientVars, excused>>

(* A request of the security service itself, or the first read of a        *)
(* refresh: GetRecord does not find the session in the cache and reads the *)
(* row ...                                                                 *)
ReadRow(c) ==
  /\ c \in rows \ held
  /\ reads' = [reads EXCEPT ![c] = @ + 1]
  /\ Work
  /\ UNCHANGED <<keyVars, rows, held, refreshes, fresh, clientVars, excused>>

(* ... and stores it, whatever has become of the row.                      *)
CacheRow(c) ==
  /\ reads[c] > 0
  /\ reads' = [reads EXCEPT ![c] = @ - 1]
  /\ held' = held \cup {c}
  /\ UNCHANGED <<keyVars, rows, refreshes, fresh, work, clientVars, excused>>

(* An entry of the TokenCache reaches its age.  When it was all that was   *)
(* left of a session, no event tells the other services.                   *)
AgeHeld(c) ==
  /\ c \in held
  /\ held' = held \ {c}
  /\ excused' = IF c \in rows THEN excused ELSE excused \cup Held({c})
  /\ UNCHANGED <<keyVars, rows, reads, refreshes, fresh, work, clientVars>>

(* The archiver: CleanExpiredTokens deletes rows and nothing else.         *)
CleanExpiredTokens ==
  LET over == {c \in rows : TokenEnd[c] <= now}
  IN  /\ over # {}
      /\ rows' = rows \ over
      /\ excused' = excused \cup Held(over \ held)
      /\ UNCHANGED <<keyVars, held, reads, refreshes, fresh, work, clientVars>>

(* Logout: the row, the event and the cached entry.  It holds the mutex of *)
(* IsValidToken, which is not between its read and its answer.             *)
Logout(c) ==
  /\ c \in rows \cup held
  /\ ask.answer # "read"
  /\ rows' = rows \ {c}
  /\ held' = held \ {c}
  /\ Post(<<c>>)
  /\ Work
  /\ UNCHANGED <<now, userDB, keyDB, lastId, req, reads, refreshes, fresh, clientVars,
                 excused>>

(* BaseTokenDB::RefreshToken finds the session in the cache: a row it has   *)
(* to read first is a ReadRow and a CacheRow;                              *)
StartRefresh(c) ==
  /\ c \in held
  /\ [old |-> c, new |-> None] \notin refreshes
  /\ refreshes' = refreshes \cup {[old |-> c, new |-> None]}
  /\ Work
  /\ UNCHANGED <<keyVars, rows, held, reads, fresh, clientVars, excused>>

(* UpdateRecord gives the row, if it is still there, the new token, and    *)
(* caches the record under it in any case;                                 *)
RefreshRow(r, n) ==
  /\ r \in refreshes /\ r.new = None
  /\ n \in fresh /\ TokenUser[n] = TokenUser[r.old]
  /\ rows' = IF r.old \in rows THEN (rows \ {r.old}) \cup {n} ELSE rows
  /\ held' = held \cup {n}
  /\ fresh' = fresh \ {n}
  /\ refreshes' = (refreshes \ {r}) \cup {[old |-> r.old, new |-> n]}
  /\ UNCHANGED <<keyVars, reads, work, clientVars, excused>>

(* only then is the old token announced and taken out of the cache, and    *)
(* the new one stored once more.                                           *)
RefreshDelete(r) ==
  /\ r \in refreshes /\ r.new # None
  /\ held' = (held \ {r.old}) \cup {r.new}
  /\ Post(<<r.old>>)
  /\ refreshes' = refreshes \ {r}
  /\ UNCHANGED <<now, userDB, keyDB, lastId, req, rows, reads, fresh, work, clientVars,
                 excused>>

(* The orders in which the cache can list the tokens of a user.            *)
Announcements(S) ==
  {q \in [1..Cardinality(S) -> S] : \A c \in S : \E n \in DOMAIN q : q[n] = c}

(* The end of a user's deletion.  RevokeAllTokens deletes the rows of the  *)
(* sessions, and announces and removes those that the cache holds.         *)
RevokeAll(t) ==
  LET gone == {c \in rows : TokenUser[c] = req[t].userUuid}
      told == {c \in held : TokenUser[c] = req[t].userUuid}
  IN  /\ req[t].op = "user"
      /\ \E a \in Announcements(told) : RemoveAllApiKeys(t, a)
      /\ rows' = rows \ gone
      /\ held' = held \ told
      /\ excused' = excused \cup Held(gone \ told)
      /\ UNCHANGED <<reads, refreshes, fresh, work, clientVars>>

Verdict(c) == IF TokenUser[c] \in userDB THEN "granted" ELSE "refused"

(* validateToken, which does not look at the expiry: the cache, or nothing, *)
(* or the row ...                                                          *)
AnswerToken ==
  LET c == ask.cred
  IN  /\ c \in Tokens /\ ask.answer = "waiting"
      /\ \/ c \in held /\ ask' = [ask EXCEPT !.answer = Verdict(c)]
         \/ c \notin held \cup rows /\ ask' = [ask EXCEPT !.answer = "refused"]
         \/ c \in rows \ held /\ ask' = [ask EXCEPT !.answer = "read"]
      /\ UNCHANGED <<keyVars, tokenVars, cache, keyCache, excused>>

(* ... which is stored first.                                              *)
AnswerRead ==
  /\ ask.answer = "read"
  /\ held' = held \cup {ask.cred}
  /\ ask' = [ask EXCEPT !.answer = Verdict(ask.cred)]
  /\ UNCHANGED <<keyVars, rows, reads, refreshes, fresh, work, cache, keyCache, excused>>

(* validateApiKey.  A key that DoDelete has announced and not yet deleted  *)
(* still gets a positive answer, which no event will take back.            *)
AnswerApiKey ==
  /\ ask.cred \in Keys /\ ask.answer = "waiting"
  /\ \/ \E e \in keyDB :
          /\ IsValidApiKey(ask.cred, e)
          /\ ask' = [ask EXCEPT !.answer = "granted", !.until = e.expiresOn]
          /\ excused' = excused \cup {req[t].apiKey : t \in {w \in Threads :
                             req[w].op = "delete" /\ req[w].apiKey = ask.cred}}
     \/ /\ \/ \A e \in keyDB : e.apiKey # ask.cred
           \/ \E e \in keyDB : e.apiKey = ask.cred /\ ~IsValidApiKey(ask.cred, e)
        /\ ask' = [ask EXCEPT !.answer = "refused"]
        /\ UNCHANGED excused
  /\ UNCHANGED <<keyVars, tokenVars, cache, keyCache>>

----------------------------------------------------------------------------
(* The other service.                                                      *)
Ask(c) == ask' = [cred |-> c, answer |-> "waiting", until |-> 0]

Expired(c) == TokenEnd[c] < now

(* AuthClient::IsAuthorized up to the call of the security service.  The   *)
(* request with an unexpired token from the cache is let through and       *)
(* changes nothing.                                                        *)
IsAuthorized(c) ==
  /\ ask = NoAsk
  /\ \/ /\ c \in cache /\ Expired(c)
        /\ cache' = cache \ {c}
        /\ excused' = excused \ {c}
        /\ UNCHANGED ask
     \/ /\ c \notin cache
        /\ Ask(c)
        /\ UNCHANGED <<cache, excused>>
  /\ UNCHANGED <<keyVars, tokenVars, keyCache>>

(* AuthClient::IsValidApiKey: the entry is used when the key HAS expired,  *)
(* and dropped for a new question as long as it has not.                   *)
UseKeyEntry(e) == e.expiresOn < now

CheckApiKey(k) ==
  /\ ask = NoAsk
  /\ \/ \E e \in keyCache :
          /\ e.apiKey = k
          /\ UseKeyEntry(e)
          /\ UNCHANGED <<keyCache, ask, excused>>
     \/ /\ \A e \in keyCache : e.apiKey = k => ~UseKeyEntry(e)
        /\ keyCache' = {e \in keyCache : e.apiKey # k}
        /\ excused' = excused \ {k}
        /\ Ask(k)
  /\ UNCHANGED <<keyVars, tokenVars, cache>>

(* The answer arrives: RetrieveTokenInformation looks at the expiry,       *)
(* RetrieveApiKeyInformation does not.                                     *)
Receive ==
  /\ ask.answer \in {"refused", "granted"}
  /\ ask' = NoAsk
  /\ LET c == ask.cred
         granted == ask.answer = "granted"
     IN  /\ cache' = IF granted /\ c \in Tokens /\ ~Expired(c)
                     THEN cache \cup {c} ELSE cache
         /\ keyCache' = IF granted /\ c \in Keys
                        THEN {e \in keyCache : e.apiKey # c}
                               \cup {[apiKey |-> c, expiresOn |-> ask.until]}
                        ELSE keyCache
         /\ excused' = IF granted /\ c \in Tokens /\ Expired(c)
                       THEN excused \ {c} ELSE excused
  /\ UNCHANGED <<keyVars, tokenVars>>

(* HTTP_GATEWAY_TIMEOUT after ten seconds: the answer, if any, is lost; an *)
(* entry that the security service still stores for it is a CacheRow.      *)
TimeOut ==
  /\ ask # NoAsk
  /\ ask' = NoAsk
  /\ excused' = IF Cached(ask.cred) THEN excused ELSE excused \ {ask.cred}
  /\ UNCHANGED <<keyVars, tokenVars, cache, keyCache>>

(* A variant that forgets the keys.                                        *)
RemovedCachedTokenOnly ==
  LET c == Head(bus)
  IN  /\ bus # <<>>
      /\ bus' = Tail(bus)
      /\ cache' = cache \ {c}
      /\ excused' = IF InFlight(c) THEN excused \cup {c} ELSE excused \ {c}
      /\ UNCHANGED <<now, userDB, keyDB, lastId, req, tokenVars, keyCache, ask>>

(* BusMessageReceived, EVENT_REMOVE_TOKEN: RemovedCachedToken takes the    *)
(* value out of both caches, but not out of an answer on its way.          *)
RemovedCachedToken ==
  LET c == Head(bus)
  IN  /\ bus # <<>>
      /\ bus' = Tail(bus)
      /\ cache' = cache \ {c}
      /\ keyCache' = {e \in keyCache : e.apiKey # c}
      /\ excused' = IF InFlight(c) THEN excused \cup {c} ELSE excused \ {c}
      /\ UNCHANGED <<now, userDB, keyDB, lastId, req, tokenVars, ask>>

(* An event that does not arrive: the bus is off or the producer stopped.  *)
LoseEvent ==
  /\ bus # <<>>
  /\ bus' = Tail(bus)
  /\ excused' = excused \cup Held({Head(bus)})
  /\ UNCHANGED <<now, userDB, keyDB, lastId, req, tokenVars, clientVars>>

(* A variant with tokens in a cache without an age, Poco::LRUCache.        *)
AgeKeys(c) ==
  /\ c \in Keys
  /\ Cached(c)
  /\ keyCache' = {e \in keyCache : e.apiKey # c}
  /\ excused' = IF InFlight(c) THEN excused ELSE excused \ {c}
  /\ UNCHANGED <<keyVars, tokenVars, cache, ask>>

(* Poco::ExpireLRUCache: an entry ends twenty minutes after it was stored, *)
(* used or not.                                                            *)
Age(c) ==
  /\ Cached(c)
  /\ cache' = cache \ {c}
  /\ keyCache' = {e \in keyCache : e.apiKey # c}
  /\ excused' = IF InFlight(c) THEN excused ELSE excused \ {c}
  /\ UNCHANGED <<keyVars, tokenVars, ask>>

Next ==
  \/ KeyStep
  \/ \E c \in Tokens :
       \/ ReadRow(c) \/ CacheRow(c) \/ AgeHeld(c)
       \/ Logout(c) \/ StartRefresh(c) \/ IsAuthorized(c)
  \/ CleanExpiredTokens
  \/ \E r \in refreshes, n \in Tokens : RefreshRow(r, n)
  \/ \E r \in refreshes : RefreshDelete(r)
  \/ \E t \in Threads : RevokeAll(t)
  \/ AnswerToken
  \/ AnswerRead
  \/ AnswerApiKey
  \/ \E k \in Presented : CheckApiKey(k)
  \/ Receive
  \/ TimeOut
  \/ RemovedCachedToken
  \/ LoseEvent
  \/ \E c \in Creds : Age(c)

Spec == Init /\ [][Next]_vars

(* Entries of the caches reach their age, and a request comes to its end   *)
(* by an answer or by the time-out.                                        *)
FairSpec == /\ Spec
            /\ WF_vars(Receive \/ TimeOut)
            /\ \A c \in Creds : WF_vars(Age(c))
            /\ \A c \in Tokens : WF_vars(AgeHeld(c))

----------------------------------------------------------------------------
(* The events of credentials that are no longer valid and not yet told.    *)
Pending(c) ==
  \/ \E n \in DOMAIN bus : bus[n] = c
  \/ \E r \in refreshes : r.old = c /\ r.new # None
  \/ \E t \in Threads : /\ req[t].op = "user"
                        /\ \/ c \in rows \cup held /\ TokenUser[c] = req[t].userUuid
                           \/ \E e \in KeysOf(req[t].userUuid) : e.apiKey = c

(* What RemovedCachedToken is for.  A credential that another service      *)
(* still holds is one that the security service still answers for, or its  *)
(* removal is on the way, or it is one of the cases the events cannot      *)
(* cover: the event was lost, the session was not in the cache that        *)
(* RevokeAllTokens announces from, or had run out and was cleaned up, or   *)
(* was stored in that cache once more after its revocation and aged, or    *)
(* the answer was under way when the event came.                           *)
CachesFollowRevocation ==
  \A c \in Creds : Cached(c) => Valid(c) \/ Pending(c) \/ c \in excused

(* A session whose row is gone; a key whose row is gone, when its second   *)
(* is over.  Neither comes back.                                           *)
Revoked(c) ==
  \/ c \in Tokens \ (rows \cup fresh)
  \/ c \in Keys /\ c[1] < now /\ \A e \in keyDB : e.apiKey # c

(* Whatever is lost or raced, a revoked session or key stays in the cache  *)
(* of another service no longer than entries live there and in the cache   *)
(* of the security service: also the entry of a key that has expired,      *)
(* which AuthClient::IsValidApiKey uses without a question, goes, and no   *)
(* later answer brings it back.                                            *)
RevokedLeaves ==
  \A c \in Tokens \cup Presented : <>[](Revoked(c) => ~Cached(c))
=============================================================================
