---------------------------- MODULE SessionStore ----------------------------
(***************************************************************************)
(* The session store of the security service: the token table and the user *)
(* table, the caches in front of them (TokenCache, UserCache), and the     *)
(* REST threads that use them.  orm.h takes no lock across the cache probe,*)
(* the select and the cache fill of GetRecord, and DeleteRecord and        *)
(* UpdateRecord touch the cache before their transaction commits, so every *)
(* one of those is a step of its own here.                                 *)
(*                                                                         *)
(* A token row is [user, refresh]: the owner (field userName, which holds  *)
(* the user's id) and the refresh token.  A refresh token never changes    *)
(* during a session - lastRefresh stays 0, so RefreshUserToken never       *)
(* rotates it - and it therefore names the session; it is modelled by the  *)
(* access token that was issued with it.                                   *)
(* The user and the subscriber side are the same code over other tables.   *)
(***************************************************************************)
EXTENDS Naturals, FiniteSets

CONSTANTS Users,     \* ids of the user records that exist at start
          Tokens,    \* access tokens GenerateTokenHMAC can return
          Threads,   \* REST server threads
          Requests,  \* the kinds of request that are sent, the archiver's included
          None       \* no row, no token, no user, no thread

Row == [user : Users, refresh : Tokens]

RequestKinds == {"auth", "refresh", "logout", "login", "edit", "delete", "archive"}

ASSUME RequestsAssumption == Requests \subseteq RequestKinds

ASSUME NoneAssumption == /\ None \notin Users
                         /\ None \notin Tokens
                         /\ None \notin Threads
                         /\ None \notin Row

VARIABLES
  tokenDB,     \* the committed rows of the token table
  tokenCache,  \* TokenCache::CacheByToken_
  userDB,      \* the committed rows of the user table
  userCache,   \* UserCache::CacheById_ and CacheByEMail_
  issued,      \* every token generated so far
  rowLock,     \* the thread with an uncommitted write on a token row
  authLock,    \* the login or logout that holds AuthService::Mutex_; that other
               \* calls take it too, IsValidToken for one, only orders them more
  pc,          \* where each thread is
  op,          \* what it is doing
  arg,         \* the token of its request
  new,         \* the token a refresh generated
  usr,         \* the user record it works on
  row          \* the token row it has read

threadVars == <<pc, op, arg, new, usr, row>>

vars == <<tokenDB, tokenCache, userDB, userCache, issued, rowLock,
          authLock, threadVars>>

PCs == {"idle", "lookup", "select", "store", "user", "uselect", "ustore",
        "granted", "check", "update", "ucommit", "rdrop", "rstore", "answered",
        "hash", "insert", "lexec", "lcommit", "eupdate",
        "dexec", "dcommit", "dcache", "drows", "dfinal"}

OpKinds == RequestKinds \cup {"none", "renew", "reread"}

TypeOK ==
  /\ tokenDB \in [Tokens -> Row \cup {None}]
  /\ tokenCache \in [Tokens -> Row \cup {None}]
  /\ userDB \subseteq Users
  /\ userCache \subseteq Users
  /\ issued \subseteq Tokens
  /\ rowLock \in [Tokens -> Threads \cup {None}]
  /\ authLock \in Threads \cup {None}
  /\ pc \in [Threads -> PCs]
  /\ op \in [Threads -> OpKinds]
  /\ arg \in [Threads -> Tokens \cup {None}]
  /\ new \in [Threads -> Tokens \cup {None}]
  /\ usr \in [Threads -> Users \cup {None}]
  /\ row \in [Threads -> Row \cup {None}]

Init ==
  /\ tokenDB = [k \in Tokens |-> None]
  /\ tokenCache = [k \in Tokens |-> None]
  /\ userDB = Users
  /\ userCache = {}
  /\ issued = {}
  /\ rowLock = [k \in Tokens |-> None]
  /\ authLock = None
  /\ pc = [t \in Threads |-> "idle"]
  /\ op = [t \in Threads |-> "none"]
  /\ arg = [t \in Threads |-> None]
  /\ new = [t \in Threads |-> None]
  /\ usr = [t \in Threads |-> None]
  /\ row = [t \in Threads |-> None]

-----------------------------------------------------------------------------
(* Control of a thread *)

\* A token some client has: a token being generated by a refresh is not out yet.
Known(k) == k \in issued /\ \A t \in Threads : new[t] # k

\* A request of kind o for token k or user u starts at step p.
Begin(t, o, p, k, u) ==
  /\ pc[t] = "idle"
  /\ o \in Requests
  /\ pc' = [pc EXCEPT ![t] = p]
  /\ op' = [op EXCEPT ![t] = o]
  /\ arg' = [arg EXCEPT ![t] = k]
  /\ usr' = [usr EXCEPT ![t] = u]
  /\ UNCHANGED <<new, row>>

Goto(t, p) ==
  /\ pc' = [pc EXCEPT ![t] = p]
  /\ UNCHANGED <<op, arg, new, usr, row>>

\* The handler returns: its locals are gone.
Return(t) ==
  /\ pc' = [pc EXCEPT ![t] = "idle"]
  /\ op' = [op EXCEPT ![t] = "none"]
  /\ arg' = [arg EXCEPT ![t] = None]
  /\ new' = [new EXCEPT ![t] = None]
  /\ usr' = [usr EXCEPT ![t] = None]
  /\ row' = [row EXCEPT ![t] = None]

\* TokenCache::Delete("userName", u): every cached token of the user.
WithoutUser(cache, u) ==
  [k \in Tokens |-> IF cache[k] # None /\ cache[k].user = u
                      THEN None ELSE cache[k]]

-----------------------------------------------------------------------------
(* GetRecord("token", ...) for GetToken (auth, refresh) and RefreshToken    *)
(* (renew).                                                                 *)

\* Mutant: a valid token is enough, its user is not looked up.
AfterTokenNoUser(o) == CASE o = "auth"    -> "granted"
                         [] o = "refresh" -> "check"
                         [] o = "renew"   -> "update"

\* Where a thread goes on once GetRecord has returned the row.
AfterToken(o) == CASE o = "auth"    -> "user"
                   [] o = "refresh" -> "check"
                   [] o = "renew"   -> "update"

HaveRow(t, r, p) ==
  /\ pc' = [pc EXCEPT ![t] = p]
  /\ row' = [row EXCEPT ![t] = IF p = "user" THEN None ELSE r]
  /\ usr' = [usr EXCEPT ![t] = r.user]
  /\ UNCHANGED <<op, arg, new>>

\* Not found: IsAuthorized and RefreshUserToken refuse.  In the second read of
\* a refresh RefreshToken returns false, RefreshUserToken ignores the result
\* and the client is answered with the new token.
NotFound(t) ==
  IF op[t] = "renew" THEN Goto(t, "answered") ELSE Return(t)

TokenLookup(t) ==
  /\ pc[t] = "lookup"
  /\ IF tokenCache[arg[t]] # None
       THEN HaveRow(t, tokenCache[arg[t]], AfterToken(op[t]))
       ELSE Goto(t, "select")
  /\ UNCHANGED <<tokenDB, tokenCache, userDB, userCache, issued,
                 rowLock, authLock>>

TokenSelect(t) ==
  /\ pc[t] = "select"
  /\ IF tokenDB[arg[t]] # None
       THEN HaveRow(t, tokenDB[arg[t]], "store")
       ELSE NotFound(t)
  /\ UNCHANGED <<tokenDB, tokenCache, userDB, userCache, issued,
                 rowLock, authLock>>

TokenStore(t) ==
  /\ pc[t] = "store"
  /\ tokenCache' = [tokenCache EXCEPT ![arg[t]] = row[t]]
  /\ Goto(t, AfterToken(op[t]))
  /\ UNCHANGED <<tokenDB, userDB, userCache, issued, rowLock, authLock>>

-----------------------------------------------------------------------------
(* GetRecord on the user table: GetUserById, and GetUserByEmail at login.   *)

AfterUser(o) == CASE o = "auth"   -> "granted"
                  [] o = "login"  -> "hash"
                  [] o = "edit"   -> "eupdate"
                  [] o = "delete" -> "dexec"
                  [] o = "reread" -> "answered"

UserLookup(t) ==
  /\ pc[t] = "user"
  /\ Goto(t, IF usr[t] \in userCache THEN AfterUser(op[t]) ELSE "uselect")
  /\ UNCHANGED <<tokenDB, tokenCache, userDB, userCache, issued,
                 rowLock, authLock>>

UserSelect(t) ==
  /\ pc[t] = "uselect"
  /\ IF usr[t] \in userDB
       THEN Goto(t, "ustore") /\ UNCHANGED authLock
       ELSE /\ Return(t)
            /\ authLock' = IF authLock = t THEN None ELSE authLock
  /\ UNCHANGED <<tokenDB, tokenCache, userDB, userCache, issued,
                 rowLock>>

\* UserCache::UpdateCache also drops the user's tokens from the token cache.
\* The two caches have their own locks; doing both in one step hides nothing,
\* as an entry of the token cache may be evicted at any time.
UserStore(t) ==
  /\ pc[t] = "ustore"
  /\ userCache' = userCache \cup {usr[t]}
  /\ tokenCache' = WithoutUser(tokenCache, usr[t])
  /\ Goto(t, AfterUser(op[t]))
  /\ UNCHANGED <<tokenDB, userDB, issued, rowLock, authLock>>

-----------------------------------------------------------------------------
(* IsAuthorized: the token, then its user.  Expired is computed and does    *)
(* not change the answer.                                                   *)

StartAuth(t, k) ==
  /\ Known(k)
  /\ Begin(t, "auth", "lookup", k, None)
  /\ UNCHANGED <<tokenDB, tokenCache, userDB, userCache, issued,
                 rowLock, authLock>>

\* The handler that was granted, or that has its answer, ends.
Finish(t) ==
  /\ pc[t] \in {"granted", "answered"}
  /\ Return(t)
  /\ UNCHANGED <<tokenDB, tokenCache, userDB, userCache, issued,
                 rowLock, authLock>>

-----------------------------------------------------------------------------
(* RefreshUserToken *)

StartRefresh(t, k) ==
  /\ Known(k)
  /\ Begin(t, "refresh", "lookup", k, None)
  /\ UNCHANGED <<tokenDB, tokenCache, userDB, userCache, issued,
                 rowLock, authLock>>

\* Mutant: RefreshToken takes the row RefreshUserToken has read and does not
\* read it again.
CheckRefreshNoReread(t) ==
  /\ pc[t] = "check"
  /\ \/ \E k \in Tokens \ issued :
          /\ issued' = issued \cup {k}
          /\ new' = [new EXCEPT ![t] = k]
          /\ pc' = [pc EXCEPT ![t] = "update"]
          /\ op' = [op EXCEPT ![t] = "renew"]
          /\ UNCHANGED <<arg, usr, row>>
     \/ Return(t) /\ UNCHANGED issued
  /\ UNCHANGED <<tokenDB, tokenCache, userDB, userCache, rowLock,
                 authLock>>

\* The refresh token of the request is an input: it is the one of the row and
\* a new access token is generated, or it is not and the request is refused.
CheckRefresh(t) ==
  /\ pc[t] = "check"
  /\ \/ \E k \in Tokens \ issued :
          /\ issued' = issued \cup {k}
          /\ new' = [new EXCEPT ![t] = k]
          /\ pc' = [pc EXCEPT ![t] = "lookup"]
          /\ op' = [op EXCEPT ![t] = "renew"]
          /\ row' = [row EXCEPT ![t] = None]
          /\ UNCHANGED <<arg, usr>>
     \/ Return(t) /\ UNCHANGED issued
  /\ UNCHANGED <<tokenDB, tokenCache, userDB, userCache, rowLock,
                 authLock>>

\* Mutant: the refresh token is rotated in the cached record only.
RefreshUpdateRotates(t) ==
  /\ pc[t] = "update"
  /\ rowLock[arg[t]] = None
  /\ rowLock' = IF tokenDB[arg[t]] # None
                  THEN [rowLock EXCEPT ![arg[t]] = t] ELSE rowLock
  /\ tokenCache' = [tokenCache EXCEPT ![new[t]] =
                      [user |-> row[t].user, refresh |-> new[t]]]
  /\ Goto(t, "ucommit")
  /\ UNCHANGED <<tokenDB, userDB, userCache, issued, authLock>>

\* UpdateRecord("token", Old, T): the update waits for another writer of the
\* row, changes no row when there is none, and T is cached either way.
RefreshUpdate(t) ==
  /\ pc[t] = "update"
  /\ rowLock[arg[t]] = None
  /\ rowLock' = IF tokenDB[arg[t]] # None
                  THEN [rowLock EXCEPT ![arg[t]] = t] ELSE rowLock
  /\ tokenCache' = [tokenCache EXCEPT ![new[t]] = row[t]]
  /\ Goto(t, "ucommit")
  /\ UNCHANGED <<tokenDB, userDB, userCache, issued, authLock>>

\* Mutant: the refreshed row is inserted and the old one stays.
RefreshCommitInsert(t) ==
  /\ pc[t] = "ucommit"
  /\ IF rowLock[arg[t]] = t
       THEN /\ tokenDB' = [tokenDB EXCEPT ![new[t]] = row[t]]
            /\ rowLock' = [rowLock EXCEPT ![arg[t]] = None]
       ELSE UNCHANGED <<tokenDB, rowLock>>
  /\ Goto(t, "rdrop")
  /\ UNCHANGED <<tokenCache, userDB, userCache, issued, authLock>>

RefreshCommit(t) ==
  /\ pc[t] = "ucommit"
  /\ IF rowLock[arg[t]] = t
       THEN /\ tokenDB' = [tokenDB EXCEPT ![arg[t]] = None, ![new[t]] = row[t]]
            /\ rowLock' = [rowLock EXCEPT ![arg[t]] = None]
       ELSE UNCHANGED <<tokenDB, rowLock>>
  /\ Goto(t, "rdrop")
  /\ UNCHANGED <<tokenCache, userDB, userCache, issued, authLock>>

RefreshDropOld(t) ==
  /\ pc[t] = "rdrop"
  /\ tokenCache' = [tokenCache EXCEPT ![arg[t]] = None]
  /\ Goto(t, "rstore")
  /\ UNCHANGED <<tokenDB, userDB, userCache, issued, rowLock, authLock>>

\* Mutant: UpdateCache is called with the record as read, under the old token.
RefreshStoreNewUnderOld(t) ==
  /\ pc[t] = "rstore"
  /\ tokenCache' = [tokenCache EXCEPT ![arg[t]] = row[t]]
  /\ Goto(t, "answered")
  /\ UNCHANGED <<tokenDB, userDB, userCache, issued, rowLock, authLock>>

RefreshStoreNew(t) ==
  /\ pc[t] = "rstore"
  /\ tokenCache' = [tokenCache EXCEPT ![new[t]] = row[t]]
  /\ Goto(t, "answered")
  /\ UNCHANGED <<tokenDB, userDB, userCache, issued, rowLock, authLock>>

-----------------------------------------------------------------------------
(* Authorize with CreateToken, and Logout: both hold AuthService::Mutex_    *)
(* throughout.                                                              *)

StartLogin(t, u) ==
  /\ authLock = None
  /\ authLock' = t
  /\ Begin(t, "login", "user", None, u)
  /\ UNCHANGED <<tokenDB, tokenCache, userDB, userCache, issued, rowLock>>

\* The record decides: refused (suspended, not verified, wrong password, ...),
\* accepted, or accepted with a new password, which writes the record back
\* (UpdateUserInfo, as in DoPut below).
LoginCheck(t) ==
  /\ pc[t] = "hash"
  /\ \/ Return(t) /\ authLock' = None /\ UNCHANGED <<userCache, tokenCache>>
     \/ Goto(t, "insert") /\ UNCHANGED <<authLock, userCache, tokenCache>>
     \/ /\ userCache' = userCache \cup {usr[t]}
        /\ tokenCache' = WithoutUser(tokenCache, usr[t])
        /\ Goto(t, "insert")
        /\ UNCHANGED authLock
  /\ UNCHANGED <<tokenDB, userDB, issued, rowLock>>

\* Mutant: the row is stored without its refresh token.
LoginInsertNoRefresh(t) ==
  /\ pc[t] = "insert"
  /\ \E k \in Tokens \ issued :
       /\ issued' = issued \cup {k}
       /\ tokenDB' = [tokenDB EXCEPT ![k] = [user |-> usr[t], refresh |-> None]]
  /\ authLock' = None
  /\ Return(t)
  /\ UNCHANGED <<tokenCache, userDB, userCache, rowLock>>

LoginInsert(t) ==
  /\ pc[t] = "insert"
  /\ \E k \in Tokens \ issued :
       /\ issued' = issued \cup {k}
       /\ tokenDB' = [tokenDB EXCEPT ![k] = [user |-> usr[t], refresh |-> k]]
  /\ authLock' = None
  /\ Return(t)
  /\ UNCHANGED <<tokenCache, userDB, userCache, rowLock>>

\* The model has run out of tokens: the login is given up.
LoginAbandon(t) ==
  /\ pc[t] = "insert"
  /\ issued = Tokens
  /\ authLock' = None
  /\ Return(t)
  /\ UNCHANGED <<tokenDB, tokenCache, userDB, userCache, issued, rowLock>>

StartLogout(t, k) ==
  /\ Known(k)
  /\ authLock = None
  /\ authLock' = t
  /\ Begin(t, "logout", "lexec", k, None)
  /\ UNCHANGED <<tokenDB, tokenCache, userDB, userCache, issued, rowLock>>

\* DeleteRecord("token", k): the delete is executed and the cache entry
\* removed before the commit makes the row disappear for other sessions.
LogoutDelete(t) ==
  /\ pc[t] = "lexec"
  /\ rowLock[arg[t]] = None
  /\ rowLock' = IF tokenDB[arg[t]] # None
                  THEN [rowLock EXCEPT ![arg[t]] = t] ELSE rowLock
  /\ tokenCache' = [tokenCache EXCEPT ![arg[t]] = None]
  /\ Goto(t, "lcommit")
  /\ UNCHANGED <<tokenDB, userDB, userCache, issued, authLock>>

LogoutCommit(t) ==
  /\ pc[t] = "lcommit"
  /\ IF rowLock[arg[t]] = t
       THEN /\ tokenDB' = [tokenDB EXCEPT ![arg[t]] = None]
            /\ rowLock' = [rowLock EXCEPT ![arg[t]] = None]
       ELSE UNCHANGED <<tokenDB, rowLock>>
  /\ authLock' = None
  /\ Return(t)
  /\ UNCHANGED <<tokenCache, userDB, userCache, issued>>

-----------------------------------------------------------------------------
(* DoPut of the user handler: the record is read, changed and written back  *)
(* whole; then it is read again for the answer.                             *)

StartEdit(t, u) ==
  /\ Begin(t, "edit", "user", None, u)
  /\ UNCHANGED <<tokenDB, tokenCache, userDB, userCache, issued,
                 rowLock, authLock>>

\* UpdateRecord("id", u, ...) caches the record whether or not a row was there.
EditUpdate(t) ==
  /\ pc[t] = "eupdate"
  /\ userCache' = userCache \cup {usr[t]}
  /\ tokenCache' = WithoutUser(tokenCache, usr[t])
  /\ pc' = [pc EXCEPT ![t] = "user"]
  /\ op' = [op EXCEPT ![t] = "reread"]
  /\ UNCHANGED <<tokenDB, userDB, issued, rowLock, authLock,
                 arg, new, usr, row>>

-----------------------------------------------------------------------------
(* DoDelete of the user handler *)

StartDelete(t, u) ==
  /\ Begin(t, "delete", "user", None, u)
  /\ UNCHANGED <<tokenDB, tokenCache, userDB, userCache, issued,
                 rowLock, authLock>>

\* DeleteUser: DeleteRecord("id", u), cache first, commit after.
DeleteUserExec(t) ==
  /\ pc[t] = "dexec"
  /\ userCache' = userCache \ {usr[t]}
  /\ Goto(t, "dcommit")
  /\ UNCHANGED <<tokenDB, tokenCache, userDB, issued, rowLock, authLock>>

DeleteUserCommit(t) ==
  /\ pc[t] = "dcommit"
  /\ userDB' = userDB \ {usr[t]}
  /\ Goto(t, "dcache")
  /\ UNCHANGED <<tokenDB, tokenCache, userCache, issued, rowLock, authLock>>

DeleteUserFromCache(t) ==
  /\ pc[t] = "dcache"
  /\ tokenCache' = WithoutUser(tokenCache, usr[t])
  /\ Goto(t, "drows")
  /\ UNCHANGED <<tokenDB, userDB, userCache, issued, rowLock, authLock>>

\* RevokeAllTokens: one delete statement, which waits for writers of the rows
\* it selects, then the cached tokens of the user.
RevokeAllRows(t) ==
  /\ pc[t] = "drows"
  /\ \A k \in Tokens : tokenDB[k] # None /\ tokenDB[k].user = usr[t]
                         => rowLock[k] = None
  /\ tokenDB' = WithoutUser(tokenDB, usr[t])
  /\ Goto(t, "dfinal")
  /\ UNCHANGED <<tokenCache, userDB, userCache, issued, rowLock, authLock>>

RevokeAllCached(t) ==
  /\ pc[t] = "dfinal"
  /\ tokenCache' = WithoutUser(tokenCache, usr[t])
  /\ Return(t)
  /\ UNCHANGED <<tokenDB, userDB, userCache, issued, rowLock, authLock>>

-----------------------------------------------------------------------------
(* Time: rows outlive their lifetime, the archiver removes them (from the   *)
(* table only), and the caches drop entries by age or when they are full.   *)

\* CleanExpiredTokens: the rows with created + expires <= now, whichever these
\* are by now.  The delete waits for writers of the rows; no cache is touched.
CleanExpiredTokens ==
  /\ "archive" \in Requests
  /\ \E S \in (SUBSET {k \in Tokens : tokenDB[k] # None}) \ {{}} :
       /\ \A k \in S : rowLock[k] = None
       /\ tokenDB' = [k \in Tokens |-> IF k \in S THEN None ELSE tokenDB[k]]
  /\ UNCHANGED <<tokenCache, userDB, userCache, issued, rowLock, authLock,
                 threadVars>>

\* Mutant: a cache without an age limit, which evicts only to make room.
EvictTokenWhenFull(k) ==
  /\ tokenCache[k] # None
  /\ \E j \in Tokens \ {k} : tokenCache[j] # None
  /\ tokenCache' = [tokenCache EXCEPT ![k] = None]
  /\ UNCHANGED <<tokenDB, userDB, userCache, issued, rowLock,
                 authLock, threadVars>>

EvictToken(k) ==
  /\ tokenCache[k] # None
  /\ tokenCache' = [tokenCache EXCEPT ![k] = None]
  /\ UNCHANGED <<tokenDB, userDB, userCache, issued, rowLock,
                 authLock, threadVars>>

EvictUser(u) ==
  /\ u \in userCache
  /\ userCache' = userCache \ {u}
  /\ UNCHANGED <<tokenDB, tokenCache, userDB, issued, rowLock,
                 authLock, threadVars>>

-----------------------------------------------------------------------------

Start(t) ==
  \/ \E k \in Tokens : StartAuth(t, k) \/ StartRefresh(t, k) \/ StartLogout(t, k)
  \/ \E u \in Users : StartLogin(t, u) \/ StartEdit(t, u) \/ StartDelete(t, u)

Step(t) ==
  \/ TokenLookup(t) \/ TokenSelect(t) \/ TokenStore(t)
  \/ UserLookup(t) \/ UserSelect(t) \/ UserStore(t)
  \/ Finish(t)
  \/ CheckRefresh(t) \/ RefreshUpdate(t) \/ RefreshCommit(t)
  \/ RefreshDropOld(t) \/ RefreshStoreNew(t)
  \/ LoginCheck(t) \/ LoginInsert(t) \/ LoginAbandon(t)
  \/ LogoutDelete(t) \/ LogoutCommit(t)
  \/ EditUpdate(t)
  \/ DeleteUserExec(t) \/ DeleteUserCommit(t) \/ DeleteUserFromCache(t)
  \/ RevokeAllRows(t) \/ RevokeAllCached(t)

Environment ==
  \/ CleanExpiredTokens
  \/ \E k \in Tokens : EvictToken(k)
  \/ \E u \in Users : EvictUser(u)

Next == (\E t \in Threads : Start(t) \/ Step(t)) \/ Environment

Spec == Init /\ [][Next]_vars

\* A request that has started is served, and a cached token reaches its age
\* limit (Poco's ExpireLRUCache; reading an entry does not renew it).
Fairness ==
  /\ \A t \in Threads : WF_vars(Step(t))
  /\ \A k \in Tokens : WF_vars(EvictToken(k))

FairSpec == Spec /\ Fairness

-----------------------------------------------------------------------------
(* Properties *)

TokenSteps == {"lookup", "select", "store"}
UserSteps == {"user", "uselect", "ustore"}
RenewSteps == {"update", "ucommit", "rdrop", "rstore"}
DeleteSteps == {"dexec", "dcommit", "dcache", "drows", "dfinal"}

\* Every step of a request finds the locals that it uses: GetRecord its key,
\* the cache fills and RefreshToken the row that was read, the user steps a
\* user.  In particular no step of a refresh runs on a row that was not found.
LocalsOK ==
  \A t \in Threads :
    /\ pc[t] \in TokenSteps => /\ op[t] \in {"auth", "refresh", "renew"}
                               /\ arg[t] \in Tokens
    /\ pc[t] \in UserSteps => /\ op[t] \in {"auth", "login", "edit", "delete", "reread"}
                              /\ usr[t] \in Users
    /\ pc[t] = "check" => op[t] = "refresh" /\ arg[t] \in Tokens
    /\ op[t] = "renew" => /\ arg[t] \in Tokens /\ new[t] \in Tokens
                          /\ pc[t] \in TokenSteps \cup RenewSteps \cup {"answered"}
    /\ new[t] # None => op[t] = "renew"
    /\ pc[t] \in RenewSteps => op[t] = "renew"
    /\ pc[t] \in RenewSteps \cup {"store"} => row[t] \in Row
    /\ pc[t] \in {"lexec", "lcommit"} => arg[t] \in Tokens
    /\ pc[t] \in DeleteSteps \cup {"store", "hash", "insert", "eupdate", "granted"}
         => usr[t] \in Users

\* The copies of token k's row: committed, cached, or read by a request that
\* may still write it under that token.
Copies(k) ==
  ({tokenDB[k], tokenCache[k]}
     \cup {row[t] : t \in {t \in Threads : pc[t] = "store" /\ arg[t] = k}}
     \cup {row[t] : t \in {t \in Threads : pc[t] \in RenewSteps /\ new[t] = k}})
  \ {None}

\* Whichever copy of a token's row answers a request - the table, the cache or
\* a row in flight - it names the same owner and the same session.
CopiesAgree == \A k \in Tokens : \A a, b \in Copies(k) : a = b

\* Thread t has a copy of token k's row that it may still write somewhere.
Holds(t, k) ==
  \/ pc[t] = "store" /\ arg[t] = k
  \/ op[t] = "renew" /\ new[t] = k /\ pc[t] # "answered"

\* Token k has been issued and is nowhere any more.
Gone(k) ==
  /\ k \in issued
  /\ tokenDB[k] = None
  /\ tokenCache[k] = None
  /\ \A t \in Threads : ~Holds(t, k)

\* Once a token has left the table, the cache and every request in flight, no
\* interleaving of GetRecord, RefreshToken, DeleteRecord and the archiver
\* brings it back into either store.
NoResurrection == [][\A k \in Tokens : Gone(k) => Gone(k)']_vars

\* The session with refresh token r is nowhere any more.
SessionGone(r) ==
  /\ r \in issued
  /\ \A k \in Tokens : tokenDB[k] # None => tokenDB[k].refresh # r
  /\ \A k \in Tokens : tokenCache[k] # None => tokenCache[k].refresh # r
  /\ \A t \in Threads :
       pc[t] \in {"store", "update", "ucommit", "rdrop", "rstore"}
         => row[t].refresh # r

\* The same for the whole session: a refresh cannot revive a session under a
\* new access token once no copy of it is left.
NoSessionRevival == [][\A r \in Tokens : SessionGone(r) => SessionGone(r)']_vars

\* A session has one row: of several refreshes of the same session running at
\* the same time (UpdateRecord where token=Old) at most one renames the row.
OneRowPerSession ==
  \A k1, k2 \in Tokens :
    /\ tokenDB[k1] # None
    /\ tokenDB[k2] # None
    /\ tokenDB[k1].refresh = tokenDB[k2].refresh
    => k1 = k2

\* No copy of user u's record is left, committed, cached or in flight.
UserGone(u) ==
  /\ u \notin userDB
  /\ u \notin userCache
  /\ \A t \in Threads : usr[t] = u => pc[t] \notin {"ustore", "hash", "eupdate"}

\* Once no copy of a deleted user's record is left, no request is authorised
\* as that user, whatever tokens of the user the stores still hold.
DeletedUserStaysOut ==
  [][\A u \in Users : UserGone(u) =>
       /\ UserGone(u)'
       /\ \A t \in Threads : pc'[t] = "granted" /\ usr'[t] = u
                               => pc[t] = "granted"]_vars

\* A token whose row was deleted (by logout, refresh, user deletion or the
\* archiver) is in the end refused everywhere, although readers that were in
\* flight may put it back into the cache after it was removed from there.
RevokedTokensDie ==
  \A k \in Tokens :
    (k \in issued /\ tokenDB[k] = None /\ \A t \in Threads : new[t] # k)
      ~> Gone(k)
=============================================================================
