------------------------- MODULE SessionStoreProofs -------------------------
(***************************************************************************)
(* Theorems about SessionStore, for any users, tokens and threads: types,  *)
(* the three action properties about what was revoked, and that rows,      *)
(* cache entries and copies of one token agree.                            *)
(***************************************************************************)
EXTENDS SessionStore, TLAPS

\* The inductive invariant: types alone are not inductive, since a step uses
\* the locals an earlier step of the same request has left it.
IInv == TypeOK /\ LocalsOK

LEMMA InitIInv == Init => IInv
  BY NoneAssumption DEF Init, IInv, TypeOK, LocalsOK, PCs, OpKinds, TokenSteps,
     UserSteps, RenewSteps, DeleteSteps

LEMMA WithoutUserType ==
  ASSUME NEW c \in [Tokens -> Row \cup {None}], NEW u
  PROVE  /\ WithoutUser(c, u) \in [Tokens -> Row \cup {None}]
         /\ \A k \in Tokens : WithoutUser(c, u)[k] = c[k] \/ WithoutUser(c, u)[k] = None
  BY DEF WithoutUser

LEMMA StartIInv == ASSUME NEW t \in Threads, IInv, Start(t)
                   PROVE  IInv'
  <1> USE NoneAssumption, RequestsAssumption
      DEF IInv, TypeOK, LocalsOK, PCs, OpKinds, RequestKinds, TokenSteps,
          UserSteps, RenewSteps, DeleteSteps, Begin, Known
  <1>1. ASSUME NEW k \in Tokens, StartAuth(t, k) PROVE IInv'
    BY <1>1 DEF StartAuth
  <1>2. ASSUME NEW k \in Tokens, StartRefresh(t, k) PROVE IInv'
    BY <1>2 DEF StartRefresh
  <1>3. ASSUME NEW k \in Tokens, StartLogout(t, k) PROVE IInv'
    BY <1>3 DEF StartLogout
  <1>4. ASSUME NEW u \in Users, StartLogin(t, u) PROVE IInv'
    BY <1>4 DEF StartLogin
  <1>5. ASSUME NEW u \in Users, StartEdit(t, u) PROVE IInv'
    BY <1>5 DEF StartEdit
  <1>6. ASSUME NEW u \in Users, StartDelete(t, u) PROVE IInv'
    BY <1>6 DEF StartDelete
  <1>. QED
    BY <1>1, <1>2, <1>3, <1>4, <1>5, <1>6 DEF Start

LEMMA StepIInv == ASSUME NEW t \in Threads, IInv, Step(t)
                  PROVE  IInv'
  <1> USE NoneAssumption
      DEF IInv, TypeOK, LocalsOK, PCs, OpKinds, RequestKinds, TokenSteps,
          UserSteps, RenewSteps, DeleteSteps
  <1>1. CASE TokenLookup(t)
    BY <1>1 DEF TokenLookup, HaveRow, Goto, AfterToken, Row
  <1>2. CASE TokenSelect(t)
    BY <1>2, SMTT(20) DEF TokenSelect, HaveRow, Goto, NotFound, Return, Row
  <1>3. CASE TokenStore(t)
    BY <1>3 DEF TokenStore, Goto, AfterToken
  <1>4. CASE UserLookup(t)
    BY <1>4 DEF UserLookup, Goto, AfterUser
  <1>5. CASE UserSelect(t)
    BY <1>5 DEF UserSelect, Goto, Return
  <1>6. CASE UserStore(t)
    BY <1>6, WithoutUserType DEF UserStore, Goto, AfterUser
  <1>7. CASE Finish(t)
    BY <1>7 DEF Finish, Return
  <1>8. CASE CheckRefresh(t)
    <2>1. CASE Return(t)
      BY <1>8, <2>1, ZenonT(40) DEF CheckRefresh, Return
    <2>2. CASE ~Return(t)
      <3>1. PICK k \in Tokens \ issued :
              /\ issued' = issued \cup {k}
              /\ new' = [new EXCEPT ![t] = k]
              /\ pc' = [pc EXCEPT ![t] = "lookup"]
              /\ op' = [op EXCEPT ![t] = "renew"]
              /\ row' = [row EXCEPT ![t] = None]
              /\ UNCHANGED <<arg, usr>>
        BY <1>8, <2>2 DEF CheckRefresh
      <3>. QED
        BY <1>8, <3>1 DEF CheckRefresh
    <2>. QED
      BY <2>1, <2>2
  <1>9. CASE RefreshUpdate(t)
    BY <1>9 DEF RefreshUpdate, Goto
  <1>10. CASE RefreshCommit(t)
    BY <1>10 DEF RefreshCommit, Goto
  <1>11. CASE RefreshDropOld(t)
    BY <1>11 DEF RefreshDropOld, Goto
  <1>12. CASE RefreshStoreNew(t)
    BY <1>12 DEF RefreshStoreNew, Goto
  <1>13. CASE LoginInsert(t)
    BY <1>13 DEF LoginInsert, Return, Row
  <1>14. CASE LoginAbandon(t)
    BY <1>14 DEF LoginAbandon, Return
  <1>15. CASE LogoutDelete(t)
    BY <1>15 DEF LogoutDelete, Goto
  <1>16. CASE LogoutCommit(t)
    BY <1>16 DEF LogoutCommit, Return
  <1>17. CASE EditUpdate(t)
    BY <1>17, WithoutUserType DEF EditUpdate
  <1>18. CASE DeleteUserExec(t)
    BY <1>18 DEF DeleteUserExec, Goto
  <1>19. CASE DeleteUserCommit(t)
    BY <1>19 DEF DeleteUserCommit, Goto
  <1>20. CASE DeleteUserFromCache(t)
    BY <1>20, WithoutUserType DEF DeleteUserFromCache, Goto
  <1>21. CASE RevokeAllRows(t)
    BY <1>21, WithoutUserType DEF RevokeAllRows, Goto
  <1>22. CASE RevokeAllCached(t)
    BY <1>22, WithoutUserType DEF RevokeAllCached, Return
  <1>23. CASE LoginCheck(t)
    BY <1>23, WithoutUserType DEF LoginCheck, Return, Goto
  <1>. QED
    BY <1>1, <1>2, <1>3, <1>4, <1>5, <1>6, <1>7, <1>8, <1>9, <1>10, <1>11, <1>12, <1>13, <1>14, <1>15, <1>16, <1>17, <1>18, <1>19, <1>20, <1>21, <1>22,
       <1>23 DEF Step

LEMMA EnvironmentIInv == IInv /\ Environment => IInv'
  <1> SUFFICES ASSUME IInv, Environment PROVE IInv'
    OBVIOUS
  <1> USE DEF IInv, TypeOK, LocalsOK, threadVars
  <1>1. CASE CleanExpiredTokens
    BY <1>1 DEF CleanExpiredTokens
  <1>2. ASSUME NEW k \in Tokens, EvictToken(k) PROVE IInv'
    BY <1>2 DEF EvictToken
  <1>3. ASSUME NEW u \in Users, EvictUser(u) PROVE IInv'
    BY <1>3 DEF EvictUser
  <1>. QED
    BY <1>1, <1>2, <1>3 DEF Environment

LEMMA NextIInv == IInv /\ [Next]_vars => IInv'
  <1>1. IInv /\ UNCHANGED vars => IInv'
    BY DEF IInv, TypeOK, LocalsOK, vars, threadVars
  <1>. QED
    BY <1>1, StartIInv, StepIInv, EnvironmentIInv DEF Next

\* The inductive invariant holds in every reachable state.
THEOREM Invariance == Spec => []IInv
  BY InitIInv, NextIInv, PTL DEF Spec

\* The stores, locks and locals of every request stay well typed, whatever the
\* numbers of users, tokens and threads.
THEOREM TypeCorrect == Spec => []TypeOK
  BY Invariance, PTL DEF IInv

\* Every step of GetRecord, RefreshToken and the handlers finds its locals.
THEOREM LocalsCorrect == Spec => []LocalsOK
  BY Invariance, PTL DEF IInv

LEMMA GoneStart ==
  ASSUME NEW k \in Tokens, NEW t \in Threads, IInv, Gone(k), Start(t)
  PROVE  Gone(k)'
  <1> USE NoneAssumption DEF IInv, TypeOK, LocalsOK, Gone, Holds, TokenSteps, UserSteps,
          RenewSteps, DeleteSteps, Begin, Known
  <1>1. ASSUME NEW j \in Tokens, StartAuth(t, j) PROVE Gone(k)'
    BY <1>1 DEF StartAuth
  <1>2. ASSUME NEW j \in Tokens, StartRefresh(t, j) PROVE Gone(k)'
    BY <1>2 DEF StartRefresh
  <1>3. ASSUME NEW j \in Tokens, StartLogout(t, j) PROVE Gone(k)'
    BY <1>3 DEF StartLogout
  <1>4. ASSUME NEW v \in Users, StartLogin(t, v) PROVE Gone(k)'
    BY <1>4 DEF StartLogin
  <1>5. ASSUME NEW v \in Users, StartEdit(t, v) PROVE Gone(k)'
    BY <1>5 DEF StartEdit
  <1>6. ASSUME NEW v \in Users, StartDelete(t, v) PROVE Gone(k)'
    BY <1>6 DEF StartDelete
  <1>. QED
    BY <1>1, <1>2, <1>3, <1>4, <1>5, <1>6 DEF Start

LEMMA GoneStep ==
  ASSUME NEW k \in Tokens, NEW t \in Threads, IInv, Gone(k), Step(t)
  PROVE  Gone(k)'
  <1> USE NoneAssumption DEF IInv, TypeOK, LocalsOK, Gone, Holds, TokenSteps, UserSteps,
          RenewSteps, DeleteSteps
  <1>1. CASE TokenLookup(t)
    BY <1>1 DEF TokenLookup, HaveRow, Goto, AfterToken
  <1>2. CASE TokenSelect(t)
    BY <1>2 DEF TokenSelect, HaveRow, Goto, NotFound, Return
  <1>3. CASE TokenStore(t)
    BY <1>3 DEF TokenStore, Goto, AfterToken
  <1>4. CASE UserLookup(t)
    BY <1>4 DEF UserLookup, Goto, AfterUser
  <1>5. CASE UserSelect(t)
    BY <1>5 DEF UserSelect, Goto, Return
  <1>6. CASE UserStore(t)
    BY <1>6, WithoutUserType DEF UserStore, Goto, AfterUser
  <1>7. CASE Finish(t)
    BY <1>7 DEF Finish, Return
  <1>8. CASE CheckRefresh(t)
    BY <1>8 DEF CheckRefresh, Return
  <1>9. CASE RefreshUpdate(t)
    BY <1>9 DEF RefreshUpdate, Goto
  <1>10. CASE RefreshCommit(t)
    BY <1>10 DEF RefreshCommit, Goto
  <1>11. CASE RefreshDropOld(t)
    BY <1>11 DEF RefreshDropOld, Goto
  <1>12. CASE RefreshStoreNew(t)
    BY <1>12 DEF RefreshStoreNew, Goto
  <1>13. CASE LoginInsert(t)
    BY <1>13 DEF LoginInsert, Return
  <1>14. CASE LoginAbandon(t)
    BY <1>14 DEF LoginAbandon, Return
  <1>15. CASE LogoutDelete(t)
    BY <1>15 DEF LogoutDelete, Goto
  <1>16. CASE LogoutCommit(t)
    BY <1>16 DEF LogoutCommit, Return
  <1>17. CASE EditUpdate(t)
    BY <1>17, WithoutUserType DEF EditUpdate
  <1>18. CASE DeleteUserExec(t)
    BY <1>18 DEF DeleteUserExec, Goto
  <1>19. CASE DeleteUserCommit(t)
    BY <1>19 DEF DeleteUserCommit, Goto
  <1>20. CASE DeleteUserFromCache(t)
    BY <1>20, WithoutUserType DEF DeleteUserFromCache, Goto
  <1>21. CASE RevokeAllRows(t)
    BY <1>21, WithoutUserType DEF RevokeAllRows, Goto
  <1>22. CASE RevokeAllCached(t)
    BY <1>22, WithoutUserType DEF RevokeAllCached, Return
  <1>23. CASE LoginCheck(t)
    BY <1>23, WithoutUserType DEF LoginCheck, Return, Goto
  <1>. QED
    BY <1>1, <1>2, <1>3, <1>4, <1>5, <1>6, <1>7, <1>8, <1>9, <1>10, <1>11,
       <1>12, <1>13, <1>14, <1>15, <1>16, <1>17, <1>18, <1>19, <1>20, <1>21, <1>22,
       <1>23 DEF Step

LEMMA GoneEnvironment ==
  ASSUME NEW k \in Tokens, IInv, Gone(k), Environment
  PROVE  Gone(k)'
  <1> USE DEF IInv, TypeOK, Gone, Holds, threadVars
  <1>1. CASE CleanExpiredTokens
    BY <1>1 DEF CleanExpiredTokens
  <1>2. ASSUME NEW j \in Tokens, EvictToken(j) PROVE Gone(k)'
    BY <1>2 DEF EvictToken
  <1>3. ASSUME NEW v \in Users, EvictUser(v) PROVE Gone(k)'
    BY <1>3 DEF EvictUser
  <1>. QED
    BY <1>1, <1>2, <1>3 DEF Environment

LEMMA GoneNext ==
  ASSUME NEW k \in Tokens, IInv, Gone(k), [Next]_vars
  PROVE  Gone(k)'
  <1>1. CASE UNCHANGED vars
    BY <1>1 DEF Gone, Holds, vars, threadVars
  <1>. QED
    BY <1>1, GoneStart, GoneStep, GoneEnvironment DEF Next

\* No interleaving brings a token back that has left the table, the cache and
\* every request in flight (GetRecord, RefreshToken, DeleteRecord).
THEOREM TokensStayGone == Spec => NoResurrection
  <1>1. IInv /\ [Next]_vars => [\A k \in Tokens : Gone(k) => Gone(k)']_vars
    BY GoneNext
  <1>. QED
    BY <1>1, Invariance, PTL DEF Spec, NoResurrection

LEMMA SessionStart ==
  ASSUME NEW r \in Tokens, NEW t \in Threads, IInv, SessionGone(r), Start(t)
  PROVE  SessionGone(r)'
  <1> USE NoneAssumption DEF IInv, TypeOK, LocalsOK, SessionGone, Row, TokenSteps, UserSteps,
          RenewSteps, DeleteSteps, Begin, Known
  <1>1. ASSUME NEW j \in Tokens, StartAuth(t, j) PROVE SessionGone(r)'
    BY <1>1 DEF StartAuth
  <1>2. ASSUME NEW j \in Tokens, StartRefresh(t, j) PROVE SessionGone(r)'
    BY <1>2 DEF StartRefresh
  <1>3. ASSUME NEW j \in Tokens, StartLogout(t, j) PROVE SessionGone(r)'
    BY <1>3 DEF StartLogout
  <1>4. ASSUME NEW v \in Users, StartLogin(t, v) PROVE SessionGone(r)'
    BY <1>4 DEF StartLogin
  <1>5. ASSUME NEW v \in Users, StartEdit(t, v) PROVE SessionGone(r)'
    BY <1>5 DEF StartEdit
  <1>6. ASSUME NEW v \in Users, StartDelete(t, v) PROVE SessionGone(r)'
    BY <1>6 DEF StartDelete
  <1>. QED
    BY <1>1, <1>2, <1>3, <1>4, <1>5, <1>6 DEF Start

LEMMA SessionStep ==
  ASSUME NEW r \in Tokens, NEW t \in Threads, IInv, SessionGone(r), Step(t)
  PROVE  SessionGone(r)'
  <1> USE NoneAssumption DEF IInv, TypeOK, LocalsOK, SessionGone, Row, TokenSteps, UserSteps,
          RenewSteps, DeleteSteps
  <1>1. CASE TokenLookup(t)
    BY <1>1 DEF TokenLookup, HaveRow, Goto, AfterToken
  <1>2. CASE TokenSelect(t)
    BY <1>2 DEF TokenSelect, HaveRow, Goto, NotFound, Return
  <1>3. CASE TokenStore(t)
    BY <1>3 DEF TokenStore, Goto, AfterToken
  <1>4. CASE UserLookup(t)
    BY <1>4 DEF UserLookup, Goto, AfterUser
  <1>5. CASE UserSelect(t)
    BY <1>5 DEF UserSelect, Goto, Return
  <1>6. CASE UserStore(t)
    BY <1>6, WithoutUserType DEF UserStore, Goto, AfterUser
  <1>7. CASE Finish(t)
    BY <1>7 DEF Finish, Return
  <1>8. CASE CheckRefresh(t)
    BY <1>8 DEF CheckRefresh, Return
  <1>9. CASE RefreshUpdate(t)
    BY <1>9 DEF RefreshUpdate, Goto
  <1>10. CASE RefreshCommit(t)
    BY <1>10 DEF RefreshCommit, Goto
  <1>11. CASE RefreshDropOld(t)
    BY <1>11 DEF RefreshDropOld, Goto
  <1>12. CASE RefreshStoreNew(t)
    BY <1>12 DEF RefreshStoreNew, Goto
  <1>13. CASE LoginInsert(t)
    BY <1>13 DEF LoginInsert, Return
  <1>14. CASE LoginAbandon(t)
    BY <1>14 DEF LoginAbandon, Return
  <1>15. CASE LogoutDelete(t)
    BY <1>15 DEF LogoutDelete, Goto
  <1>16. CASE LogoutCommit(t)
    BY <1>16 DEF LogoutCommit, Return
  <1>17. CASE EditUpdate(t)
    BY <1>17, WithoutUserType DEF EditUpdate
  <1>18. CASE DeleteUserExec(t)
    BY <1>18 DEF DeleteUserExec, Goto
  <1>19. CASE DeleteUserCommit(t)
    BY <1>19 DEF DeleteUserCommit, Goto
  <1>20. CASE DeleteUserFromCache(t)
    BY <1>20, WithoutUserType DEF DeleteUserFromCache, Goto
  <1>21. CASE RevokeAllRows(t)
    BY <1>21, WithoutUserType DEF RevokeAllRows, Goto
  <1>22. CASE RevokeAllCached(t)
    BY <1>22, WithoutUserType DEF RevokeAllCached, Return
  <1>23. CASE LoginCheck(t)
    BY <1>23, WithoutUserType DEF LoginCheck, Return, Goto
  <1>. QED
    BY <1>1, <1>2, <1>3, <1>4, <1>5, <1>6, <1>7, <1>8, <1>9, <1>10, <1>11,
       <1>12, <1>13, <1>14, <1>15, <1>16, <1>17, <1>18, <1>19, <1>20, <1>21, <1>22,
       <1>23 DEF Step

LEMMA SessionEnvironment ==
  ASSUME NEW r \in Tokens, IInv, SessionGone(r), Environment
  PROVE  SessionGone(r)'
  <1> USE DEF IInv, TypeOK, SessionGone, Row, threadVars
  <1>1. CASE CleanExpiredTokens
    BY <1>1 DEF CleanExpiredTokens
  <1>2. ASSUME NEW j \in Tokens, EvictToken(j) PROVE SessionGone(r)'
    BY <1>2 DEF EvictToken
  <1>3. ASSUME NEW v \in Users, EvictUser(v) PROVE SessionGone(r)'
    BY <1>3 DEF EvictUser
  <1>. QED
    BY <1>1, <1>2, <1>3 DEF Environment

LEMMA SessionNext ==
  ASSUME NEW r \in Tokens, IInv, SessionGone(r), [Next]_vars
  PROVE  SessionGone(r)'
  <1>1. CASE UNCHANGED vars
    BY <1>1 DEF SessionGone, vars, threadVars
  <1>. QED
    BY <1>1, SessionStart, SessionStep, SessionEnvironment DEF Next

\* No refresh revives a session of which no copy is left (RefreshUserToken reads
\* the row a second time, in RefreshToken, before it writes it).
THEOREM SessionsStayGone == Spec => NoSessionRevival
  <1>1. IInv /\ [Next]_vars
          => [\A r \in Tokens : SessionGone(r) => SessionGone(r)']_vars
    BY SessionNext
  <1>. QED
    BY <1>1, Invariance, PTL DEF Spec, NoSessionRevival

\* What a step may not do once no copy of user u's record is left.
StaysOut(u) ==
  /\ UserGone(u)'
  /\ \A t \in Threads : pc'[t] = "granted" /\ usr'[t] = u => pc[t] = "granted"

LEMMA UserStart ==
  ASSUME NEW u \in Users, NEW t \in Threads, IInv, UserGone(u), Start(t)
  PROVE  StaysOut(u)
  <1> USE NoneAssumption DEF IInv, TypeOK, LocalsOK, UserGone, StaysOut, TokenSteps, UserSteps,
          RenewSteps, DeleteSteps, Begin, Known
  <1>1. ASSUME NEW j \in Tokens, StartAuth(t, j) PROVE StaysOut(u)
    BY <1>1 DEF StartAuth
  <1>2. ASSUME NEW j \in Tokens, StartRefresh(t, j) PROVE StaysOut(u)
    BY <1>2 DEF StartRefresh
  <1>3. ASSUME NEW j \in Tokens, StartLogout(t, j) PROVE StaysOut(u)
    BY <1>3 DEF StartLogout
  <1>4. ASSUME NEW v \in Users, StartLogin(t, v) PROVE StaysOut(u)
    BY <1>4 DEF StartLogin
  <1>5. ASSUME NEW v \in Users, StartEdit(t, v) PROVE StaysOut(u)
    BY <1>5 DEF StartEdit
  <1>6. ASSUME NEW v \in Users, StartDelete(t, v) PROVE StaysOut(u)
    BY <1>6 DEF StartDelete
  <1>. QED
    BY <1>1, <1>2, <1>3, <1>4, <1>5, <1>6 DEF Start

LEMMA UserStep ==
  ASSUME NEW u \in Users, NEW t \in Threads, IInv, UserGone(u), Step(t)
  PROVE  StaysOut(u)
  <1> USE NoneAssumption DEF IInv, TypeOK, LocalsOK, UserGone, StaysOut, TokenSteps, UserSteps,
          RenewSteps, DeleteSteps
  <1>1. CASE TokenLookup(t)
    BY <1>1 DEF TokenLookup, HaveRow, Goto, AfterToken
  <1>2. CASE TokenSelect(t)
    BY <1>2 DEF TokenSelect, HaveRow, Goto, NotFound, Return
  <1>3. CASE TokenStore(t)
    BY <1>3 DEF TokenStore, Goto, AfterToken
  <1>4. CASE UserLookup(t)
    BY <1>4 DEF UserLookup, Goto, AfterUser
  <1>5. CASE UserSelect(t)
    BY <1>5 DEF UserSelect, Goto, Return
  <1>6. CASE UserStore(t)
    BY <1>6, WithoutUserType DEF UserStore, Goto, AfterUser
  <1>7. CASE Finish(t)
    BY <1>7 DEF Finish, Return
  <1>8. CASE CheckRefresh(t)
    BY <1>8 DEF CheckRefresh, Return
  <1>9. CASE RefreshUpdate(t)
    BY <1>9 DEF RefreshUpdate, Goto
  <1>10. CASE RefreshCommit(t)
    BY <1>10 DEF RefreshCommit, Goto
  <1>11. CASE RefreshDropOld(t)
    BY <1>11 DEF RefreshDropOld, Goto
  <1>12. CASE RefreshStoreNew(t)
    BY <1>12 DEF RefreshStoreNew, Goto
  <1>13. CASE LoginInsert(t)
    BY <1>13 DEF LoginInsert, Return
  <1>14. CASE LoginAbandon(t)
    BY <1>14 DEF LoginAbandon, Return
  <1>15. CASE LogoutDelete(t)
    BY <1>15 DEF LogoutDelete, Goto
  <1>16. CASE LogoutCommit(t)
    BY <1>16 DEF LogoutCommit, Return
  <1>17. CASE EditUpdate(t)
    BY <1>17, WithoutUserType DEF EditUpdate
  <1>18. CASE DeleteUserExec(t)
    BY <1>18 DEF DeleteUserExec, Goto
  <1>19. CASE DeleteUserCommit(t)
    BY <1>19 DEF DeleteUserCommit, Goto
  <1>20. CASE DeleteUserFromCache(t)
    BY <1>20, WithoutUserType DEF DeleteUserFromCache, Goto
  <1>21. CASE RevokeAllRows(t)
    BY <1>21, WithoutUserType DEF RevokeAllRows, Goto
  <1>22. CASE RevokeAllCached(t)
    BY <1>22, WithoutUserType DEF RevokeAllCached, Return
  <1>23. CASE LoginCheck(t)
    BY <1>23, WithoutUserType DEF LoginCheck, Return, Goto
  <1>. QED
    BY <1>1, <1>2, <1>3, <1>4, <1>5, <1>6, <1>7, <1>8, <1>9, <1>10, <1>11,
       <1>12, <1>13, <1>14, <1>15, <1>16, <1>17, <1>18, <1>19, <1>20, <1>21, <1>22,
       <1>23 DEF Step

LEMMA UserEnvironment ==
  ASSUME NEW u \in Users, IInv, UserGone(u), Environment
  PROVE  StaysOut(u)
  <1> USE DEF IInv, TypeOK, UserGone, StaysOut, threadVars
  <1>1. CASE CleanExpiredTokens
    BY <1>1 DEF CleanExpiredTokens
  <1>2. ASSUME NEW j \in Tokens, EvictToken(j) PROVE StaysOut(u)
    BY <1>2 DEF EvictToken
  <1>3. ASSUME NEW v \in Users, EvictUser(v) PROVE StaysOut(u)
    BY <1>3 DEF EvictUser
  <1>. QED
    BY <1>1, <1>2, <1>3 DEF Environment

LEMMA UserNext ==
  ASSUME NEW u \in Users, IInv, UserGone(u), [Next]_vars
  PROVE  StaysOut(u)
  <1>1. CASE UNCHANGED vars
    BY <1>1 DEF UserGone, StaysOut, vars, threadVars
  <1>. QED
    BY <1>1, UserStart, UserStep, UserEnvironment DEF Next

\* A user of whose record no copy is left is never authorised again, and no
\* request puts the record back (DeleteUser against GetUserById, UpdateUserInfo).
THEOREM DeletedUsersStayOut == Spec => DeletedUserStaysOut
  <1>1. IInv /\ [Next]_vars => [\A u \in Users : UserGone(u) => StaysOut(u)]_vars
    BY UserNext
  <1>. QED
    BY <1>1, Invariance, PTL DEF Spec, DeletedUserStaysOut, StaysOut

-----------------------------------------------------------------------------
(* The copies of a token's row, from where they come to where they go: a    *)
(* refresh in flight works on a copy of the old token's row, which becomes  *)
(* the new token's.                                                         *)
Writing == {"store", "update", "ucommit", "rdrop", "rstore"}

Copy(k, r) ==
  /\ r # None
  /\ \/ tokenDB[k] = r
     \/ tokenCache[k] = r
     \/ \E t \in Threads : pc[t] \in Writing /\ arg[t] = k /\ row[t] = r
     \/ \E t \in Threads : pc[t] \in RenewSteps /\ new[t] = k /\ row[t] = r

(* Two copies of a token's row are the same row.                            *)
Agree == \A k \in Tokens, a, b \in Row : Copy(k, a) /\ Copy(k, b) => a = b

(* A token that was not issued has no copy, and no session is named by it.  *)
OnlyIssued ==
  /\ \A k \in Tokens, r \in Row : Copy(k, r) => k \in issued /\ r.refresh \in issued
  /\ \A t \in Threads : arg[t] # None => arg[t] \in issued
  /\ \A t \in Threads : new[t] # None => new[t] \in issued

(* A token that a refresh has generated is that request's alone until the   *)
(* answer, and has no copy before the row is read again.                    *)
NewIsOwn ==
  \A t, w \in Threads :
    new[t] # None => /\ new[w] = new[t] => w = t
                     /\ arg[w] # new[t]
                     /\ pc[t] \in TokenSteps => \A r \in Row : ~Copy(new[t], r)

(* The lock of a row is that of the request between its statement and its   *)
(* commit, and the row is there.                                            *)
LocksHeld ==
  \A k \in Tokens :
    rowLock[k] # None =>
      /\ tokenDB[k] # None
      /\ pc[rowLock[k]] \in {"ucommit", "lcommit"}
      /\ arg[rowLock[k]] = k

SessionInv == IInv /\ OnlyIssued /\ Agree /\ NewIsOwn /\ LocksHeld /\ OneRowPerSession

(* Steps that make no copy of a row under a token that had none like it.    *)
LEMMA NoNewCopies ==
  ASSUME SessionInv, IInv', issued' = issued,
         \A k \in Tokens, r \in Row : Copy(k, r)' => Copy(k, r),
         \A w \in Threads :
           /\ arg'[w] = arg[w] \/ arg'[w] = None \/ Known(arg'[w])
           /\ new'[w] = new[w] \/ new'[w] = None
           /\ new'[w] # None /\ pc'[w] \in TokenSteps => pc[w] \in TokenSteps
  PROVE  OnlyIssued' /\ Agree' /\ NewIsOwn'
  <1>1. Agree'
    BY DEF SessionInv, Agree
  <1>2. OnlyIssued'
    BY DEF SessionInv, OnlyIssued, Known
  <1>3. NewIsOwn'
    <2> SUFFICES ASSUME NEW t \in Threads, NEW w \in Threads, NEW k, k = new'[t], k # None
                 PROVE  /\ new'[w] = k => w = t
                        /\ arg'[w] # k
                        /\ pc'[t] \in TokenSteps => \A r \in Row : ~Copy(k, r)'
      BY DEF NewIsOwn
    <2>1. new[t] = k /\ k \in Tokens
      BY DEF IInv, TypeOK
    <2>2. /\ new[w] = k => w = t
          /\ arg[w] # k
          /\ pc[t] \in TokenSteps => \A r \in Row : ~Copy(k, r)
      BY <2>1 DEF SessionInv, NewIsOwn
    <2> QED BY <2>1, <2>2 DEF Known
  <1> QED BY <1>1, <1>2, <1>3

(* A request that is not about to write a row moves on, or only the stores  *)
(* lose entries.                                                            *)
Still(w) == pc'[w] = pc[w] /\ arg'[w] = arg[w] /\ new'[w] = new[w] /\ row'[w] = row[w]

Moved(w) ==
  /\ pc[w] \notin {"ucommit", "lcommit"}
  /\ pc'[w] \notin Writing
  /\ arg'[w] = arg[w] \/ arg'[w] = None \/ Known(arg'[w])
  /\ new'[w] = new[w] \/ new'[w] = None
  /\ new'[w] # None /\ pc'[w] \in TokenSteps => pc[w] \in TokenSteps

LEMMA PlainStep ==
  ASSUME SessionInv, IInv', issued' = issued, rowLock' = rowLock,
         \A k \in Tokens : tokenDB'[k] = tokenDB[k] \/ (tokenDB'[k] = None /\ rowLock[k] = None),
         \A k \in Tokens : tokenCache'[k] = tokenCache[k] \/ tokenCache'[k] = None,
         \A w \in Threads : Still(w) \/ Moved(w)
  PROVE  SessionInv'
  <1>1. \A k \in Tokens, r \in Row : Copy(k, r)' => Copy(k, r)
    BY DEF Copy, Still, Moved, Writing, RenewSteps
  <1>2. OnlyIssued' /\ Agree' /\ NewIsOwn'
    <2>1. \A w \in Threads :
           /\ arg'[w] = arg[w] \/ arg'[w] = None \/ Known(arg'[w])
           /\ new'[w] = new[w] \/ new'[w] = None
           /\ new'[w] # None /\ pc'[w] \in TokenSteps => pc[w] \in TokenSteps
      BY DEF Still, Moved
    <2> QED BY <1>1, <2>1, NoNewCopies
  <1>3. LocksHeld'
    BY DEF SessionInv, LocksHeld, Still, Moved, IInv, TypeOK
  <1>4. OneRowPerSession'
    BY DEF SessionInv, OneRowPerSession
  <1> QED BY <1>2, <1>3, <1>4 DEF SessionInv

LEMMA StartSession ==
  ASSUME SessionInv, IInv', NEW t \in Threads, Start(t)
  PROVE  SessionInv'
  <1>1. /\ issued' = issued /\ rowLock' = rowLock
        /\ tokenDB' = tokenDB /\ tokenCache' = tokenCache
        /\ \A w \in Threads : Still(w) \/ Moved(w)
    <2> USE DEF SessionInv, IInv, TypeOK, LocalsOK, Begin, Still, Moved, Writing, TokenSteps
    <2>1. ASSUME NEW k \in Tokens, StartAuth(t, k) PROVE <1>1!:
      BY <2>1, NoneAssumption DEF StartAuth
    <2>2. ASSUME NEW k \in Tokens, StartRefresh(t, k) PROVE <1>1!:
      BY <2>2, NoneAssumption DEF StartRefresh
    <2>3. ASSUME NEW k \in Tokens, StartLogout(t, k) PROVE <1>1!:
      BY <2>3, NoneAssumption DEF StartLogout
    <2>4. ASSUME NEW u \in Users, StartLogin(t, u) PROVE <1>1!:
      BY <2>4, NoneAssumption DEF StartLogin
    <2>5. ASSUME NEW u \in Users, StartEdit(t, u) PROVE <1>1!:
      BY <2>5, NoneAssumption DEF StartEdit
    <2>6. ASSUME NEW u \in Users, StartDelete(t, u) PROVE <1>1!:
      BY <2>6, NoneAssumption DEF StartDelete
    <2> QED BY <2>1, <2>2, <2>3, <2>4, <2>5, <2>6 DEF Start
  <1> QED BY <1>1, PlainStep

(* The row is read again and is now a copy of the new token's row, the      *)
(* first one; copies of the old token's row stay as they were.              *)
LEMMA RenewReads ==
  ASSUME SessionInv, IInv', NEW t \in Threads, op[t] = "renew",
         pc[t] \in TokenSteps, pc'[t] = "update",
         \A w \in Threads : w # t => Still(w),
         arg'[t] = arg[t], new'[t] = new[t], Copy(arg[t], row'[t]), row'[t] \in Row,
         issued' = issued, rowLock' = rowLock, tokenDB' = tokenDB,
         \A k \in Tokens : \/ tokenCache'[k] = tokenCache[k]
                           \/ k = arg[t] /\ tokenCache'[k] = row'[t]
  PROVE  SessionInv'
  <1> DEFINE n == new[t]
             a == arg[t]
             x == row'[t]
  <1>1. /\ n \in Tokens /\ a \in Tokens /\ a # n /\ n # None /\ n \in issued
        /\ \A r \in Row : ~Copy(n, r)
        /\ \A w \in Threads : w # t => new[w] # n
        /\ \A w \in Threads : arg[w] # n
    BY NoneAssumption DEF SessionInv, IInv, LocalsOK, NewIsOwn, OnlyIssued
  <1>2. Copy(a, x) /\ x \in Row
    OBVIOUS
  <1>3. \A k \in Tokens, r \in Row : Copy(k, r)' => Copy(k, r) \/ (k = n /\ r = x)
    <2> SUFFICES ASSUME NEW k \in Tokens, NEW r \in Row, Copy(k, r)'
                 PROVE  Copy(k, r) \/ (k = n /\ r = x)
      OBVIOUS
    <2>1. CASE tokenDB'[k] = r \/ tokenCache'[k] = r
      BY <1>2, <2>1, NoneAssumption DEF Copy
    <2>2. ASSUME NEW w \in Threads, pc'[w] \in Writing, arg'[w] = k, row'[w] = r
          PROVE  Copy(k, r)
      <3>1. CASE w = t
        BY <1>2, <2>2, <3>1
      <3>2. CASE w # t
        BY <2>2, <3>2, NoneAssumption DEF Copy, Still
      <3> QED BY <3>1, <3>2
    <2>3. ASSUME NEW w \in Threads, pc'[w] \in RenewSteps, new'[w] = k, row'[w] = r
          PROVE  Copy(k, r) \/ (k = n /\ r = x)
      <3>1. CASE w = t
        BY <2>3, <3>1
      <3>2. CASE w # t
        BY <2>3, <3>2, NoneAssumption DEF Copy, Still
      <3> QED BY <3>1, <3>2
    <2> QED BY <2>1, <2>2, <2>3 DEF Copy
  <1>4. x.refresh \in issued
    BY <1>1, <1>2 DEF SessionInv, OnlyIssued
  <1> HIDE DEF n, a, x
  <1>5. Agree'
    BY <1>1, <1>3 DEF SessionInv, Agree
  <1>6. OnlyIssued'
    <2>1. \A k \in Tokens, r \in Row : Copy(k, r)' => k \in issued' /\ r.refresh \in issued'
      BY <1>1, <1>3, <1>4 DEF SessionInv, OnlyIssued
    <2>2. \A w \in Threads : arg'[w] = arg[w] /\ new'[w] = new[w]
      BY DEF Still
    <2> QED BY <2>1, <2>2 DEF SessionInv, OnlyIssued
  <1>7. NewIsOwn'
    <2> SUFFICES ASSUME NEW v \in Threads, NEW w \in Threads, NEW k, k = new'[v], k # None
                 PROVE  /\ new'[w] = k => w = v
                        /\ arg'[w] # k
                        /\ pc'[v] \in TokenSteps => \A r \in Row : ~Copy(k, r)'
      BY DEF NewIsOwn
    <2>1. \A z \in Threads : arg'[z] = arg[z] /\ new'[z] = new[z]
      BY DEF Still
    <2>2. /\ new[w] = k => w = v
          /\ arg[w] # k
          /\ pc[v] \in TokenSteps => \A r \in Row : ~Copy(k, r)
      BY <2>1 DEF SessionInv, NewIsOwn
    <2>3. k \in Tokens
      BY <2>1 DEF SessionInv, IInv, TypeOK
    <2>4. ASSUME pc'[v] \in TokenSteps, NEW r \in Row
          PROVE  ~Copy(k, r)'
      <3>1. v # t
        BY <2>4 DEF TokenSteps
      <3>2. k # n
        BY <1>1, <2>1, <3>1
      <3>3. pc[v] \in TokenSteps
        BY <2>4, <3>1 DEF Still
      <3> QED BY <1>3, <2>2, <2>3, <3>2, <3>3
    <2> QED BY <2>1, <2>2, <2>4
  <1>8. LocksHeld'
    <2>1. pc[t] \notin {"ucommit", "lcommit"}
      BY DEF TokenSteps
    <2> QED BY <2>1 DEF SessionInv, LocksHeld, Still, IInv, TypeOK
  <1>9. OneRowPerSession'
    BY DEF SessionInv, OneRowPerSession
  <1> QED BY <1>5, <1>6, <1>7, <1>8, <1>9 DEF SessionInv

LEMMA ReadSession ==
  ASSUME SessionInv, IInv', NEW t \in Threads,
         TokenLookup(t) \/ TokenSelect(t) \/ TokenStore(t)
  PROVE  SessionInv'
  <1> USE NoneAssumption
  <1>0. IInv
    BY DEF SessionInv
  <1>a. /\ arg[t] \in Tokens /\ op[t] \in {"auth", "refresh", "renew"}
        /\ pc[t] \in TokenSteps
        /\ tokenCache[arg[t]] # None => tokenCache[arg[t]] \in Row
        /\ tokenDB[arg[t]] # None => tokenDB[arg[t]] \in Row
        /\ pc[t] = "store" => row[t] \in Row
    BY <1>0 DEF IInv, TypeOK, LocalsOK, TokenLookup, TokenSelect, TokenStore, TokenSteps
  <1>b. \A w \in Threads : w # t => Still(w)
    BY <1>0 DEF IInv, TypeOK, TokenLookup, TokenSelect, TokenStore, HaveRow, Goto, NotFound,
         Return, Still
  <1>c. issued' = issued /\ rowLock' = rowLock /\ tokenDB' = tokenDB
    BY DEF TokenLookup, TokenSelect, TokenStore
  <1>1. CASE TokenLookup(t)
    <2>1. tokenCache' = tokenCache
      BY <1>1 DEF TokenLookup
    <2>2. CASE op[t] = "renew" /\ tokenCache[arg[t]] # None
      <3>1. /\ pc'[t] = "update" /\ row'[t] = tokenCache[arg[t]]
            /\ arg'[t] = arg[t] /\ new'[t] = new[t]
        BY <1>0, <1>1, <2>2 DEF TokenLookup, HaveRow, AfterToken, IInv, TypeOK
      <3>2. Copy(arg[t], row'[t]) /\ row'[t] \in Row
        BY <1>a, <2>2, <3>1 DEF Copy
      <3> QED BY <1>a, <1>b, <1>c, <2>1, <2>2, <3>1, <3>2, RenewReads
    <2>3. CASE ~(op[t] = "renew" /\ tokenCache[arg[t]] # None)
      <3>1. Moved(t)
        BY <1>0, <1>1, <1>a, <2>3 DEF TokenLookup, HaveRow, Goto, AfterToken, IInv, TypeOK,
             Moved, Writing, TokenSteps
      <3> QED BY <1>b, <1>c, <2>1, <3>1, PlainStep
    <2> QED BY <2>2, <2>3
  <1>2. CASE TokenSelect(t)
    <2>1. tokenCache' = tokenCache
      BY <1>2 DEF TokenSelect
    <2>2. CASE tokenDB[arg[t]] # None
      <3>1. /\ pc'[t] = "store" /\ row'[t] = tokenDB[arg[t]]
            /\ arg'[t] = arg[t] /\ new'[t] = new[t] /\ pc[t] = "select"
        BY <1>0, <1>2, <2>2 DEF TokenSelect, HaveRow, IInv, TypeOK
      <3>2. \A k \in Tokens, r \in Row : Copy(k, r)' => Copy(k, r)
        <4> SUFFICES ASSUME NEW k \in Tokens, NEW r \in Row, Copy(k, r)'
                     PROVE  Copy(k, r)
          OBVIOUS
        <4>1. CASE tokenDB'[k] = r \/ tokenCache'[k] = r
          BY <1>c, <2>1, <4>1 DEF Copy
        <4>2. ASSUME NEW w \in Threads, \/ pc'[w] \in Writing /\ arg'[w] = k /\ row'[w] = r
                                        \/ pc'[w] \in RenewSteps /\ new'[w] = k /\ row'[w] = r
              PROVE  Copy(k, r)
          <5>1. CASE w = t
            BY <3>1, <4>2, <5>1 DEF Copy, RenewSteps
          <5>2. CASE w # t
            BY <1>b, <4>2, <5>2 DEF Copy, Still
          <5> QED BY <5>1, <5>2
        <4> QED BY <4>1, <4>2 DEF Copy
      <3>3. OnlyIssued' /\ Agree' /\ NewIsOwn'
        <4>1. \A w \in Threads :
                /\ arg'[w] = arg[w] /\ new'[w] = new[w]
                /\ new'[w] # None /\ pc'[w] \in TokenSteps => pc[w] \in TokenSteps
          BY <1>a, <1>b, <3>1 DEF Still
        <4> QED BY <1>c, <3>2, <4>1, NoNewCopies
      <3>4. LocksHeld'
        BY <1>b, <1>c, <3>1 DEF SessionInv, LocksHeld, Still, IInv, TypeOK
      <3>5. OneRowPerSession'
        BY <1>c DEF SessionInv, OneRowPerSession
      <3> QED BY <3>3, <3>4, <3>5 DEF SessionInv
    <2>3. CASE tokenDB[arg[t]] = None
      <3>1. Moved(t)
        BY <1>0, <1>2, <1>a, <2>3 DEF TokenSelect, NotFound, Goto, Return, IInv, TypeOK,
             Moved, Writing, TokenSteps
      <3> QED BY <1>b, <1>c, <2>1, <3>1, PlainStep
    <2> QED BY <2>2, <2>3
  <1>3. CASE TokenStore(t)
    <2>1. /\ pc[t] = "store" /\ tokenCache' = [tokenCache EXCEPT ![arg[t]] = row[t]]
          /\ arg'[t] = arg[t] /\ new'[t] = new[t] /\ row'[t] = row[t]
          /\ pc'[t] = AfterToken(op[t])
      BY <1>0, <1>3 DEF TokenStore, Goto, IInv, TypeOK
    <2>2. Copy(arg[t], row[t]) /\ row[t] \in Row
      BY <1>a, <2>1 DEF Copy, Writing
    <2>3. \A k \in Tokens : \/ tokenCache'[k] = tokenCache[k]
                            \/ k = arg[t] /\ tokenCache'[k] = row'[t]
      BY <1>0, <2>1 DEF IInv, TypeOK
    <2>4. CASE op[t] = "renew"
      <3>1. pc'[t] = "update"
        BY <2>1, <2>4 DEF AfterToken
      <3> QED BY <1>a, <1>b, <1>c, <2>1, <2>2, <2>3, <2>4, <3>1, RenewReads
    <2>5. CASE op[t] # "renew"
      <3>1. pc'[t] \in {"user", "check"}
        BY <1>a, <2>1, <2>5 DEF AfterToken
      <3>2. \A k \in Tokens, r \in Row : Copy(k, r)' => Copy(k, r)
        <4> SUFFICES ASSUME NEW k \in Tokens, NEW r \in Row, Copy(k, r)'
                     PROVE  Copy(k, r)
          OBVIOUS
        <4>1. CASE tokenDB'[k] = r \/ tokenCache'[k] = r
          BY <1>c, <2>1, <2>2, <2>3, <4>1 DEF Copy
        <4>2. ASSUME NEW w \in Threads, \/ pc'[w] \in Writing /\ arg'[w] = k /\ row'[w] = r
                                        \/ pc'[w] \in RenewSteps /\ new'[w] = k /\ row'[w] = r
              PROVE  Copy(k, r)
          <5>1. w # t
            BY <3>1, <4>2 DEF RenewSteps, Writing
          <5> QED BY <1>b, <4>2, <5>1 DEF Copy, Still
        <4> QED BY <4>1, <4>2 DEF Copy
      <3>3. OnlyIssued' /\ Agree' /\ NewIsOwn'
        <4>1. \A w \in Threads :
                /\ arg'[w] = arg[w] /\ new'[w] = new[w]
                /\ new'[w] # None /\ pc'[w] \in TokenSteps => pc[w] \in TokenSteps
          BY <1>a, <1>b, <2>1 DEF Still
        <4> QED BY <1>c, <3>2, <4>1, NoNewCopies
      <3>4. LocksHeld'
        BY <1>b, <1>c, <2>1 DEF SessionInv, LocksHeld, Still, IInv, TypeOK
      <3>5. OneRowPerSession'
        BY <1>c DEF SessionInv, OneRowPerSession
      <3> QED BY <3>3, <3>4, <3>5 DEF SessionInv
    <2> QED BY <2>4, <2>5
  <1> QED BY <1>1, <1>2, <1>3

(* A store takes a row that the token had already, and a request in flight  *)
(* keeps its row, or has no use for it any more.                            *)
LEMMA CopiesFrom ==
  ASSUME \A k \in Tokens : tokenDB'[k] = None \/ Copy(k, tokenDB'[k]),
         \A k \in Tokens : tokenCache'[k] = None \/ Copy(k, tokenCache'[k]),
         \A w \in Threads :
           /\ pc'[w] \in Writing => pc[w] \in Writing /\ arg'[w] = arg[w] /\ row'[w] = row[w]
           /\ pc'[w] \in RenewSteps => pc[w] \in RenewSteps /\ new'[w] = new[w] /\ row'[w] = row[w]
  PROVE  \A k \in Tokens, r \in Row : Copy(k, r)' => Copy(k, r)
  BY DEF Copy

(* The steps of RefreshToken: each writes the row of the request under the  *)
(* new token, or takes the old token's row away.                            *)
LEMMA RefreshSession ==
  ASSUME SessionInv, IInv', NEW t \in Threads,
         RefreshUpdate(t) \/ RefreshCommit(t) \/ RefreshDropOld(t) \/ RefreshStoreNew(t)
  PROVE  SessionInv'
  <1> USE NoneAssumption
  <1>0. IInv
    BY DEF SessionInv
  <1> DEFINE n == new[t]
             a == arg[t]
             x == row[t]
  <1>1. /\ pc[t] \in RenewSteps /\ n \in Tokens /\ a \in Tokens /\ x \in Row
        /\ issued' = issued
        /\ pc'[t] \in {"ucommit", "rdrop", "rstore", "answered"}
        /\ arg' = arg /\ new' = new /\ row' = row
        /\ \A w \in Threads : w # t => pc'[w] = pc[w]
    BY <1>0 DEF IInv, TypeOK, LocalsOK, RenewSteps, RefreshUpdate, RefreshCommit,
         RefreshDropOld, RefreshStoreNew, Goto
  <1>2. Copy(n, x) /\ Copy(a, x) /\ a # n
    BY <1>1 DEF Copy, RenewSteps, Writing, SessionInv, NewIsOwn
  <1>3. \A k \in Tokens : /\ tokenDB[k] = None \/ Copy(k, tokenDB[k])
                          /\ tokenCache[k] = None \/ Copy(k, tokenCache[k])
    BY DEF Copy
  <1>4. \A w \in Threads :
          /\ arg'[w] = arg[w] /\ new'[w] = new[w]
          /\ pc'[w] \in TokenSteps => pc[w] \in TokenSteps
          /\ pc'[w] \in Writing => pc[w] \in Writing /\ row'[w] = row[w]
          /\ pc'[w] \in RenewSteps => pc[w] \in RenewSteps /\ row'[w] = row[w]
    BY <1>1 DEF TokenSteps, Writing, RenewSteps
  <1>5. ASSUME \A k \in Tokens : tokenDB'[k] = tokenDB[k] \/ tokenDB'[k] = None
                                   \/ (k = n /\ tokenDB'[k] = x),
               \A k \in Tokens : tokenCache'[k] = tokenCache[k] \/ tokenCache'[k] = None
                                   \/ (k = n /\ tokenCache'[k] = x)
        PROVE  OnlyIssued' /\ Agree' /\ NewIsOwn'
    <2>1. \A k \in Tokens, r \in Row : Copy(k, r)' => Copy(k, r)
      BY <1>2, <1>3, <1>4, <1>5, CopiesFrom
    <2> QED BY <1>1, <1>4, <2>1, NoNewCopies
  <1>6. ASSUME tokenDB' = tokenDB PROVE OneRowPerSession'
    BY <1>6 DEF SessionInv, OneRowPerSession
  <1>7. ASSUME tokenDB' = tokenDB, rowLock' = rowLock, pc[t] \notin {"ucommit", "lcommit"}
        PROVE  LocksHeld'
    BY <1>0, <1>1, <1>7 DEF SessionInv, LocksHeld, IInv, TypeOK
  <1>8. CASE RefreshUpdate(t)
    <2>1. /\ tokenDB' = tokenDB /\ pc[t] = "update" /\ pc'[t] = "ucommit"
          /\ rowLock[a] = None
          /\ rowLock' = IF tokenDB[a] # None THEN [rowLock EXCEPT ![a] = t] ELSE rowLock
          /\ tokenCache' = [tokenCache EXCEPT ![n] = x]
      BY <1>0, <1>8 DEF RefreshUpdate, Goto, IInv, TypeOK
    <2>2. OnlyIssued' /\ Agree' /\ NewIsOwn' /\ OneRowPerSession'
      BY <1>0, <1>1, <1>5, <1>6, <2>1 DEF IInv, TypeOK
    <2>3. LocksHeld'
      BY <1>0, <1>1, <2>1 DEF SessionInv, LocksHeld, IInv, TypeOK
    <2> QED BY <2>2, <2>3 DEF SessionInv
  <1>9. CASE RefreshCommit(t)
    <2>0. tokenCache' = tokenCache /\ pc[t] = "ucommit" /\ pc'[t] = "rdrop"
      BY <1>0, <1>9 DEF RefreshCommit, Goto, IInv, TypeOK
    <2>1. CASE rowLock[a] = t
      <3>1. /\ tokenDB' = [tokenDB EXCEPT ![a] = None, ![n] = x]
            /\ rowLock' = [rowLock EXCEPT ![a] = None]
        BY <1>9, <2>1 DEF RefreshCommit
      <3>2. tokenDB[a] = x
        <4>1. tokenDB[a] # None /\ tokenDB[a] \in Row
          BY <1>0, <1>1, <2>1 DEF SessionInv, LocksHeld, IInv, TypeOK
        <4>2. Copy(a, tokenDB[a])
          BY <4>1 DEF Copy
        <4> QED BY <1>1, <1>2, <4>1, <4>2 DEF SessionInv, Agree
      <3>3. /\ tokenDB'[a] = None /\ tokenDB'[n] = x
            /\ \A k \in Tokens : k # a /\ k # n => tokenDB'[k] = tokenDB[k]
            /\ rowLock'[a] = None
            /\ \A k \in Tokens : k # a => rowLock'[k] = rowLock[k]
        BY <1>0, <1>1, <1>2, <3>1 DEF IInv, TypeOK
      <3>4. OnlyIssued' /\ Agree' /\ NewIsOwn'
        BY <1>5, <2>0, <3>3
      <3>5. LocksHeld'
        BY <1>0, <1>1, <2>0, <2>1, <3>3 DEF SessionInv, LocksHeld, IInv, TypeOK
      <3> HIDE DEF n, a, x
      <3>6. OneRowPerSession'
        BY <1>1, <3>2, <3>3 DEF SessionInv, OneRowPerSession
      <3> QED BY <3>4, <3>5, <3>6 DEF SessionInv
    <2>2. CASE rowLock[a] # t
      <3>1. tokenDB' = tokenDB /\ rowLock' = rowLock
        BY <1>9, <2>2 DEF RefreshCommit
      <3>2. LocksHeld'
        BY <1>0, <1>1, <2>2, <3>1 DEF SessionInv, LocksHeld, IInv, TypeOK
      <3> QED BY <1>5, <1>6, <2>0, <3>1, <3>2 DEF SessionInv
    <2> QED BY <2>1, <2>2
  <1>10. CASE RefreshDropOld(t)
    <2>1. /\ tokenDB' = tokenDB /\ rowLock' = rowLock /\ pc[t] = "rdrop"
          /\ \A k \in Tokens : tokenCache'[k] = tokenCache[k] \/ tokenCache'[k] = None
      BY <1>0, <1>10 DEF RefreshDropOld, IInv, TypeOK
    <2> QED BY <1>5, <1>6, <1>7, <2>1 DEF SessionInv
  <1>11. CASE RefreshStoreNew(t)
    <2>1. /\ tokenDB' = tokenDB /\ rowLock' = rowLock /\ pc[t] = "rstore"
          /\ \A k \in Tokens : tokenCache'[k] = tokenCache[k] \/ (k = n /\ tokenCache'[k] = x)
      BY <1>0, <1>11 DEF RefreshStoreNew, IInv, TypeOK
    <2> QED BY <1>5, <1>6, <1>7, <2>1 DEF SessionInv
  <1> QED BY <1>8, <1>9, <1>10, <1>11

(* Logout takes the row away and writes none.                               *)
LEMMA LogoutSession ==
  ASSUME SessionInv, IInv', NEW t \in Threads, LogoutDelete(t) \/ LogoutCommit(t)
  PROVE  SessionInv'
  <1> USE NoneAssumption
  <1>0. IInv
    BY DEF SessionInv
  <1>1. /\ pc[t] \in {"lexec", "lcommit"} /\ arg[t] \in Tokens /\ issued' = issued
        /\ pc'[t] \in {"lcommit", "idle"}
        /\ \A w \in Threads : w # t => Still(w)
        /\ \A w \in Threads : /\ arg'[w] = arg[w] \/ arg'[w] = None
                              /\ new'[w] = new[w] \/ new'[w] = None
                              /\ pc'[w] \in TokenSteps => pc[w] \in TokenSteps
        /\ \A k \in Tokens : tokenDB'[k] = tokenDB[k] \/ tokenDB'[k] = None
        /\ \A k \in Tokens : tokenCache'[k] = tokenCache[k] \/ tokenCache'[k] = None
    BY <1>0 DEF IInv, TypeOK, LocalsOK, LogoutDelete, LogoutCommit, Goto, Return, Still,
         TokenSteps
  <1>2. \A k \in Tokens, r \in Row : Copy(k, r)' => Copy(k, r)
    BY <1>1 DEF Copy, Still, Writing, RenewSteps
  <1>3. OnlyIssued' /\ Agree' /\ NewIsOwn'
    BY <1>1, <1>2, NoNewCopies
  <1>4. OneRowPerSession'
    BY <1>1 DEF SessionInv, OneRowPerSession
  <1>5. LocksHeld'
    <2>1. CASE LogoutDelete(t)
      BY <1>0, <2>1 DEF LogoutDelete, Goto, SessionInv, LocksHeld, IInv, TypeOK, LocalsOK
    <2>2. CASE LogoutCommit(t)
      BY <1>0, <2>2 DEF LogoutCommit, Return, SessionInv, LocksHeld, IInv, TypeOK, LocalsOK
    <2> QED BY <2>1, <2>2
  <1> QED BY <1>3, <1>4, <1>5 DEF SessionInv

(* A token that was never issued: the first row of a session, or the new    *)
(* token of a refresh, which has no row yet.                                *)
LEMMA IssueSession ==
  ASSUME SessionInv, IInv', NEW t \in Threads, NEW n \in Tokens, n \notin issued,
         issued' = issued \cup {n}, rowLock' = rowLock, tokenCache' = tokenCache,
         pc[t] \in {"check", "insert"}, pc'[t] \notin Writing,
         \A w \in Threads : w # t => Still(w),
         arg'[t] = arg[t] \/ arg'[t] = None,
         \/ /\ tokenDB' = tokenDB
            /\ new'[t] = n
         \/ /\ \E u \in Users : tokenDB' = [tokenDB EXCEPT ![n] = [user |-> u, refresh |-> n]]
            /\ new'[t] = None
  PROVE  SessionInv'
  <1> USE NoneAssumption
  <1>0. IInv
    BY DEF SessionInv
  <1>1. /\ \A r \in Row : ~Copy(n, r)
        /\ tokenDB[n] = None
        /\ rowLock[n] = None
        /\ \A w \in Threads : arg[w] # n /\ new[w] # n
    <2>1. \A r \in Row : ~Copy(n, r)
      BY DEF SessionInv, OnlyIssued
    <2>2. tokenDB[n] = None
      BY <1>0, <2>1 DEF Copy, IInv, TypeOK
    <2>3. rowLock[n] = None /\ \A w \in Threads : arg[w] # n /\ new[w] # n
      BY <2>2 DEF SessionInv, LocksHeld, OnlyIssued
    <2> QED BY <2>1, <2>2, <2>3
  <1>2. /\ \A k \in Tokens : k # n => tokenDB'[k] = tokenDB[k]
        /\ tokenDB'[n] # None => tokenDB'[n] \in Row /\ tokenDB'[n].refresh = n /\ new'[t] = None
    BY <1>0, <1>1 DEF IInv, TypeOK, Row
  <1>3. \A k \in Tokens, r \in Row :
          Copy(k, r)' => Copy(k, r) \/ (k = n /\ tokenDB'[n] = r)
    BY <1>2 DEF Copy, Still, Writing, RenewSteps
  <1>4. Agree'
    BY <1>1, <1>3 DEF SessionInv, Agree
  <1>5. OnlyIssued'
    <2>1. \A k \in Tokens, r \in Row : Copy(k, r)' => k \in issued' /\ r.refresh \in issued'
      BY <1>2, <1>3 DEF SessionInv, OnlyIssued
    <2>2. \A w \in Threads : /\ arg'[w] = arg[w] \/ arg'[w] = None
                             /\ new'[w] = new[w] \/ new'[w] = None \/ new'[w] = n
      BY DEF Still
    <2> QED BY <2>1, <2>2 DEF SessionInv, OnlyIssued
  <1>6. NewIsOwn'
    <2> SUFFICES ASSUME NEW v \in Threads, NEW w \in Threads, NEW k, k = new'[v], k # None
                 PROVE  /\ new'[w] = k => w = v
                        /\ arg'[w] # k
                        /\ pc'[v] \in TokenSteps => \A r \in Row : ~Copy(k, r)'
      BY DEF NewIsOwn
    <2>0. \A z \in Threads : arg'[z] = arg[z] \/ arg'[z] = None
      BY DEF Still
    <2>1. CASE v = t
      <3>1. k = n /\ tokenDB' = tokenDB
        BY <2>1
      <3>2. new'[w] = n => w = t
        BY <1>1 DEF Still
      <3> QED BY <1>1, <1>3, <2>0, <2>1, <3>1, <3>2
    <2>2. CASE v # t
      <3>1. new[v] = k /\ k # n /\ k \in Tokens /\ pc'[v] = pc[v]
        BY <1>0, <1>1, <2>2 DEF Still, IInv, TypeOK
      <3>2. /\ new[w] = k => w = v
            /\ arg[w] # k
            /\ pc[v] \in TokenSteps => \A r \in Row : ~Copy(k, r)
        BY <3>1 DEF SessionInv, NewIsOwn
      <3>3. new'[w] = k => new[w] = k
        BY <3>1 DEF Still
      <3> QED BY <1>3, <2>0, <3>1, <3>2, <3>3
    <2> QED BY <2>1, <2>2
  <1>7. LocksHeld'
    BY <1>0, <1>1, <1>2 DEF SessionInv, LocksHeld, Still, IInv, TypeOK
  <1>8. OneRowPerSession'
    <2>1. \A k \in Tokens : tokenDB[k] # None => tokenDB[k].refresh # n
      BY <1>0 DEF SessionInv, OnlyIssued, Copy, IInv, TypeOK
    <2> QED BY <1>2, <2>1 DEF SessionInv, OneRowPerSession
  <1> QED BY <1>4, <1>5, <1>6, <1>7, <1>8 DEF SessionInv

LEMMA StepSession ==
  ASSUME SessionInv, IInv', NEW t \in Threads, Step(t)
  PROVE  SessionInv'
  <1> USE NoneAssumption
  <1>0. IInv
    BY DEF SessionInv
  <1> DEFINE Plain == /\ issued' = issued /\ rowLock' = rowLock
                      /\ \A k \in Tokens : \/ tokenDB'[k] = tokenDB[k]
                                           \/ tokenDB'[k] = None /\ rowLock[k] = None
                      /\ \A k \in Tokens : \/ tokenCache'[k] = tokenCache[k]
                                           \/ tokenCache'[k] = None
                      /\ \A w \in Threads : Still(w) \/ Moved(w)
  <1>1. Plain => SessionInv'
    BY PlainStep
  <1>2. CASE \/ UserLookup(t) \/ UserSelect(t) \/ Finish(t) \/ LoginAbandon(t)
             \/ DeleteUserExec(t) \/ DeleteUserCommit(t)
    <2>1. /\ issued' = issued /\ rowLock' = rowLock
          /\ tokenDB' = tokenDB /\ tokenCache' = tokenCache
      BY <1>2 DEF UserLookup, UserSelect, Finish, LoginAbandon, DeleteUserExec, DeleteUserCommit
    <2>2. \A w \in Threads : Still(w) \/ Moved(w)
      <3> USE <1>0 DEF IInv, TypeOK, LocalsOK, Still, Moved, Writing, TokenSteps, UserSteps,
              Goto, Return
      <3>1. CASE UserLookup(t)
        BY <3>1 DEF UserLookup, AfterUser
      <3>2. CASE UserSelect(t)
        BY <3>2 DEF UserSelect
      <3>3. CASE Finish(t)
        BY <3>3 DEF Finish
      <3>4. CASE LoginAbandon(t)
        BY <3>4 DEF LoginAbandon
      <3>5. CASE DeleteUserExec(t)
        BY <3>5 DEF DeleteUserExec
      <3>6. CASE DeleteUserCommit(t)
        BY <3>6 DEF DeleteUserCommit
      <3> QED BY <1>2, <3>1, <3>2, <3>3, <3>4, <3>5, <3>6
    <2> QED BY <1>1, <2>1, <2>2
  <1>3. CASE \/ UserStore(t) \/ EditUpdate(t) \/ DeleteUserFromCache(t) \/ RevokeAllCached(t)
             \/ LoginCheck(t)
    <2>1. issued' = issued /\ rowLock' = rowLock /\ tokenDB' = tokenDB
      BY <1>3 DEF UserStore, EditUpdate, DeleteUserFromCache, RevokeAllCached, LoginCheck
    <2>2. \A k \in Tokens : tokenCache'[k] = tokenCache[k] \/ tokenCache'[k] = None
      <3>1. tokenCache' = tokenCache \/ \E u : tokenCache' = WithoutUser(tokenCache, u)
        BY <1>3 DEF UserStore, EditUpdate, DeleteUserFromCache, RevokeAllCached, LoginCheck
      <3> QED BY <1>0, <3>1, WithoutUserType DEF IInv, TypeOK
    <2>3. \A w \in Threads : Still(w) \/ Moved(w)
      <3> USE <1>0 DEF IInv, TypeOK, LocalsOK, Still, Moved, Writing, TokenSteps, UserSteps,
              Goto, Return
      <3>1. CASE UserStore(t)
        BY <3>1 DEF UserStore, AfterUser
      <3>2. CASE EditUpdate(t)
        BY <3>2 DEF EditUpdate
      <3>3. CASE DeleteUserFromCache(t)
        BY <3>3 DEF DeleteUserFromCache
      <3>4. CASE RevokeAllCached(t)
        BY <3>4 DEF RevokeAllCached
      <3>5. CASE LoginCheck(t)
        BY <3>5 DEF LoginCheck
      <3> QED BY <1>3, <3>1, <3>2, <3>3, <3>4, <3>5
    <2> QED BY <1>1, <2>1, <2>2, <2>3
  <1>4. CASE RevokeAllRows(t)
    <2>1. issued' = issued /\ rowLock' = rowLock /\ tokenCache' = tokenCache
      BY <1>4 DEF RevokeAllRows
    <2>2. \A k \in Tokens : \/ tokenDB'[k] = tokenDB[k]
                            \/ tokenDB'[k] = None /\ rowLock[k] = None
      BY <1>0, <1>4 DEF RevokeAllRows, WithoutUser, IInv, TypeOK
    <2>3. \A w \in Threads : Still(w) \/ Moved(w)
      BY <1>0, <1>4 DEF RevokeAllRows, IInv, TypeOK, LocalsOK, Still, Moved, Writing,
           TokenSteps, Goto
    <2> QED BY <1>1, <2>1, <2>2, <2>3
  <1>5. CASE CheckRefresh(t)
    <2>1. /\ rowLock' = rowLock /\ tokenCache' = tokenCache /\ tokenDB' = tokenDB
          /\ pc[t] = "check"
      BY <1>5 DEF CheckRefresh
    <2>2. CASE Return(t) /\ UNCHANGED issued
      <3>1. \A w \in Threads : Still(w) \/ Moved(w)
        BY <1>0, <2>1, <2>2 DEF IInv, TypeOK, Still, Moved, Writing, TokenSteps, Return
      <3> QED BY <1>1, <2>1, <2>2, <3>1
    <2>3. ASSUME NEW k \in Tokens \ issued,
                 issued' = issued \cup {k},
                 new' = [new EXCEPT ![t] = k],
                 pc' = [pc EXCEPT ![t] = "lookup"],
                 row' = [row EXCEPT ![t] = None],
                 arg' = arg
          PROVE  SessionInv'
      <3>1. /\ pc'[t] = "lookup" /\ new'[t] = k
            /\ \A w \in Threads : w # t => Still(w)
        BY <1>0, <2>3 DEF IInv, TypeOK, Still
      <3>2. pc'[t] \notin Writing
        BY <3>1 DEF Writing
      <3> QED BY <2>1, <2>3, <3>1, <3>2, IssueSession
    <2> QED BY <1>5, <2>2, <2>3 DEF CheckRefresh
  <1>6. CASE LoginInsert(t)
    <2>1. PICK k \in Tokens \ issued :
            /\ issued' = issued \cup {k}
            /\ tokenDB' = [tokenDB EXCEPT ![k] = [user |-> usr[t], refresh |-> k]]
      BY <1>6 DEF LoginInsert
    <2>2. /\ rowLock' = rowLock /\ tokenCache' = tokenCache
          /\ pc[t] = "insert" /\ usr[t] \in Users
          /\ arg'[t] = None /\ new'[t] = None /\ pc'[t] = "idle"
          /\ \A w \in Threads : w # t => Still(w)
      BY <1>0, <1>6 DEF LoginInsert, Return, IInv, TypeOK, LocalsOK, Still
    <2>3. pc'[t] \notin Writing
      BY <2>2 DEF Writing
    <2> QED BY <2>1, <2>2, <2>3, IssueSession
  <1> QED BY <1>2, <1>3, <1>4, <1>5, <1>6, ReadSession, RefreshSession, LogoutSession DEF Step

LEMMA NextSession == SessionInv /\ [Next]_vars => SessionInv'
  <1> SUFFICES ASSUME SessionInv, [Next]_vars PROVE SessionInv'
    OBVIOUS
  <1>1. IInv'
    BY NextIInv DEF SessionInv
  <1>2. CASE Environment \/ UNCHANGED vars
    <2>1. /\ issued' = issued /\ rowLock' = rowLock
          /\ \A w \in Threads : Still(w)
      BY <1>2 DEF Environment, CleanExpiredTokens, EvictToken, EvictUser, vars, threadVars, Still
    <2>2. \A k \in Tokens : \/ tokenDB'[k] = tokenDB[k]
                            \/ tokenDB'[k] = None /\ rowLock[k] = None
      BY <1>2 DEF Environment, CleanExpiredTokens, EvictToken, EvictUser, vars
    <2>3. \A k \in Tokens : tokenCache'[k] = tokenCache[k] \/ tokenCache'[k] = None
      BY <1>2 DEF Environment, CleanExpiredTokens, EvictToken, EvictUser, vars, SessionInv,
           IInv, TypeOK
    <2> QED BY <1>1, <2>1, <2>2, <2>3, PlainStep
  <1> QED BY <1>1, <1>2, StartSession, StepSession DEF Next

(* What lies behind the two theorems below holds in every reachable state:  *)
(* copies of a row are equal also while a refresh carries one from the old  *)
(* token to the new, a generated token is one request's alone, and a locked *)
(* row is there until the request that locked it commits.                   *)
THEOREM SessionInvariance == Spec => []SessionInv
  <1>1. Init => SessionInv
    <2> SUFFICES ASSUME Init PROVE SessionInv
      OBVIOUS
    <2>1. IInv
      BY InitIInv
    <2>2. \A k \in Tokens, r \in Row : ~Copy(k, r)
      BY NoneAssumption DEF Init, Copy, Writing, RenewSteps
    <2>3. /\ \A t \in Threads : arg[t] = None /\ new[t] = None
          /\ \A k \in Tokens : rowLock[k] = None /\ tokenDB[k] = None
      BY DEF Init
    <2> QED BY <2>1, <2>2, <2>3 DEF SessionInv, OnlyIssued, Agree, NewIsOwn, LocksHeld,
             OneRowPerSession
  <1> QED BY <1>1, NextSession, PTL DEF Spec

(* Whichever copy of a token's row answers a request, the table, the cache  *)
(* or a row in flight, it names the same owner and the same session: for    *)
(* any number of refreshes, logouts and readers that overlap.               *)
THEOREM CopiesAlwaysAgree == Spec => []CopiesAgree
  <1>1. SessionInv => CopiesAgree
    <2> SUFFICES ASSUME SessionInv, NEW k \in Tokens, NEW a \in Copies(k), NEW b \in Copies(k)
                 PROVE  a = b
      BY DEF CopiesAgree
    <2>1. \A c \in Copies(k) : c \in Row /\ Copy(k, c)
      BY DEF Copies, Copy, SessionInv, IInv, TypeOK, Writing
    <2> QED BY <2>1 DEF SessionInv, Agree
  <1> QED BY <1>1, SessionInvariance, PTL

(* Of several refreshes of one session that overlap at most one renames its *)
(* row (UpdateRecord where token = Old), so a session never has two rows.   *)
THEOREM AlwaysOneRowPerSession == Spec => []OneRowPerSession
  BY SessionInvariance, PTL DEF SessionInv
=============================================================================
